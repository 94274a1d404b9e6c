----------------------------- MODULE MenuViews -----------------------------
(***************************************************************************)
(* What is read from the rows of sys_menu: the routes a user gets, and the *)
(* list of all menus, whose tree is built the same way from sys_dept.      *)
(***************************************************************************)
EXTENDS Menus, SequencesExt

-----------------------------------------------------------------------------
(* Routes of a user, from the menus granted to its roles. *)

Enabled == {i \in menus : rows[i].status = 1}

\* One turn of the climb in buildDynamicRoutes: the branch, if it ends in an enabled root.
RECURSIVE Branch(_, _)
Branch(at, visited) ==
    IF at \notin Enabled \ visited THEN {}
    ELSE IF rows[at].pid = None THEN visited \cup {at}
    ELSE Branch(rows[at].pid, visited \cup {at})

RoutesOf(G) == {i \in UNION {Branch(g, {}) : g \in G} : HasRoute(i)}

\* What hangs from the roots: a route whose parent has none is attached to nothing.
RECURSIVE Under(_, _)
Under(S, R) ==
    LET next == {i \in R \ S : rows[i].pid \in S} IN
    IF next = {} THEN S ELSE Under(S \cup next, R)

DynamicRoutes(G) ==
    LET R == RoutesOf(G) IN Under({i \in R : rows[i].pid = None}, R)

-----------------------------------------------------------------------------
(* The lists of all menus and of all departments, from rows in whatever order *)
(* the database returns them.                                                 *)

Position(s, x) == CHOOSE n \in DOMAIN s : s[n] = x

\* Mutant of MenuLess: names do not count.
MenuLessByOrder ==
    {<<a, b>> \in menus \X menus : rows[a].meta.order < rows[b].meta.order}

\* compareTreeItems; an absent order counts as 0.
MenuLess ==
    {<<a, b>> \in menus \X menus :
        \/ rows[a].meta.order < rows[b].meta.order
        \/ rows[a].meta.order = rows[b].meta.order /\ rows[a].name < rows[b].name}

\* A department has its name to itself only among those of one parent.
DeptName(i) == Cardinality({j \in Children(rows[i].pid) : j < i})

\* compareDepartments
DeptLess ==
    LET key(i) == <<rows[i].meta.order, DeptName(i), i>> IN
    {<<a, b>> \in menus \X menus :
        \E n \in 1..3 : /\ key(a)[n] < key(b)[n]
                        /\ \A m \in 1..(n - 1) : key(a)[m] = key(b)[m]}

\* Array.prototype.sort is stable.
Sorted(S, order, less) ==
    SetToSortSeq(S, LAMBDA a, b :
        \/ <<a, b>> \in less
        \/ <<b, a>> \notin less /\ Position(order, a) < Position(order, b))

\* Up from `at` along the normalised parents, until a row seen on an earlier climb;
\* a cycle loses the parent of its least row.
RECURSIVE Follow(_, _, _, _)
Follow(at, path, s, less) ==
    IF at = None \/ at \in s.completed THEN [s EXCEPT !.completed = @ \cup ToSet(path)]
    ELSE IF at \in ToSet(path) THEN
        LET cycle == SubSeq(path, Position(path, at), Len(path)) IN
        [parent |-> [s.parent EXCEPT ![Head(Sorted(ToSet(cycle), cycle, less))] = None],
         completed |-> s.completed \cup ToSet(path)]
    ELSE Follow(s.parent[at], Append(path, at), s, less)

\* The parents the list is built from.
Parents(order, less) ==
    FoldLeft(LAMBDA s, i : IF i \in s.completed THEN s ELSE Follow(i, <<>>, s, less),
             [parent |-> [i \in menus |-> IF rows[i].pid \in menus \ {i} THEN rows[i].pid ELSE None],
              completed |-> {}],
             order).parent

\* The tree as it is shown: a row, then what is under it, siblings sorted.
RECURSIVE Shown(_, _, _, _)
Shown(at, parent, order, less) ==
    FlattenSeq([n \in 1..Cardinality({i \in menus : parent[i] = at}) |->
        LET i == Sorted({j \in menus : parent[j] = at}, order, less)[n]
        IN <<i>> \o Shown(i, parent, order, less)])

SystemMenuTree(order) == Shown(None, Parents(order, MenuLess), order, MenuLess)
DeptTree(order) == Shown(None, Parents(order, DeptLess), order, DeptLess)

-----------------------------------------------------------------------------
\* A row and all rows above it, enabled or not.
RECURSIVE Above(_, _)
Above(at, S) == IF at \notin menus \ S THEN S ELSE Above(rows[at].pid, S \cup {at})

\* Those of a row whose way up is enabled throughout and has a root at its end.
OpenBranch(i) ==
    {j \in Above(i, {}) : Above(i, {}) \subseteq Enabled /\ \E k \in Above(i, {}) : rows[k].pid = None}

\* Whatever is granted, getAllMenusByUserId answers with exactly the menus that have a
\* route and are granted, or are above a granted row, where every row up to the root
\* is enabled: no route is dropped because the row above it has none.
RoutesComplete ==
    \A G \in SUBSET menus :
        DynamicRoutes(G) =
            {i \in menus : HasRoute(i) /\ \E g \in G : i \in OpenBranch(g)}

\* The rows on the cycle that i is on, if it is.
Cycle(i) == {j \in Above(i, {}) : i \in Above(rows[j].pid, {})}

StaysUnder(i, less) ==
    /\ rows[i].pid \in menus \ {i}
    /\ i \in Cycle(i) => \E j \in Cycle(i) : <<j, i>> \in less

\* In whatever order the rows come, and however their parents were damaged, both lists
\* show every row once, under its own parent unless that is missing, itself, or the row
\* is the first of a cycle, and look the same (buildSystemMenuTree, dept buildTree).
ListsExact ==
    \A order \in SetToSeqs(menus) :
        LET some == SetToSeq(menus) IN
        /\ ToSet(SystemMenuTree(order)) = menus /\ Len(SystemMenuTree(order)) = Len(order)
        /\ ToSet(DeptTree(order)) = menus /\ Len(DeptTree(order)) = Len(order)
        /\ \A i \in menus :
               /\ Parents(order, MenuLess)[i] = IF StaysUnder(i, MenuLess) THEN rows[i].pid ELSE None
               /\ Parents(order, DeptLess)[i] = IF StaysUnder(i, DeptLess) THEN rows[i].pid ELSE None
        /\ SystemMenuTree(order) = SystemMenuTree(some) /\ DeptTree(order) = DeptTree(some)

=============================================================================
