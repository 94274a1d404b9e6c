----------------------------- MODULE Hierarchy -----------------------------
(***************************************************************************)
(* The writes of a tree table: sys_dept, with the users that belong to a   *)
(* department, and sys_menu, whose rows are branches (catalog, menu) or    *)
(* leaves (embedded, link, button). A department is always a branch, a     *)
(* menu never has users. Each write is one SERIALIZABLE transaction: it    *)
(* locks its own row, climbs from the parent it is given to the root, a    *)
(* share lock and a statement per row, looks for what hangs on its row and *)
(* commits. Whatever a transaction reads is as old as its first statement. *)
(***************************************************************************)
EXTENDS FiniteSets

CONSTANTS
    Nodes,    \* ids that may ever be drawn
    Users,    \* sys_user rows, deleted ones included: they keep their department
    Root,     \* a null pid, a null dept_id
    Writers   \* the transactions, which may overlap

ASSUME HierarchyAssumption == Root \notin Nodes /\ Nodes \cap Users = {}

VARIABLES
    live,   \* rows that exist
    gone,   \* rows soft-deleted
    leaf,   \* rows whose type takes no children
    pid,    \* the parent of each row
    home,   \* the department of each user
    tx      \* the transactions in flight

table == <<live, gone, leaf, pid, home>>
vars == <<live, gone, leaf, pid, home, tx>>

Parents == Nodes \cup {Root}

\* A write: of row `own`, to be put under `to`, as a leaf or not.
Ops == [kind: {"create", "update"}, own: Nodes, to: Parents, leaf: BOOLEAN]
  \cup [kind: {"remove"}, own: Nodes, to: {Root}, leaf: {FALSE}]
  \cup [kind: {"assign"}, own: Users, to: Nodes, leaf: {FALSE}]

\* What a transaction can read or write: a row, the set of children of a row, the
\* set of its users.
Things == {"row", "kids", "users"} \X (Nodes \cup Users \cup {Root})

\* `chain`: the rows it has share-locked. `at`: the row it reads next. `kids`,
\* `users`: whether its row has some in its snapshot. `rivals`: what the transactions
\* that have committed since the snapshot read and wrote.
Rivals == [reads: SUBSET Things, writes: SUBSET Things]
Tx == [pc: {"lock", "climb"}, op: Ops, chain: SUBSET Nodes, at: Parents,
       kids: BOOLEAN, users: BOOLEAN, rivals: SUBSET Rivals]
Idle == [pc |-> "idle"]
Done == [pc |-> "done"]
Busy == {w \in Writers : tx[w].pc \in {"lock", "climb"}}

-----------------------------------------------------------------------------
Kids(n) == {c \in live : pid[c] = n}
UsersOf(n) == {u \in Users : home[u] = n}

Forest ==
    \A S \in SUBSET live : S # {} => \E n \in S : pid[n] \notin S

\* A table its writes have left. Soft-deleted rows among it could only be missed.
Init ==
    /\ live \in SUBSET Nodes /\ gone = {}
    /\ leaf \in SUBSET live
    /\ pid \in [Nodes -> Parents]
    /\ \A n \in Nodes : pid[n] # Root => n \in live /\ pid[n] \in live \ leaf
    /\ Forest
    /\ home \in [Users -> live \cup {Root}]
    /\ tx = [w \in Writers |-> Idle]

\* Rows locked for update, and for share, by the transaction of w.
Exclusive(w) == IF tx[w].pc = "climb" THEN {tx[w].op.own} ELSE {}
Shared(w) == IF w \in Busy THEN tx[w].chain ELSE {}

Rows(S) == {<<"row", n>> : n \in S}

\* What it reads and what it will have written. A move also leaves a parent.
Reads(t) ==
    Rows(t.chain \cup {t.op.own})
    \cup (IF t.op.kind = "remove" \/ t.op.leaf THEN {<<"kids", t.op.own>>} ELSE {})
    \cup (IF t.op.kind = "remove" THEN {<<"users", t.op.own>>} ELSE {})

Writes(t) ==
    Rows({t.op.own})
    \cup (IF t.op.kind = "assign" THEN {<<"users", t.op.to>>, <<"users", home[t.op.own]>>}
          ELSE {<<"kids", t.op.to>>, <<"kids", pid[t.op.own]>>})

Overwritten(t, n) == \E r \in t.rivals : <<"row", n>> \in r.writes

\* Mutant of Serializable: REPEATABLE READ, where only rows changed since the snapshot count.
RepeatableRead(t) == TRUE

\* PostgreSQL does not let both of two overlapping serializable transactions commit
\* when each has read what the other writes (40001).
Serializable(t) ==
    \A r \in t.rivals : ~(/\ r.writes \cap Reads(t) # {}
                          /\ r.reads \cap Writes(t) # {})

-----------------------------------------------------------------------------
\* The first statement fixes the snapshot: what it does not find is refused with
\* 404. An INSERT draws an id of its own and has no row to lock. A user moves only
\* to another department.
Begin(w, o) ==
    /\ tx[w] = Idle
    /\ o.kind = "create" => /\ o.own \notin live \cup gone
                            /\ \A v \in Busy : tx[v].op.own # o.own
    /\ o.kind \in {"update", "remove"} => o.own \in live
    /\ o.kind = "assign" => home[o.own] # o.to
    /\ tx' = [tx EXCEPT ![w] =
                [pc |-> IF o.kind = "create" THEN "climb" ELSE "lock",
                 op |-> o, chain |-> {}, at |-> o.to, rivals |-> {},
                 kids |-> Kids(o.own) # {}, users |-> UsersOf(o.own) # {}]]
    /\ UNCHANGED table

\* findOne with pessimistic_write: waits for whoever holds the row, and fails with
\* 40001 when it has changed since the snapshot.
LockRow(w) ==
    /\ tx[w].pc = "lock"
    /\ \A v \in Writers \ {w} : tx[w].op.own \notin Exclusive(v) \cup Shared(v)
    /\ ~Overwritten(tx[w], tx[w].op.own)
    /\ tx' = [tx EXCEPT ![w].pc = "climb"]
    /\ UNCHANGED table

\* Mutant of Unvisited: the row being edited is not among the visited ones.
UnvisitedParent(t) == t.at \notin t.chain

\* visitedIds starts with the id being edited.
Unvisited(t) == t.at \notin t.chain \cup {t.op.own}

\* One turn of validateParentChain, a findOne with pessimistic_read; the
\* validateDepartment of a user write reads one row and climbs no further.
ReadParent(w) ==
    LET t == tx[w] IN
    /\ t.pc = "climb" /\ t.at # Root
    /\ Unvisited(t)
    /\ \A v \in Writers \ {w} : t.at \notin Exclusive(v)
    /\ ~Overwritten(t, t.at)
    /\ t.at \in live \ leaf
    /\ tx' = [tx EXCEPT ![w] = [@ EXCEPT !.chain = t.chain \cup {t.at},
                                          !.at = IF t.op.kind = "assign" THEN Root ELSE pid[t.at]]]
    /\ UNCHANGED table

\* Mutant of Bare: a department is removed whoever belongs to it.
Childless(t) == t.op.kind = "remove" \/ t.op.leaf => ~t.kids

\* Mutant of Bare: a row becomes a leaf whatever hangs on it.
BareIfRemoved(t) == t.op.kind = "remove" => ~t.kids /\ ~t.users

\* Children of a row to be removed or to become a leaf, users of one to be removed.
Bare(t) ==
    /\ t.op.kind = "remove" \/ t.op.leaf => ~t.kids
    /\ t.op.kind = "remove" => ~t.users

Apply(o) ==
    /\ live' = (IF o.kind = "create" THEN live \cup {o.own} ELSE live)
               \ (IF o.kind = "remove" THEN {o.own} ELSE {})
    /\ gone' = IF o.kind = "remove" THEN gone \cup {o.own} ELSE gone
    /\ leaf' = IF o.leaf THEN leaf \cup {o.own} ELSE leaf \ {o.own}
    /\ pid' = IF o.kind \in {"create", "update"} THEN [pid EXCEPT ![o.own] = o.to] ELSE pid
    /\ home' = IF o.kind = "assign" THEN [home EXCEPT ![o.own] = o.to] ELSE home

Commit(w) ==
    LET t == tx[w]
        rival == [reads |-> Reads(t), writes |-> Writes(t)]
    IN
    /\ t.pc = "climb" /\ t.at = Root
    /\ Bare(t)
    /\ Serializable(t)
    /\ Apply(t.op)
    /\ tx' = [v \in Writers |-> IF v = w THEN Done
                                ELSE IF v \in Busy
                                     THEN [tx[v] EXCEPT !.rivals = @ \cup {rival}]
                                ELSE tx[v]]

\* Any other end: a check that refuses, a unique index (23505), 40001, a deadlock
\* that PostgreSQL breaks (40P01), a lost connection. Nothing is written.
Rollback(w) ==
    /\ w \in Busy
    /\ tx' = [tx EXCEPT ![w] = Done]
    /\ UNCHANGED table

Step(w) ==
    \/ tx[w] = Idle /\ \E o \in Ops : Begin(w, o)
    \/ LockRow(w) \/ ReadParent(w) \/ Commit(w)
    \/ Rollback(w)

Next == \E w \in Writers : Step(w)

Spec == Init /\ [][Next]_vars

-----------------------------------------------------------------------------
(* Properties.                                                             *)

\* Every variable stays in its type.
TypeOK ==
    /\ live \subseteq Nodes /\ gone \subseteq Nodes /\ leaf \subseteq Nodes
    /\ pid \in [Nodes -> Parents]
    /\ home \in [Users -> Parents]
    /\ tx \in [Writers -> Tx \cup {Idle, Done}]

\* Whatever moves overlap, each legal on its own snapshot, no row is its own
\* ancestor: every climb of validateParentChain, and every tree built, ends.
Acyclic == Forest

\* A row is not removed while another is put under it, nor turned into a leaf: the
\* parent of a row exists and takes children. The checks of the two writes read
\* different rows; only their transactions keep them apart.
ParentsCapable ==
    \A n \in live : pid[n] # Root => pid[n] \in live \ leaf

\* A department is not removed while a user is put into it: every user, even a
\* deleted one, belongs to a department that exists.
HomesLive == \A u \in Users : home[u] # Root => home[u] \in live

-----------------------------------------------------------------------------
(* TreeView has the same table and no transactions.                        *)

Tree == INSTANCE TreeView

\* Overlapping writes look as if they came one after the other: whatever a transaction
\* has checked on its snapshot, some time ago and statement by statement, holds of the
\* table it commits to (runSerializableWrite of menus and departments).
ImplementsTree == Tree!Spec

=============================================================================
