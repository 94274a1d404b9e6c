------------------------------- MODULE Menus -------------------------------
(***************************************************************************)
(* sys_menu: what a write makes of a row, and what it checks of the table. *)
(* A write is one transaction, taken here as one step; how transactions    *)
(* overlap is in Hierarchy, what is read from the rows in MenuViews.       *)
(***************************************************************************)
EXTENDS Integers, FiniteSets

CONSTANTS
    Ids,       \* ids of rows, positive
    Names,     \* route names: numbers, in the order of the strings they stand for
    Creates,   \* bodies of POST /system/menu
    Patches,   \* bodies of PUT /system/menu/:id
    MaxRows    \* no more rows are created than this

None == 0    \* a null column, an absent key of meta, a field submitted as null or ''
Bad == -1    \* a value of the wrong format

VARIABLE rows   \* the rows not soft-deleted; a new row may take the id of a removed one

menus == DOMAIN rows

Types == {"catalog", "menu", "embedded", "link", "button"}
MetaKeys == {"order", "activePath", "iframeSrc", "link"}
Columns == {"type", "status", "name", "pid", "path", "authCode", "component", "redirect"}

ParentCapable(type) == type \in {"catalog", "menu"}

\* What the entity starts from when there is no stored row.
Blank == [type |-> "menu", status |-> 1, name |-> None, pid |-> None, path |-> None,
          authCode |-> None, component |-> None, redirect |-> None,
          meta |-> [k \in MetaKeys |-> None]]

\* By type: the columns that must be set, and those a row must not have.
Needs == [catalog |-> {"path"}, menu |-> {"path", "component"}, embedded |-> {"path"},
          link |-> {}, button |-> {"pid", "authCode"}]
Clears == [catalog |-> {}, menu |-> {}, embedded |-> {"redirect"},
           link |-> {"authCode", "redirect"}, button |-> {"path", "component", "redirect"}]

\* Mutant of Drops: a highlight stays with a row that becomes a button or a catalog.
DropsAddresses ==
    [catalog |-> {"iframeSrc", "link"}, menu |-> {"iframeSrc", "link"}, embedded |-> {"link"},
     link |-> {"activePath", "iframeSrc"}, button |-> {"iframeSrc", "link"}]

\* The keys of meta that a type has no use for.
Drops == [catalog |-> {"activePath", "iframeSrc", "link"}, menu |-> {"iframeSrc", "link"},
          embedded |-> {"link"}, link |-> {"activePath", "iframeSrc"},
          button |-> {"activePath", "iframeSrc", "link"}]

-----------------------------------------------------------------------------
\* VbenMenuWriteDto. A body is a function from the fields it submits; a field that an
\* edit leaves out keeps the stored value.
Fields == Columns \cup {"meta", "activePath", "linkSrc"}

\* What the DTO's decorators let through.
BodyFits(dto) ==
    /\ DOMAIN dto \subseteq Fields
    /\ "type" \in DOMAIN dto => dto.type \in Types
    /\ "status" \in DOMAIN dto => dto.status \in 0..1
    /\ "name" \in DOMAIN dto => dto.name \in Names \cup {None, Bad}

ASSUME MenusAssumption ==
    /\ Ids \subseteq Nat \ {None} /\ Names \subseteq Nat \ {None} /\ Ids \subseteq Names
    /\ \A dto \in Creates : {"name", "type", "status"} \subseteq DOMAIN dto
    /\ \A dto \in Creates \cup Patches : BodyFits(dto)

Submitted(dto, cur, f) == IF f \in DOMAIN dto THEN dto[f] ELSE cur[f]

\* The form sends two keys of meta as fields of their own.
FormField == [activePath |-> "activePath", iframeSrc |-> "linkSrc", link |-> "linkSrc"]

\* The submitted keys of meta over the stored ones.
Merged(dto, cur) ==
    [k \in MetaKeys |-> Submitted(IF "meta" \in DOMAIN dto THEN dto.meta ELSE <<>>, cur.meta, k)]

\* normalizeMeta: the fields of the form over those, less what the type has no use for.
NormalMeta(dto, cur, type) ==
    [k \in MetaKeys |->
        IF k \in Drops[type] THEN None
        ELSE IF k # "order" /\ FormField[k] \in DOMAIN dto THEN dto[FormField[k]]
        ELSE Merged(dto, cur)[k]]

\* The row before the columns are cleared that its type has no use for.
Draft(dto, cur) ==
    LET type == Submitted(dto, cur, "type") IN
    [f \in Columns \cup {"meta"} |->
        IF f = "meta" THEN NormalMeta(dto, cur, type) ELSE Submitted(dto, cur, f)]

\* Formats are checked before the columns are cleared.
WellFormed(dto, row) ==
    /\ row.name # None
    /\ "linkSrc" \in DOMAIN dto => row.type \in {"embedded", "link"}
    /\ Bad \notin {row[f] : f \in Columns \ {"type"}} \cup {row.meta[k] : k \in MetaKeys}
    /\ row.type = "embedded" => row.meta.iframeSrc # None
    /\ row.type = "link" => row.meta.link # None
    /\ \A f \in Needs[row.type] : row[f] # None

\* buildMenuWriteState, of a body that is well formed.
Build(dto, cur) ==
    LET row == Draft(dto, cur) IN
    [f \in DOMAIN row |-> IF f \in Clears[row.type] THEN None ELSE row[f]]

-----------------------------------------------------------------------------
\* Mutant of Others: the row being edited is not excluded.
AllRows(i) == menus

\* The rows an edit of i is compared with.
Others(i) == menus \ {i}

\* What validateParentChain asks of a row on the way up: it is there, has not been met
\* before and takes children.
MayClimb(i, met) == i \in menus \ met /\ ParentCapable(rows[i].type)

\* Its loop, from a row that has just been met.
Onward(at, visited) ==
    LET onward[i \in menus, met \in SUBSET menus] ==
            LET up == rows[i].pid
            IN  up = None \/ (MayClimb(up, met) /\ onward[up, met \cup {up}])
    IN  onward[at, visited \cup {at}]

\* validateParentChain, up to the root.
Climbs(at, visited) == at = None \/ (MayClimb(at, visited) /\ Onward(at, visited))

\* validateWriteState. The parent and activePath are checked again even by an edit
\* that submits neither.
Valid(i, row) ==
    /\ Climbs(row.pid, {i} \cap menus)
    /\ \A j \in Others(i), f \in {"name", "path", "authCode"} :
           row[f] = None \/ rows[j][f] # row[f]
    /\ row.meta.activePath # None =>
           \E j \in Others(i) : rows[j].path = row.meta.activePath

Children(i) == {j \in menus : rows[j].pid = i}

\* Mutant of LeafAllowed: a row with children may become a leaf.
AnyLeafAllowed(i, type) == TRUE

LeafAllowed(i, type) == ParentCapable(type) \/ Children(i) = {}

Create(i, dto) ==
    /\ i \notin menus /\ Cardinality(menus) < MaxRows
    /\ WellFormed(dto, Draft(dto, Blank))
    /\ Valid(i, Build(dto, Blank))
    /\ rows' = [j \in menus \cup {i} |-> IF j = i THEN Build(dto, Blank) ELSE rows[j]]

Update(i, dto) ==
    /\ WellFormed(dto, Draft(dto, rows[i]))
    /\ Valid(i, Build(dto, rows[i]))
    /\ LeafAllowed(i, Build(dto, rows[i]).type)
    /\ rows' = [rows EXCEPT ![i] = Build(dto, rows[i])]

\* No role holds the row: whichever do is another table's matter (Permissions).
Delete(i) ==
    /\ Children(i) = {}
    /\ rows' = [j \in menus \ {i} |-> rows[j]]

-----------------------------------------------------------------------------
\* Rows of one table, its parents given. Names are unique, as their index has it.
Plain(i, pid, order, status) ==
    [type |-> "menu", status |-> status, name |-> i, pid |-> pid, path |-> i,
     authCode |-> None, component |-> 1, redirect |-> None,
     meta |-> [k \in MetaKeys |-> IF k = "order" THEN order ELSE None]]

Table(pids, orders, statuses) ==
    [i \in DOMAIN pids |-> Plain(i, pids[i], orders[i], statuses[i])]

\* No menu yet, or menus whose parents were written past the service: missing,
\* themselves, in a cycle.
MenusInit ==
    \/ rows = <<>>
    \/ \E S \in SUBSET Ids : \E pids \in [S -> Ids \cup {None}], orders \in [S -> 0..1],
                               statuses \in [S -> 0..1] :
           rows = Table(pids, orders, statuses)

MenusNext ==
    \/ \E i \in Ids, dto \in Creates : Create(i, dto)
    \/ \E i \in menus, dto \in Patches : Update(i, dto)
    \/ \E i \in menus : Delete(i)

MenusSpec == MenusInit /\ [][MenusNext]_rows

-----------------------------------------------------------------------------
\* What gets a route of its own when routes are built of granted rows (MenuViews).
HasRoute(i) == rows[i].type # "button" /\ rows[i].path # None

Intact == \A i \in menus : Climbs(rows[i].pid, {i})

\* What a row has, its name apart, and the keys its meta has.
Has(r) == {f \in Columns \ {"type", "status", "name"} : r[f] # None}
HasMeta(r) == {k \in MetaKeys \ {"order"} : r.meta[k] # None}

FitsType(r) ==
    CASE r.type = "catalog" -> "path" \in Has(r) /\ HasMeta(r) = {}
      [] r.type = "menu" -> {"path", "component"} \subseteq Has(r) /\ HasMeta(r) \subseteq {"activePath"}
      [] r.type = "embedded" -> /\ "path" \in Has(r) /\ "redirect" \notin Has(r)
                                /\ "iframeSrc" \in HasMeta(r) /\ "link" \notin HasMeta(r)
      [] r.type = "link" -> Has(r) \cap {"authCode", "redirect"} = {} /\ HasMeta(r) = {"link"}
      [] r.type = "button" -> Has(r) = {"pid", "authCode"} /\ HasMeta(r) = {}

\* Types, and what each type of menu has and has not, whatever types the row went
\* through before (buildMenuWriteState, normalizeMeta): an address only where one is
\* opened, no route for a button, no permission for a link.
RowsFitType ==
    /\ menus \subseteq Ids
    /\ \A i \in menus : rows[i].name \in Names /\ rows[i].status \in 0..1 /\ FitsType(rows[i])

\* The menu that should be highlighted is no longer there: its path changed or it was
\* removed, which nothing in those writes looks for.
Dangling(i) ==
    /\ rows[i].meta.activePath # None
    /\ \A j \in menus \ {i} : rows[j].path # rows[i].meta.activePath

\* A row that is stored can be stored again: an edit that submits nothing changes
\* nothing, and is refused only where the row's activePath leads nowhere by now
\* (updateMenu checks all of the row again). So an edit of one field is refused for
\* that field, or for activePath.
EditsStayPossible ==
    Intact => \A i \in menus :
        /\ Build(<<>>, rows[i]) = rows[i]
        /\ WellFormed(<<>>, rows[i]) /\ LeafAllowed(i, rows[i].type)
        /\ ~Dangling(i) => Valid(i, rows[i])

=============================================================================
