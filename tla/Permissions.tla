---------------------------- MODULE Permissions ----------------------------
(***************************************************************************)
(* The permission codes of a user, cached in Redis under                   *)
(* auth:user:permissions:<uid> without a TTL. A login, or a guarded        *)
(* request that misses the cache, reads them from the tables in several    *)
(* statements and stores them; menu, role and user writes determine inside *)
(* their transaction whose codes they change and delete those entries      *)
(* after the commit. Writes are SERIALIZABLE, the loads read committed.    *)
(***************************************************************************)
CONSTANTS
    Users,    \* sys_user rows
    Roles,    \* sys_role ids that may ever be drawn
    Super,    \* the protected role whose users hold every code
    Menus,    \* sys_menu ids that may ever be drawn, each with a code of its own
    Readers,  \* the logins and guarded requests made
    Writers   \* the menu, role and user writes made

ASSUME PermissionsAssumption == Super \in Roles

VARIABLES
    db,          \* the four tables, as committed
    cache,       \* the entry of each user: {} when absent, else {codes}
    req,         \* the loads in flight
    write,       \* the writes in flight, their cache effects included
    lost,        \* users whose entry outlived a write that died      (history)
    overlapped   \* users whose entry was stored by a load that a commit overtook,
                 \* or outlived a write that a commit overtook         (history)

vars == <<db, cache, req, write, lost, overlapped>>

Live == {"enabled", "disabled"}
Statuses == {"new"} \cup Live \cup {"deleted"}

\* A soft-deleted user has no roles, a live one at least one.
Tables == [menu: [Menus -> Statuses], role: [Roles -> Statuses],
           grants: [Roles -> SUBSET Menus], assigned: [Users -> SUBSET Roles]]

\* A write: the row, the status it is given, and the set of ids that replaces
\* its grants (role) or roles (user) if one was submitted: {} or {set}.
Submitted(S) == {{}} \cup {{X} : X \in SUBSET S}
Ops == [on: {"menu"}, id: Menus, status: Live \cup {"deleted"}, set: {{}}]
  \cup [on: {"role"}, id: Roles, status: Live \cup {"keep", "deleted"}, set: Submitted(Menus)]
  \cup [on: {"user"}, id: Users, status: {"keep"}, set: Submitted(Roles)]

\* `raced`: a commit has touched the user since the load began. `late`: one has
\* come since the snapshot; "doomed": one that PostgreSQL will not let this follow.
Load == [pc: {"read"}, uid: Users, ids: Submitted(Roles), super: SUBSET BOOLEAN, raced: BOOLEAN]
   \cup [pc: {"store"}, uid: Users, codes: SUBSET Menus, raced: BOOLEAN]
Write == [pc: {"tx"}, op: Ops, affected: SUBSET Users, late: BOOLEAN]
    \cup [pc: {"doomed"}]
    \cup [pc: {"clear"}, left: SUBSET Users]
Idle == [pc |-> "idle"]
Done == [pc |-> "done"]
-----------------------------------------------------------------------------
(* MenuService.getPermissionsByUserId and its queries.                     *)

AllCodes(d) == {m \in Menus : d.menu[m] = "enabled"}
CodesOf(d, ids) == {m \in AllCodes(d) : \E r \in ids : d.role[r] = "enabled" /\ m \in d.grants[r]}
IsSuper(d, u) == Super \in d.assigned[u] /\ d.role[Super] = "enabled"

\* The codes a load would return if it were one query.
Codes(d, u) == IF IsSuper(d, u) THEN AllCodes(d) ELSE CodesOf(d, d.assigned[u])

-----------------------------------------------------------------------------
(* What each write requires of the tables it sees.                         *)

CreateMenu(d, o) == o.on = "menu" /\ d.menu[o.id] = "new" /\ o.status \in Live
UpdateMenu(d, o) == o.on = "menu" /\ d.menu[o.id] \in Live /\ o.status \in Live
DeleteMenu(d, o) ==
    /\ o.on = "menu" /\ d.menu[o.id] \in Live /\ o.status = "deleted"
    /\ \A r \in Roles : o.id \notin d.grants[r]

\* validateMenuIds: none of the submitted menus is missing.
MenusExist(d, o) == \A m \in UNION o.set : d.menu[m] \in Live

CreateRole(d, o) ==
    /\ o.on = "role" /\ d.role[o.id] = "new" /\ o.status \in Live /\ o.set # {}
    /\ MenusExist(d, o)

\* An update that moves neither status nor permissions is of no interest here.
UpdateRole(d, o) ==
    /\ o.on = "role" /\ d.role[o.id] \in Live
    /\ \/ o.status \in Live \ {d.role[o.id]}
       \/ o.status = "keep" /\ o.set # {}
    /\ o.id = Super => o.status # "disabled"
    /\ MenusExist(d, o)

\* Mutant of RemoveRole: only the enabled roles of users are in the way.
RemoveUnusedRole(d, o) ==
    /\ o.on = "role" /\ d.role[o.id] \in Live /\ o.status = "deleted" /\ o.set = {}
    /\ o.id # Super
    /\ \A u \in Users : o.id \in d.assigned[u] => d.role[o.id] = "disabled"

RemoveRole(d, o) ==
    /\ o.on = "role" /\ d.role[o.id] \in Live /\ o.status = "deleted" /\ o.set = {}
    /\ o.id # Super
    /\ \A u \in Users : o.id \notin d.assigned[u]

\* assertAnotherEnabledSuper.
SuperRemains(d, o) ==
    IsSuper(d, o.id) /\ o.set # {} /\ Super \notin UNION o.set
        => \E v \in Users \ {o.id} : IsSuper(d, v)

UpdateUser(d, o) ==
    /\ o.on = "user" /\ d.assigned[o.id] # {}
    /\ o.set # {{}}
    /\ \A r \in UNION o.set : d.role[r] = "enabled"
    /\ SuperRemains(d, o)

RemoveUser(d, o) ==
    /\ o.on = "user" /\ d.assigned[o.id] # {}
    /\ o.set = {{}}
    /\ SuperRemains(d, o)

Permitted(d, o) ==
    \/ CreateMenu(d, o) \/ UpdateMenu(d, o) \/ DeleteMenu(d, o)
    \/ CreateRole(d, o) \/ UpdateRole(d, o) \/ RemoveRole(d, o)
    \/ UpdateUser(d, o) \/ RemoveUser(d, o)

-----------------------------------------------------------------------------
(* What it writes, and whose entries it will delete.                       *)

Put(f, id, value, changed) == IF changed THEN [f EXCEPT ![id] = value] ELSE f

\* replacePermissions, replaceRoles; removing a role or a user deletes its mappings.
After(d, o) ==
    [menu     |-> Put(d.menu, o.id, o.status, o.on = "menu"),
     role     |-> Put(d.role, o.id, o.status, o.on = "role" /\ o.status # "keep"),
     grants   |-> Put(d.grants, o.id, UNION o.set,
                      o.on = "role" /\ (o.set # {} \/ o.status = "deleted")),
     assigned |-> Put(d.assigned, o.id, UNION o.set, o.on = "user" /\ o.set # {})]

\* Mutant of Affected: a menu write looks at the granted roles only.
AffectedByGrant(d, o) ==
    CASE o.on = "menu" -> {u \in Users : \E r \in d.assigned[u] :
                              d.role[r] = "enabled" /\ o.id \in d.grants[r]}
      [] o.on = "role" -> {u \in Users : o.id \in d.assigned[u]}
      [] o.on = "user" -> {o.id}

\* getAffectedUserIds, inside the transaction and after its own writes.
Affected(d, o) ==
    CASE o.on = "menu" -> {u \in Users : \E r \in d.assigned[u] :
                              d.role[r] = "enabled" /\ (r = Super \/ o.id \in d.grants[r])}
      [] o.on = "role" -> {u \in Users : o.id \in d.assigned[u]}
      [] o.on = "user" -> {o.id}

\* Mutant of Clash: REPEATABLE READ and no FOR SHARE, only writes of one row clash.
SameRow(o, p) == o.on = p.on /\ o.id = p.id

\* Two writes of which PostgreSQL aborts the later to commit (40001): they lock one
\* row for update, or each has read a row the other has written - a menu that is
\* granted, a role that is assigned. A menu write reads grants, roles and their
\* users, a role write its users, but nobody reads those in return: of a menu write
\* and a user write, say, both may commit, and either may overtake the other.
Clash(o, p) ==
    \/ o.on = p.on /\ o.id = p.id
    \/ \E x, y \in {o, p} :
         \/ x.on = "menu" /\ y.on = "role" /\ x.id \in UNION y.set
         \/ x.on = "role" /\ y.on = "user" /\ x.status # "keep" /\ x.id \in UNION y.set

-----------------------------------------------------------------------------
\* Whatever writes overlap: a user holds existing roles, a role grants existing
\* menus, and an enabled super administrator remains. Each write checks its part
\* on a snapshot of its own.
Consistent(d) ==
    /\ \A u \in Users, r \in Roles : r \in d.assigned[u] => d.role[r] \in Live
    /\ \A r \in Roles, m \in Menus : m \in d.grants[r] =>
         d.menu[m] \in Live /\ d.role[r] \in Live
    /\ \E u \in Users : IsSuper(d, u)

\* An installation in use: any tables its writes leave, any current entries.
Init ==
    /\ db \in Tables /\ Consistent(db)
    /\ cache \in [Users -> Submitted(Menus)]
    /\ \A u \in Users : cache[u] \subseteq {Codes(db, u)}
    /\ req = [r \in Readers |-> Idle]
    /\ write = [w \in Writers |-> Idle]
    /\ lost = {} /\ overlapped = {}

At(r, step) == req[r].pc = step
EndLoad(r) == req' = [req EXCEPT ![r] = Done]
InLoad(r) == req[r].pc \in {"read", "store"}

\* AuthService.login loads in any case, getEffectivePermissionsByUserId when the
\* entry is absent; a hit only reads.
Start(r, u) ==
    /\ At(r, "idle")
    /\ db.assigned[u] # {} \/ cache[u] = {}
    /\ req' = [req EXCEPT ![r] = [pc |-> "read", uid |-> u, ids |-> {}, super |-> {},
                                  raced |-> FALSE]]
    /\ UNCHANGED <<db, cache, write, lost, overlapped>>

\* The two queries of Promise.all, in either order.
ReadRoleIds(r) ==
    /\ At(r, "read") /\ req[r].ids = {}
    /\ req' = [req EXCEPT ![r].ids = {db.assigned[req[r].uid]}]
    /\ UNCHANGED <<db, cache, write, lost, overlapped>>

ReadRoleCodes(r) ==
    /\ At(r, "read") /\ req[r].super = {}
    /\ req' = [req EXCEPT ![r].super = {IsSuper(db, req[r].uid)}]
    /\ UNCHANGED <<db, cache, write, lost, overlapped>>

\* getAllPermissions or getMenusByRoleIds.
ReadCodes(r) ==
    /\ At(r, "read") /\ req[r].ids # {} /\ req[r].super # {}
    /\ req' = [req EXCEPT ![r] =
                 [pc |-> "store", uid |-> req[r].uid, raced |-> req[r].raced,
                  codes |-> IF TRUE \in req[r].super THEN AllCodes(db)
                            ELSE CodesOf(db, UNION req[r].ids)]]
    /\ UNCHANGED <<db, cache, write, lost, overlapped>>

\* setPermissionsCache: no TTL, and no look at what has happened since.
Store(r) ==
    LET u == req[r].uid IN
    /\ At(r, "store")
    /\ cache' = [cache EXCEPT ![u] = {req[r].codes}]
    /\ lost' = lost \ {u}
    /\ overlapped' = IF req[r].raced THEN overlapped \cup {u} ELSE overlapped \ {u}
    /\ EndLoad(r)
    /\ UNCHANGED <<db, write>>

\* An error of PostgreSQL or Redis, or the end of the process, at any await.
LoadFails(r) ==
    /\ InLoad(r)
    /\ EndLoad(r)
    /\ UNCHANGED <<db, cache, write, lost, overlapped>>

-----------------------------------------------------------------------------
\* The first statement of the transaction fixes its snapshot: everything it reads
\* and decides from here on.
Begin(w, o) ==
    /\ write[w] = Idle
    /\ Permitted(db, o)
    /\ write' = [write EXCEPT ![w] = [pc |-> "tx", op |-> o, late |-> FALSE,
                                      affected |-> Affected(After(db, o), o)]]
    /\ UNCHANGED <<db, cache, req, lost, overlapped>>

\* Users whose codes a commit changes or whose roles it replaces.
Touched(o) == {u \in Users : \/ Codes(After(db, o), u) # Codes(db, u)
                             \/ o.on = "user" /\ o.id = u}

Settle(left) == IF left = {} THEN Done ELSE [pc |-> "clear", left |-> left]

Commit(w) ==
    LET x == write[w]
        o == x.op
        Behind(y) == IF y.pc # "tx" THEN y
                     ELSE IF Clash(y.op, o) THEN [pc |-> "doomed"]
                     ELSE [y EXCEPT !.late = TRUE]
    IN
    /\ x.pc = "tx"
    /\ o.on = "user" => SuperRemains(db, o)
    /\ db' = After(db, o)
    /\ write' = [v \in Writers |-> IF v = w THEN Settle(x.affected) ELSE Behind(write[v])]
    /\ req' = [r \in Readers |->
                 IF InLoad(r) /\ req[r].uid \in Touched(o)
                   THEN [req[r] EXCEPT !.raced = TRUE] ELSE req[r]]
    /\ overlapped' = IF x.late THEN overlapped \cup (Touched(o) \ x.affected) ELSE overlapped
    /\ UNCHANGED <<cache, lost>>

\* invalidatePermissionsCaches, applyCacheEffects: one DEL per user, in any order.
Clear(w, u) ==
    /\ write[w].pc = "clear" /\ u \in write[w].left
    /\ cache' = [cache EXCEPT ![u] = {}]
    /\ lost' = lost \ {u} /\ overlapped' = overlapped \ {u}
    /\ write' = [write EXCEPT ![w] = Settle(write[w].left \ {u})]
    /\ UNCHANGED <<db, req>>

\* A transaction rolls back, after a conflict, a refusal or a crash; after the
\* commit, a failing DEL or the end of the process loses the rest of the effects.
WriteFails(w) ==
    /\ write[w].pc \in {"tx", "doomed", "clear"}
    /\ write' = [write EXCEPT ![w] = Done]
    /\ lost' = IF write[w].pc = "clear" THEN lost \cup write[w].left ELSE lost
    /\ UNCHANGED <<db, cache, req, overlapped>>

LoadStep(r) ==
    \/ \E u \in Users : Start(r, u)
    \/ ReadRoleIds(r) \/ ReadRoleCodes(r) \/ ReadCodes(r) \/ Store(r)
    \/ LoadFails(r)

WriteStep(w) ==
    \/ write[w] = Idle /\ \E o \in Ops : Begin(w, o)
    \/ Commit(w)
    \/ \E u \in Users : Clear(w, u)
    \/ WriteFails(w)

Next == (\E r \in Readers : LoadStep(r)) \/ (\E w \in Writers : WriteStep(w))

Spec == Init /\ [][Next]_vars

-----------------------------------------------------------------------------
(* Properties.                                                             *)

\* Every variable stays in its type.
TypeOK ==
    /\ db \in Tables
    /\ cache \in [Users -> Submitted(Menus)]
    /\ req \in [Readers -> {Idle, Done} \cup Load]
    /\ write \in [Writers -> {Idle, Done} \cup Write]
    /\ lost \subseteq Users /\ overlapped \subseteq Users

\* Whatever writes overlap, the tables stay consistent.
ReferencesLive == Consistent(db)

Pending(u) == \E w \in Writers : write[w].pc = "clear" /\ u \in write[w].left

\* What a write has checked on its snapshot it may still do in the tables it changes,
\* whatever has been committed in between (runSerializableWrite of menus, roles and
\* users): the tables go from write to write as if each had been made at once.
CommitsPermitted ==
    [][\A w \in Writers : Commit(w) => Permitted(db, write[w].op)]_vars

\* An entry differs from the codes in force only until the write that changed them
\* has deleted it, or because that write died before, or because a commit overtook
\* the load that stored it or the write that should have deleted it: the users
\* found inside the transactions are otherwise all of those concerned.
StaleNeedsOverlap ==
    \A u \in Users \ (lost \cup overlapped) :
        cache[u] # {} /\ ~Pending(u) => cache[u] = {Codes(db, u)}

=============================================================================
