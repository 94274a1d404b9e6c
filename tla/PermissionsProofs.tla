------------------------- MODULE PermissionsProofs -------------------------
(***************************************************************************)
(* Proofs about Permissions, for any number of users, roles, menus, loads  *)
(* and writes. The invariant says what an open transaction may still rely  *)
(* on although its snapshot is old, what a load that no commit has touched *)
(* has read, and that a transaction no commit has overtaken knows everyone *)
(* it concerns.                                                            *)
(***************************************************************************)
EXTENDS Permissions, TLAPS

\* What a write decided on its snapshot and may still rely on.
Fits(d, o) ==
    /\ o.on = "menu" /\ o.status = "deleted" => \A r \in Roles : o.id \notin d.grants[r]
    /\ o.on = "role" =>
         /\ \A m \in UNION o.set : d.menu[m] \in Live
         /\ o.status = "keep" => d.role[o.id] \in Live
         /\ o.status = "deleted" => o.set = {} /\ \A u \in Users : o.id \notin d.assigned[u]
         /\ o.id = Super => o.status \in {"keep", "enabled"}
    /\ o.on = "user" => \A r \in UNION o.set : d.role[r] = "enabled"

\* And what it found of its own row.
Stands(d, o) ==
    /\ o.on = "menu" =>
         d.menu[o.id] \in Live \/ (d.menu[o.id] = "new" /\ o.status \in Live)
    /\ o.on = "role" =>
         \/ d.role[o.id] = "new" /\ o.status \in Live /\ o.set # {}
         \/ /\ d.role[o.id] \in Live
            /\ \/ o.status \in {"deleted"} \cup (Live \ {d.role[o.id]})
               \/ o.status = "keep" /\ o.set # {}
    /\ o.on = "user" => d.assigned[o.id] # {}

TxFits(d, x) ==
    x.pc = "tx" => /\ Fits(d, x.op) /\ Stands(d, x.op)
                   /\ ~x.late => x.affected = Affected(After(d, x.op), x.op)

\* What a load has read, unless a commit has touched its user since it began.
LoadFits(d, x) ==
    /\ x.pc = "read" /\ ~x.raced =>
         /\ x.ids \subseteq {d.assigned[x.uid]}
         /\ x.super \subseteq {IsSuper(d, x.uid)}
    /\ x.pc = "store" /\ ~x.raced => x.codes = Codes(d, x.uid)

Inv ==
    /\ TypeOK
    /\ Consistent(db)
    /\ \A w \in Writers : TxFits(db, write[w])
    /\ \A r \in Readers : LoadFits(db, req[r])
    /\ StaleNeedsOverlap

-----------------------------------------------------------------------------
(* The tables.                                                             *)

\* A write leaves tables.
LEMMA AfterType == ASSUME NEW d \in Tables, NEW o \in Ops PROVE After(d, o) \in Tables
<1>1. CASE o.on = "menu"
  BY <1>1 DEF After, Put, Tables, Ops, Statuses, Live
<1>2. CASE o.on = "role"
  <2>1. UNION o.set \subseteq Menus
    BY <1>2 DEF Ops, Submitted
  <2> QED
    BY <1>2, <2>1 DEF After, Put, Tables, Ops, Statuses, Live
<1>3. CASE o.on = "user"
  <2>1. UNION o.set \subseteq Roles
    BY <1>3 DEF Ops, Submitted
  <2> QED
    BY <1>3, <2>1 DEF After, Put, Tables, Ops
<1> QED
  BY <1>1, <1>2, <1>3 DEF Ops

\* What a write concerns: its own table, the others stay.
OnMenu(d, o, e) ==
    /\ e.menu = [d.menu EXCEPT ![o.id] = o.status]
    /\ e.role = d.role /\ e.grants = d.grants /\ e.assigned = d.assigned
    /\ o.id \in Menus /\ o.set = {} /\ o.status \in Live \cup {"deleted"}

OnRole(d, o, e) ==
    /\ e.menu = d.menu /\ e.assigned = d.assigned
    /\ e.role = IF o.status = "keep" THEN d.role ELSE [d.role EXCEPT ![o.id] = o.status]
    /\ e.grants = IF o.set = {} /\ o.status # "deleted" THEN d.grants
                  ELSE [d.grants EXCEPT ![o.id] = UNION o.set]
    /\ o.id \in Roles /\ o.status \in Live \cup {"keep", "deleted"}
    /\ UNION o.set \subseteq Menus

OnUser(d, o, e) ==
    /\ e.menu = d.menu /\ e.role = d.role /\ e.grants = d.grants
    /\ e.assigned = IF o.set = {} THEN d.assigned ELSE [d.assigned EXCEPT ![o.id] = UNION o.set]
    /\ o.id \in Users /\ UNION o.set \subseteq Roles

LEMMA AfterTables ==
    ASSUME NEW d \in Tables, NEW o \in Ops
    PROVE  /\ o.on = "menu" => OnMenu(d, o, After(d, o))
           /\ o.on = "role" => OnRole(d, o, After(d, o))
           /\ o.on = "user" => OnUser(d, o, After(d, o))
<1>1. ASSUME o.on = "menu" PROVE OnMenu(d, o, After(d, o))
  BY <1>1 DEF After, Put, Ops, OnMenu
<1>2. ASSUME o.on = "role" PROVE OnRole(d, o, After(d, o))
  <2>1. o.id \in Roles /\ o.set \in Submitted(Menus) /\ o.status \in Live \cup {"keep", "deleted"}
    BY <1>2 DEF Ops
  <2>2. UNION o.set \subseteq Menus
    BY <2>1 DEF Submitted
  <2> QED
    BY <1>2, <2>1, <2>2 DEF After, Put, OnRole
<1>3. ASSUME o.on = "user" PROVE OnUser(d, o, After(d, o))
  <2>1. o.id \in Users /\ o.set \in Submitted(Roles)
    BY <1>3 DEF Ops
  <2>2. UNION o.set \subseteq Roles
    BY <2>1 DEF Submitted
  <2> QED
    BY <1>3, <2>1, <2>2 DEF After, Put, OnUser
<1> QED
  BY <1>1, <1>2, <1>3

\* Only a write on a user moves that user's roles.
LEMMA RolesStay ==
    ASSUME NEW d \in Tables, NEW o \in Ops, NEW u \in Users, ~(o.on = "user" /\ o.id = u)
    PROVE  After(d, o).assigned[u] = d.assigned[u]
BY DEF After, Put, Tables

\* The ids a write submits.
LEMMA OpIds ==
    ASSUME NEW o \in Ops
    PROVE  /\ o.on = "menu" => o.id \in Menus /\ o.set = {}
           /\ o.on = "role" => o.id \in Roles /\ UNION o.set \subseteq Menus
           /\ o.on = "user" => o.id \in Users /\ UNION o.set \subseteq Roles
<1>1. ASSUME NEW S, o.set \in Submitted(S) PROVE UNION o.set \subseteq S
  BY <1>1 DEF Submitted
<1> QED
  BY <1>1 DEF Ops

\* Consistent tables have an enabled role Super.
LEMMA SuperEnabled ==
    ASSUME NEW d, Consistent(d)
    PROVE  d.role[Super] = "enabled" /\ \A u : IsSuper(d, u) <=> Super \in d.assigned[u]
  BY DEF Consistent, IsSuper

\* What a write checks on its snapshot is what it relies on.
LEMMA BeginFits ==
    ASSUME NEW d \in Tables, NEW o \in Ops, Consistent(d), Permitted(d, o)
    PROVE  Fits(d, o)
<1>1. d.role[Super] = "enabled"
  BY SuperEnabled
<1>2. CASE o.on = "menu"
  BY <1>2 DEF Fits, Permitted, CreateMenu, UpdateMenu, DeleteMenu, CreateRole, UpdateRole,
              RemoveRole, UpdateUser, RemoveUser, Live
<1>3. CASE o.on = "role"
  <2>1. CreateRole(d, o) \/ UpdateRole(d, o) \/ RemoveRole(d, o)
    BY <1>3 DEF Permitted, CreateMenu, UpdateMenu, DeleteMenu, UpdateUser, RemoveUser
  <2>2. CASE CreateRole(d, o)
    BY <1>1, <1>3, <2>2 DEF CreateRole, MenusExist, Fits, Live
  <2>3. CASE UpdateRole(d, o)
    BY <1>1, <1>3, <2>3 DEF UpdateRole, MenusExist, Fits, Live
  <2>4. CASE RemoveRole(d, o)
    BY <1>3, <2>4 DEF RemoveRole, Fits, Live
  <2> QED
    BY <2>1, <2>2, <2>3, <2>4
<1>4. CASE o.on = "user"
  <2>1. UpdateUser(d, o) \/ RemoveUser(d, o)
    BY <1>4 DEF Permitted, CreateMenu, UpdateMenu, DeleteMenu, CreateRole, UpdateRole, RemoveRole
  <2> QED
    BY <1>4, <2>1 DEF UpdateUser, RemoveUser, Fits
<1> QED
  BY <1>2, <1>3, <1>4 DEF Ops

\* And it keeps that, whatever commits without clashing with it.
LEMMA FitsStays ==
    ASSUME NEW d \in Tables, NEW o \in Ops, NEW p \in Ops,
           Fits(d, o), Fits(d, p), ~Clash(o, p)
    PROVE  Fits(After(d, p), o)
<1> DEFINE e == After(d, p)
<1>0. /\ p.on = "menu" => OnMenu(d, p, e)
      /\ p.on = "role" => OnRole(d, p, e)
      /\ p.on = "user" => OnUser(d, p, e)
  BY AfterTables
<1> HIDE DEF e
<1> SUFFICES Fits(e, o)
  BY DEF e
<1>1. CASE p.on = "menu"
  <2>1. o.on = "role" => p.id \notin UNION o.set
    BY <1>1 DEF Clash
  <2>2. CASE o.on = "role"
    <3>1. \A m \in UNION o.set : e.menu[m] = d.menu[m]
      BY <1>0, <1>1, <2>1, <2>2, OpIds DEF OnMenu, Tables
    <3> QED
      BY <1>0, <1>1, <2>2, <3>1 DEF OnMenu, Fits
  <2> QED
    BY <1>0, <1>1, <2>2 DEF OnMenu, Fits, Ops
<1>2. CASE p.on = "role"
  <2>1. o.on = "menu" => o.id \notin UNION p.set
    BY <1>2 DEF Clash
  <2>2. o.on = "user" /\ p.status # "keep" => p.id \notin UNION o.set
    BY <1>2 DEF Clash
  <2>3. o.on = "role" => o.id # p.id
    BY <1>2 DEF Clash
  <2>4. CASE o.on = "menu"
    BY <1>0, <1>2, <2>1, <2>4 DEF OnRole, Fits, Tables
  <2>5. CASE o.on = "role"
    <3>1. e.role[o.id] = d.role[o.id]
      BY <1>0, <1>2, <2>3, <2>5, OpIds DEF OnRole, Tables
    <3> QED
      BY <1>0, <1>2, <2>5, <3>1 DEF OnRole, Fits
  <2>6. CASE o.on = "user"
    <3>1. \A r \in UNION o.set : e.role[r] = d.role[r]
      BY <1>0, <1>2, <2>2, <2>6, OpIds DEF OnRole, Tables
    <3> QED
      BY <2>6, <3>1 DEF Fits
  <2> QED
    BY <2>4, <2>5, <2>6 DEF Ops
<1>3. CASE p.on = "user"
  <2>1. o.on = "role" /\ o.status # "keep" => o.id \notin UNION p.set
    BY <1>3 DEF Clash
  <2> QED
    BY <1>0, <1>3, <2>1 DEF OnUser, Fits, Tables
<1> QED
  BY <1>1, <1>2, <1>3 DEF Ops

\* The same of its own row: whoever writes that row clashes with it.
LEMMA BeginStands ==
    ASSUME NEW d, NEW o \in Ops, Permitted(d, o)
    PROVE  Stands(d, o)
<1>1. CASE o.on = "menu"
  <2>1. CreateMenu(d, o) \/ UpdateMenu(d, o) \/ DeleteMenu(d, o)
    BY <1>1 DEF Permitted, CreateRole, UpdateRole, RemoveRole, UpdateUser, RemoveUser
  <2> QED
    BY <1>1, <2>1 DEF Stands, CreateMenu, UpdateMenu, DeleteMenu
<1>2. CASE o.on = "role"
  <2>1. CreateRole(d, o) \/ UpdateRole(d, o) \/ RemoveRole(d, o)
    BY <1>2 DEF Permitted, CreateMenu, UpdateMenu, DeleteMenu, UpdateUser, RemoveUser
  <2> QED
    BY <1>2, <2>1 DEF Stands, CreateRole, UpdateRole, RemoveRole
<1>3. CASE o.on = "user"
  <2>1. UpdateUser(d, o) \/ RemoveUser(d, o)
    BY <1>3 DEF Permitted, CreateMenu, UpdateMenu, DeleteMenu, CreateRole, UpdateRole, RemoveRole
  <2> QED
    BY <1>3, <2>1 DEF Stands, UpdateUser, RemoveUser
<1> QED
  BY <1>1, <1>2, <1>3 DEF Ops

LEMMA StandsStays ==
    ASSUME NEW d \in Tables, NEW o \in Ops, NEW p \in Ops, Stands(d, o), ~Clash(o, p)
    PROVE  Stands(After(d, p), o)
<1> DEFINE e == After(d, p)
<1>1. o.on = p.on => o.id # p.id
  BY DEF Clash
<1>2. /\ p.on = "menu" => OnMenu(d, p, e)
      /\ p.on = "role" => OnRole(d, p, e)
      /\ p.on = "user" => OnUser(d, p, e)
  BY AfterTables
<1> HIDE DEF e
<1>3. o.on = "menu" => e.menu[o.id] = d.menu[o.id]
  BY <1>1, <1>2, OpIds DEF OnMenu, OnRole, OnUser, Tables, Ops
<1>4. o.on = "role" => e.role[o.id] = d.role[o.id]
  BY <1>1, <1>2, OpIds DEF OnMenu, OnRole, OnUser, Tables, Ops
<1>5. o.on = "user" => e.assigned[o.id] = d.assigned[o.id]
  BY <1>1, <1>2, OpIds DEF OnMenu, OnRole, OnUser, Tables, Ops
<1>6. Stands(e, o)
  BY <1>3, <1>4, <1>5 DEF Stands
<1> QED
  BY <1>6 DEF e

\* What a write relies on is all it has asked for.
LEMMA StillPermitted ==
    ASSUME NEW d \in Tables, NEW o \in Ops, Fits(d, o), Stands(d, o),
           o.on = "user" => SuperRemains(d, o)
    PROVE  Permitted(d, o)
<1>1. CASE o.on = "menu"
  <2>1. CreateMenu(d, o) \/ UpdateMenu(d, o) \/ DeleteMenu(d, o)
    BY <1>1 DEF Fits, Stands, CreateMenu, UpdateMenu, DeleteMenu, Ops, Live
  <2> QED
    BY <2>1 DEF Permitted
<1>2. CASE o.on = "role"
  <2>1. CASE d.role[o.id] = "new" /\ o.status \in Live /\ o.set # {}
    BY <1>2, <2>1 DEF Fits, CreateRole, MenusExist, Permitted
  <2>2. CASE d.role[o.id] \in Live /\ o.status = "deleted"
    BY <1>2, <2>2 DEF Fits, RemoveRole, Permitted
  <2>3. CASE d.role[o.id] \in Live /\ o.status # "deleted"
    <3>1. o.status \in Live \ {d.role[o.id]} \/ (o.status = "keep" /\ o.set # {})
      BY <1>2, <2>3 DEF Stands, Live
    <3>2. (o.id = Super => o.status # "disabled") /\ MenusExist(d, o)
      BY <1>2 DEF Fits, MenusExist
    <3> QED
      BY <1>2, <2>3, <3>1, <3>2 DEF UpdateRole, Permitted
  <2> QED
    BY <1>2, <2>1, <2>2, <2>3 DEF Stands
<1>3. CASE o.on = "user"
  BY <1>3 DEF Fits, Stands, UpdateUser, RemoveUser, Permitted
<1> QED
  BY <1>1, <1>2, <1>3 DEF Ops

\* A write that relies on what holds keeps the tables consistent.
LEMMA AfterConsistent ==
    ASSUME NEW d \in Tables, NEW o \in Ops, Consistent(d), Fits(d, o),
           o.on = "user" => SuperRemains(d, o)
    PROVE  Consistent(After(d, o))
<1> DEFINE e == After(d, o)
<1>0. /\ o.on = "menu" => OnMenu(d, o, e)
      /\ o.on = "role" => OnRole(d, o, e)
      /\ o.on = "user" => OnUser(d, o, e)
  BY AfterTables
<1> HIDE DEF e
<1> SUFFICES Consistent(e)
  BY DEF e
<1>1. d.role[Super] = "enabled" /\ \A u : IsSuper(d, u) <=> Super \in d.assigned[u]
  BY SuperEnabled
<1>2. CASE o.on = "menu"
  BY <1>0, <1>2 DEF OnMenu, Consistent, IsSuper, Fits, Tables
<1>3. CASE o.on = "role"
  <2>1. \A u \in Users, r \in Roles :
          r \in e.assigned[u] => e.role[r] \in Live
    BY <1>0, <1>3 DEF OnRole, Consistent, Fits, Tables
  <2>2. \A r \in Roles, m \in Menus : m \in e.grants[r] =>
          e.menu[m] \in Live /\ e.role[r] \in Live
    BY <1>0, <1>3 DEF OnRole, Consistent, Fits, Tables
  <2>3. \E u \in Users : IsSuper(e, u)
    BY <1>0, <1>1, <1>3 DEF OnRole, Consistent, IsSuper, Fits, Tables
  <2> QED
    BY <2>1, <2>2, <2>3 DEF Consistent
<1>4. CASE o.on = "user"
  <2>1. \A u \in Users, r \in Roles :
          r \in e.assigned[u] => e.role[r] \in Live
    BY <1>0, <1>4 DEF OnUser, Consistent, Fits, Tables, Live
  <2>2. \E u \in Users : IsSuper(e, u)
    BY <1>0, <1>1, <1>4 DEF OnUser, Consistent, IsSuper, SuperRemains, Tables
  <2> QED
    BY <1>0, <1>4, <2>1, <2>2 DEF OnUser, Consistent
<1> QED
  BY <1>2, <1>3, <1>4 DEF Ops

\* The users a write finds are all those whose codes it changes.
LEMMA Covers ==
    ASSUME NEW d \in Tables, NEW o \in Ops, Consistent(d), NEW u \in Users,
           Codes(After(d, o), u) # Codes(d, u) \/ (o.on = "user" /\ o.id = u)
    PROVE  u \in Affected(After(d, o), o)
<1> DEFINE e == After(d, o)
<1>a. /\ o.on = "menu" => OnMenu(d, o, e)
      /\ o.on = "role" => OnRole(d, o, e)
      /\ o.on = "user" => OnUser(d, o, e)
  BY AfterTables
<1>b. Codes(e, u) # Codes(d, u) \/ (o.on = "user" /\ o.id = u)
  OBVIOUS
<1> HIDE DEF e
<1> SUFFICES u \in Affected(e, o)
  BY DEF e
<1>0. d.role[Super] = "enabled" /\ (IsSuper(d, u) <=> Super \in d.assigned[u])
  BY SuperEnabled
<1>1. CASE o.on = "menu"
  <2>1. SUFFICES ASSUME \A r \in d.assigned[u] :
                          d.role[r] = "enabled" => r # Super /\ o.id \notin d.grants[r]
                 PROVE  FALSE
    BY <1>a, <1>1 DEF OnMenu, Affected
  <2>2. ~IsSuper(d, u) /\ ~IsSuper(e, u)
    BY <1>a, <1>0, <1>1, <2>1 DEF OnMenu, IsSuper
  <2>3. CodesOf(e, d.assigned[u]) = CodesOf(d, d.assigned[u])
    BY <1>a, <1>1, <2>1 DEF OnMenu, CodesOf, AllCodes, Tables
  <2> QED
    BY <1>a, <1>b, <1>1, <2>2, <2>3 DEF OnMenu, Codes
<1>2. CASE o.on = "role"
  <2>1. SUFFICES ASSUME o.id \notin d.assigned[u] PROVE FALSE
    BY <1>a, <1>2 DEF OnRole, Affected
  <2>2. IsSuper(e, u) <=> IsSuper(d, u)
    BY <1>a, <1>0, <1>2, <2>1 DEF OnRole, IsSuper, Tables
  <2>3. AllCodes(e) = AllCodes(d)
    BY <1>a, <1>2 DEF OnRole, AllCodes
  <2>4. CodesOf(e, d.assigned[u]) = CodesOf(d, d.assigned[u])
    BY <1>a, <1>2, <2>1, <2>3 DEF OnRole, CodesOf, Tables
  <2> QED
    BY <1>a, <1>b, <1>2, <2>2, <2>3, <2>4 DEF OnRole, Codes
<1>3. CASE o.on = "user"
  <2>1. SUFFICES ASSUME o.id # u PROVE FALSE
    BY <1>3 DEF Affected
  <2>2. e.assigned[u] = d.assigned[u]
    BY <1>a, <1>3, <2>1 DEF OnUser, Tables
  <2>3. Codes(e, u) = Codes(d, u)
    BY <1>a, <1>3, <2>2 DEF OnUser, Codes, IsSuper, CodesOf, AllCodes
  <2> QED
    BY <1>b, <2>1, <2>3
<1> QED
  BY <1>1, <1>2, <1>3 DEF Ops

-----------------------------------------------------------------------------
(* Types.                                                                  *)

\* The forms of a load and of a write, by their step.
LEMMA LoadForm ==
    ASSUME TypeOK, NEW r \in Readers
    PROVE  /\ req[r].pc = "read" =>
                req[r] \in [pc: {"read"}, uid: Users, ids: Submitted(Roles),
                            super: SUBSET BOOLEAN, raced: BOOLEAN]
           /\ req[r].pc = "store" =>
                req[r] \in [pc: {"store"}, uid: Users, codes: SUBSET Menus, raced: BOOLEAN]
BY DEF TypeOK, Load, Idle, Done

LEMMA WriteForm ==
    ASSUME TypeOK, NEW w \in Writers
    PROVE  /\ write[w].pc = "tx" =>
                write[w] \in [pc: {"tx"}, op: Ops, affected: SUBSET Users, late: BOOLEAN]
           /\ write[w].pc = "clear" => write[w] \in [pc: {"clear"}, left: SUBSET Users]
BY DEF TypeOK, Write, Idle, Done

LEMMA CodesType ==
    ASSUME NEW d, NEW u PROVE Codes(d, u) \in SUBSET Menus
BY DEF Codes, AllCodes, CodesOf

LEMMA AffectedType ==
    ASSUME NEW d, NEW o \in Ops PROVE Affected(d, o) \in SUBSET Users
BY DEF Affected, Ops

LEMMA SettleType ==
    ASSUME NEW left \in SUBSET Users PROVE Settle(left) \in {Done} \cup Write
BY DEF Settle, Write

\* A step of a load, or its end, keeps the types.
LEMMA LoadTyped ==
    ASSUME TypeOK, NEW r \in Readers, NEW x \in {Done} \cup Load, req' = [req EXCEPT ![r] = x],
           UNCHANGED <<db, cache, write, lost, overlapped>>
    PROVE  TypeOK'
BY DEF TypeOK

LEMMA InitTyped == Init => TypeOK
BY DEF Init, TypeOK

LEMMA CommitTyped ==
    ASSUME TypeOK, NEW w \in Writers, Commit(w)
    PROVE  TypeOK'
<1> DEFINE o == write[w].op
<1>1. write[w] \in [pc: {"tx"}, op: Ops, affected: SUBSET Users, late: BOOLEAN]
  BY WriteForm DEF Commit
<1>2. db' \in Tables
  BY <1>1, AfterType DEF Commit, TypeOK
<1>3. write' \in [Writers -> {Idle, Done} \cup Write]
  <2>1. ASSUME NEW v \in Writers PROVE write'[v] \in {Idle, Done} \cup Write
    <3>1. CASE v = w
      BY <1>1, <3>1, SettleType DEF Commit
    <3>2. CASE v # w /\ write[v].pc # "tx"
      BY <3>2 DEF Commit, TypeOK
    <3>3. CASE v # w /\ write[v].pc = "tx"
      <4>1. write'[v] = IF Clash(write[v].op, o) THEN [pc |-> "doomed"]
                        ELSE [write[v] EXCEPT !.late = TRUE]
        BY <3>3 DEF Commit
      <4>2. [write[v] EXCEPT !.late = TRUE] \in Write
        BY <3>3, WriteForm DEF Write
      <4> QED
        BY <4>1, <4>2 DEF Write
    <3> QED
      BY <3>1, <3>2, <3>3
  <2> QED
    BY <2>1 DEF Commit
<1>4. req' \in [Readers -> {Idle, Done} \cup Load]
  <2>1. ASSUME NEW r \in Readers, InLoad(r) PROVE [req[r] EXCEPT !.raced = TRUE] \in Load
    BY <2>1, LoadForm DEF InLoad, Load
  <2> QED
    BY <2>1 DEF Commit, TypeOK
<1>5. overlapped' \subseteq Users
  BY DEF Commit, TypeOK, Touched
<1> QED
  BY <1>2, <1>3, <1>4, <1>5 DEF Commit, TypeOK

LEMMA StepTyped ==
    ASSUME TypeOK, [Next]_vars
    PROVE  TypeOK'
<1>1. CASE UNCHANGED vars
  BY <1>1 DEF vars, TypeOK
<1>2. ASSUME NEW r \in Readers, NEW u \in Users, Start(r, u)
      PROVE  TypeOK'
  <2>1. [pc |-> "read", uid |-> u, ids |-> {}, super |-> {}, raced |-> FALSE] \in Load
    BY DEF Load, Submitted
  <2> QED
    BY <1>2, <2>1, LoadTyped DEF Start
<1>3. ASSUME NEW r \in Readers, ReadRoleIds(r)
      PROVE  TypeOK'
  <2>1. db.assigned[req[r].uid] \in SUBSET Roles
    BY <1>3, LoadForm DEF ReadRoleIds, At, TypeOK, Tables
  <2>2. [req[r] EXCEPT !.ids = {db.assigned[req[r].uid]}] \in Load
    BY <1>3, <2>1, LoadForm DEF ReadRoleIds, At, Load, Submitted
  <2> QED
    BY <1>3, <2>2, LoadTyped DEF ReadRoleIds
<1>4. ASSUME NEW r \in Readers, ReadRoleCodes(r)
      PROVE  TypeOK'
  <2>1. [req[r] EXCEPT !.super = {IsSuper(db, req[r].uid)}] \in Load
    <3>1. {IsSuper(db, req[r].uid)} \in SUBSET BOOLEAN
      BY DEF IsSuper
    <3> QED
      BY <1>4, <3>1, LoadForm DEF ReadRoleCodes, At, Load
  <2> QED
    BY <1>4, <2>1, LoadTyped DEF ReadRoleCodes
<1>5. ASSUME NEW r \in Readers, ReadCodes(r)
      PROVE  TypeOK'
  <2> DEFINE c == IF TRUE \in req[r].super THEN AllCodes(db) ELSE CodesOf(db, UNION req[r].ids)
             x == [pc |-> "store", uid |-> req[r].uid, raced |-> req[r].raced, codes |-> c]
  <2>1. c \in SUBSET Menus
    BY DEF AllCodes, CodesOf
  <2>2. x \in Load
    <3>1. req[r].uid \in Users /\ req[r].raced \in BOOLEAN
      BY <1>5, LoadForm DEF ReadCodes, At
    <3> HIDE DEF c
    <3> QED
      BY <2>1, <3>1 DEF Load
  <2>3. req' = [req EXCEPT ![r] = x]
    BY <1>5 DEF ReadCodes
  <2> HIDE DEF x
  <2> QED
    BY <1>5, <2>2, <2>3, LoadTyped DEF ReadCodes
<1>6. ASSUME NEW r \in Readers, Store(r)
      PROVE  TypeOK'
  <2>1. req[r].uid \in Users /\ req[r].codes \in SUBSET Menus
    BY <1>6, LoadForm DEF Store, At
  <2>2. {req[r].codes} \in Submitted(Menus)
    BY <2>1 DEF Submitted
  <2>3. cache' \in [Users -> Submitted(Menus)]
    BY <1>6, <2>2 DEF Store, TypeOK
  <2>4. overlapped' \subseteq Users
    BY <1>6, <2>1 DEF Store, TypeOK
  <2> QED
    BY <1>6, <2>3, <2>4 DEF Store, EndLoad, TypeOK
<1>7. ASSUME NEW r \in Readers, LoadFails(r)
      PROVE  TypeOK'
  BY <1>7, LoadTyped DEF LoadFails, EndLoad
<1>8. ASSUME NEW w \in Writers, NEW o \in Ops, Begin(w, o)
      PROVE  TypeOK'
  <2>1. [pc |-> "tx", op |-> o, late |-> FALSE, affected |-> Affected(After(db, o), o)] \in Write
    BY AffectedType DEF Write
  <2> QED
    BY <1>8, <2>1 DEF Begin, TypeOK
<1>9. ASSUME NEW w \in Writers, NEW u \in Users, Clear(w, u)
      PROVE  TypeOK'
  <2>1. Settle(write[w].left \ {u}) \in {Done} \cup Write
    BY <1>9, WriteForm, SettleType DEF Clear
  <2> QED
    BY <1>9, <2>1 DEF Clear, TypeOK, Submitted
<1>10. ASSUME NEW w \in Writers, WriteFails(w)
       PROVE  TypeOK'
  BY <1>10, WriteForm DEF WriteFails, TypeOK
<1> QED
  BY <1>1, <1>2, <1>3, <1>4, <1>5, <1>6, <1>7, <1>8, <1>9, <1>10, CommitTyped
  DEF Next, LoadStep, WriteStep

\* Every variable stays in its type.
THEOREM TypeCorrect == Spec => []TypeOK
BY InitTyped, StepTyped, PTL DEF Spec

-----------------------------------------------------------------------------
(* Loads.                                                                  *)

LEMMA InitInv == Init => Inv
BY InitTyped DEF Init, Inv, TxFits, LoadFits, StaleNeedsOverlap, Idle

\* A step of a load that changes nothing else and has read what holds.
LEMMA LoadInv ==
    ASSUME Inv, NEW r \in Readers, NEW x \in {Done} \cup Load, req' = [req EXCEPT ![r] = x],
           UNCHANGED <<db, cache, write, lost, overlapped>>, LoadFits(db, x)
    PROVE  Inv'
<1>1. TypeOK'
  BY LoadTyped DEF Inv
<1>2. ASSUME NEW q \in Readers PROVE LoadFits(db', req'[q])
  BY DEF Inv, TypeOK
<1>3. StaleNeedsOverlap'
  BY DEF Inv, StaleNeedsOverlap, Pending
<1> QED
  BY <1>1, <1>2, <1>3 DEF Inv

LEMMA StartInv ==
    ASSUME Inv, NEW r \in Readers, NEW u \in Users, Start(r, u)
    PROVE  Inv'
<1> DEFINE x == [pc |-> "read", uid |-> u, ids |-> {}, super |-> {}, raced |-> FALSE]
<1>1. x \in Load /\ LoadFits(db, x)
  BY DEF Load, LoadFits, Submitted
<1> QED
  BY <1>1, LoadInv DEF Start

LEMMA ReadRoleIdsInv ==
    ASSUME Inv, NEW r \in Readers, ReadRoleIds(r)
    PROVE  Inv'
<1> DEFINE x == [req[r] EXCEPT !.ids = {db.assigned[req[r].uid]}]
<1>1. req[r] \in [pc: {"read"}, uid: Users, ids: Submitted(Roles),
                  super: SUBSET BOOLEAN, raced: BOOLEAN]
  BY LoadForm DEF Inv, ReadRoleIds, At
<1>2. {db.assigned[req[r].uid]} \in Submitted(Roles)
  BY <1>1 DEF Inv, TypeOK, Tables, Submitted
<1>3. x \in Load
  BY <1>1, <1>2 DEF Load
<1>4. LoadFits(db, req[r])
  BY DEF Inv
<1>5. LoadFits(db, x)
  BY <1>1, <1>4 DEF LoadFits
<1> QED
  BY <1>3, <1>5, LoadInv DEF ReadRoleIds

LEMMA ReadRoleCodesInv ==
    ASSUME Inv, NEW r \in Readers, ReadRoleCodes(r)
    PROVE  Inv'
<1> DEFINE super == {IsSuper(db, req[r].uid)}
           x == [req[r] EXCEPT !.super = super]
<1>1. req[r] \in [pc: {"read"}, uid: Users, ids: Submitted(Roles),
                  super: SUBSET BOOLEAN, raced: BOOLEAN]
  BY LoadForm DEF Inv, ReadRoleCodes, At
<1>2. super \in SUBSET BOOLEAN /\ super \subseteq {IsSuper(db, req[r].uid)}
  BY DEF IsSuper
<1>3. req' = [req EXCEPT ![r] = x]
  BY DEF ReadRoleCodes
<1> HIDE DEF super
<1>4. x \in Load
  BY <1>1, <1>2 DEF Load
<1>5. LoadFits(db, req[r])
  BY DEF Inv
<1>6. LoadFits(db, x)
  BY <1>1, <1>2, <1>5 DEF LoadFits
<1> QED
  BY <1>3, <1>4, <1>6, LoadInv DEF ReadRoleCodes

\* What a load no commit has touched reads piece by piece is what one query returns.
LEMMA ReadCodesInv ==
    ASSUME Inv, NEW r \in Readers, ReadCodes(r)
    PROVE  Inv'
<1> DEFINE c == IF TRUE \in req[r].super THEN AllCodes(db) ELSE CodesOf(db, UNION req[r].ids)
           x == [pc |-> "store", uid |-> req[r].uid, raced |-> req[r].raced, codes |-> c]
<1>1. req[r] \in [pc: {"read"}, uid: Users, ids: Submitted(Roles),
                  super: SUBSET BOOLEAN, raced: BOOLEAN]
  BY LoadForm DEF Inv, ReadCodes, At
<1>2. c \in SUBSET Menus
  BY DEF AllCodes, CodesOf
<1>3. req' = [req EXCEPT ![r] = x]
  BY DEF ReadCodes
<1>4. ~req[r].raced => c = Codes(db, req[r].uid)
  <2>1. SUFFICES ASSUME ~req[r].raced PROVE c = Codes(db, req[r].uid)
    OBVIOUS
  <2>2. LoadFits(db, req[r])
    BY DEF Inv
  <2>3. req[r].ids = {db.assigned[req[r].uid]} /\ req[r].super = {IsSuper(db, req[r].uid)}
    BY <1>1, <2>1, <2>2 DEF LoadFits, ReadCodes
  <2>4. UNION req[r].ids = db.assigned[req[r].uid]
    BY <2>3
  <2>5. TRUE \in req[r].super <=> IsSuper(db, req[r].uid)
    BY <2>3 DEF IsSuper
  <2> QED
    BY <2>4, <2>5 DEF Codes
<1> HIDE DEF c
<1>5. x \in Load /\ LoadFits(db, x)
  BY <1>1, <1>2, <1>4 DEF Load, LoadFits
<1> QED
  BY <1>3, <1>5, LoadInv DEF ReadCodes

LEMMA LoadFailsInv ==
    ASSUME Inv, NEW r \in Readers, LoadFails(r)
    PROVE  Inv'
BY LoadInv DEF LoadFails, EndLoad, Done, LoadFits

LEMMA StoreInv ==
    ASSUME Inv, NEW r \in Readers, Store(r)
    PROVE  Inv'
<1> DEFINE u == req[r].uid
<1>1. TypeOK'
  BY StepTyped DEF Inv, Next, LoadStep
<1>2. req[r].pc = "store" /\ u \in Users /\ LoadFits(db, req[r])
  BY LoadForm DEF Inv, Store, At
<1>3. ASSUME NEW q \in Readers PROVE LoadFits(db', req'[q])
  BY DEF Inv, TypeOK, Store, EndLoad, Done, LoadFits
<1>4. StaleNeedsOverlap'
  <2>1. SUFFICES ASSUME NEW v \in Users \ (lost' \cup overlapped'), cache'[v] # {}, ~Pending(v)'
                 PROVE  cache'[v] = {Codes(db', v)}
    BY DEF StaleNeedsOverlap
  <2>2. ~Pending(v)
    BY <2>1 DEF Store, Pending
  <2>3. CASE v = u
    <3>1. ~req[r].raced
      BY <2>1, <2>3 DEF Store
    <3> QED
      BY <1>2, <2>3, <3>1 DEF Store, LoadFits, Inv, TypeOK
  <2>4. CASE v # u
    <3>1. cache'[v] = cache[v] /\ v \notin lost \cup overlapped
      BY <2>1, <2>4 DEF Store, Inv, TypeOK
    <3> QED
      BY <2>1, <2>2, <3>1 DEF Store, Inv, StaleNeedsOverlap
  <2> QED
    BY <2>3, <2>4
<1> QED
  BY <1>1, <1>3, <1>4 DEF Inv, Store

-----------------------------------------------------------------------------
(* Writes.                                                                 *)

LEMMA BeginInv ==
    ASSUME Inv, NEW w \in Writers, NEW o \in Ops, Begin(w, o)
    PROVE  Inv'
<1> DEFINE x == [pc |-> "tx", op |-> o, late |-> FALSE, affected |-> Affected(After(db, o), o)]
<1>1. TypeOK'
  <2>1. WriteStep(w)
    BY DEF WriteStep, Begin
  <2> QED
    BY <2>1, StepTyped DEF Inv, Next
<1>2. TxFits(db, x)
  BY BeginFits, BeginStands DEF Begin, TxFits, Inv, TypeOK
<1>3. write' = [write EXCEPT ![w] = x] /\ x.pc = "tx"
  BY DEF Begin
<1> HIDE DEF x
<1>4. ASSUME NEW v \in Writers PROVE TxFits(db', write'[v])
  BY <1>2, <1>3 DEF Begin, Inv, TypeOK
<1>5. StaleNeedsOverlap'
  <2>1. ASSUME NEW u, Pending(u) PROVE Pending(u)'
    BY <1>3, <2>1 DEF Begin, Pending, Idle, Inv, TypeOK
  <2> QED
    BY <2>1 DEF Begin, Inv, StaleNeedsOverlap
<1> QED
  BY <1>1, <1>4, <1>5 DEF Inv, Begin

LEMMA ClearInv ==
    ASSUME Inv, NEW w \in Writers, NEW u \in Users, Clear(w, u)
    PROVE  Inv'
<1> DEFINE x == Settle(write[w].left \ {u})
<1>1. TypeOK'
  BY StepTyped DEF Inv, Next, WriteStep
<1>2. x.pc # "tx" /\ \A v \in write[w].left \ {u} : x.pc = "clear" /\ v \in x.left
  BY DEF Settle, Done
<1>3. write' = [write EXCEPT ![w] = x]
  BY DEF Clear
<1> HIDE DEF x
<1>4. ASSUME NEW v \in Writers PROVE TxFits(db', write'[v])
  BY <1>2, <1>3 DEF Clear, Inv, TypeOK, TxFits
<1>5. StaleNeedsOverlap'
  <2>1. ASSUME NEW v, v # u, Pending(v) PROVE Pending(v)'
    BY <1>2, <1>3, <2>1 DEF Pending, Inv, TypeOK
  <2> QED
    BY <2>1 DEF Clear, Inv, TypeOK, StaleNeedsOverlap
<1> QED
  BY <1>1, <1>4, <1>5 DEF Inv, Clear

LEMMA WriteFailsInv ==
    ASSUME Inv, NEW w \in Writers, WriteFails(w)
    PROVE  Inv'
<1>1. TypeOK'
  BY StepTyped DEF Inv, Next, WriteStep
<1>2. ASSUME NEW v \in Writers PROVE TxFits(db', write'[v])
  BY DEF WriteFails, Inv, TypeOK, TxFits, Done
<1>3. StaleNeedsOverlap'
  <2>1. ASSUME NEW u, Pending(u) PROVE Pending(u)' \/ u \in lost'
    BY <2>1 DEF WriteFails, Pending, Inv, TypeOK
  <2> QED
    BY <2>1 DEF WriteFails, Inv, StaleNeedsOverlap
<1> QED
  BY <1>1, <1>2, <1>3 DEF Inv, WriteFails

\* What the commits so far leave a transaction to rely on: its write keeps the tables
\* consistent, and unless it is late it has found everyone it touches.
LEMMA CommitFacts ==
    ASSUME Inv, NEW w \in Writers, Commit(w)
    PROVE  /\ write[w] \in [pc: {"tx"}, op: Ops, affected: SUBSET Users, late: BOOLEAN]
           /\ Fits(db, write[w].op) /\ Permitted(db, write[w].op)
           /\ db' \in Tables /\ Consistent(db')
           /\ ~write[w].late => Touched(write[w].op) \subseteq write[w].affected
<1> DEFINE o == write[w].op
<1>1. write[w] \in [pc: {"tx"}, op: Ops, affected: SUBSET Users, late: BOOLEAN]
  BY WriteForm DEF Inv, Commit
<1>2. db \in Tables /\ Consistent(db) /\ TxFits(db, write[w])
  BY DEF Inv, TypeOK
<1>3. Fits(db, o) /\ Stands(db, o) /\ (~write[w].late => write[w].affected = Affected(After(db, o), o))
  BY <1>2 DEF TxFits, Commit
<1>4. db' \in Tables
  BY <1>1, <1>2, AfterType DEF Commit
<1>5. Consistent(db')
  BY <1>1, <1>2, <1>3, AfterConsistent DEF Commit
<1>6. Touched(o) \subseteq Affected(After(db, o), o)
  BY <1>1, <1>2, Covers DEF Touched
<1>7. Permitted(db, o)
  BY <1>1, <1>2, <1>3, StillPermitted DEF Commit
<1> QED
  BY <1>1, <1>3, <1>4, <1>5, <1>6, <1>7

LEMMA CommitInv ==
    ASSUME Inv, NEW w \in Writers, Commit(w)
    PROVE  Inv'
<1> DEFINE x == write[w]
           o == x.op
<1>0. /\ x \in [pc: {"tx"}, op: Ops, affected: SUBSET Users, late: BOOLEAN]
      /\ Fits(db, o)
      /\ db' \in Tables /\ Consistent(db')
      /\ ~x.late => Touched(o) \subseteq x.affected
  BY CommitFacts
<1>1. TypeOK'
  BY CommitTyped DEF Inv
<1>2. db \in Tables /\ Consistent(db) /\ db' = After(db, o)
  BY DEF Inv, TypeOK, Commit
<1>3. ASSUME NEW v \in Writers PROVE TxFits(db', write'[v])
  <2>1. CASE v = w
    BY <2>1 DEF Commit, Settle, Done, TxFits
  <2>2. CASE v # w /\ write[v].pc # "tx"
    BY <2>2 DEF Commit, TxFits
  <2>3. CASE v # w /\ write[v].pc = "tx" /\ Clash(write[v].op, o)
    BY <2>3 DEF Commit, TxFits
  <2>4. CASE v # w /\ write[v].pc = "tx" /\ ~Clash(write[v].op, o)
    <3>1. write[v] \in [pc: {"tx"}, op: Ops, affected: SUBSET Users, late: BOOLEAN]
      BY <2>4, WriteForm DEF Inv
    <3>2. Fits(db, write[v].op) /\ Stands(db, write[v].op)
      BY <2>4 DEF Inv, TxFits
    <3>3. Fits(db', write[v].op) /\ Stands(db', write[v].op)
      BY <1>0, <1>2, <2>4, <3>1, <3>2, FitsStays, StandsStays
    <3>4. write'[v] = [write[v] EXCEPT !.late = TRUE]
      BY <2>4 DEF Commit
    <3>5. write'[v].op = write[v].op /\ write'[v].late
      BY <3>1, <3>4
    <3> QED
      BY <3>3, <3>5 DEF TxFits
  <2> QED
    BY <2>1, <2>2, <2>3, <2>4
<1>4. ASSUME NEW u \in Users, u \notin Touched(o)
      PROVE  /\ Codes(db', u) = Codes(db, u)
             /\ db'.assigned[u] = db.assigned[u]
             /\ IsSuper(db', u) <=> IsSuper(db, u)
  <2>1. Codes(db', u) = Codes(db, u) /\ ~(o.on = "user" /\ o.id = u)
    BY <1>2, <1>4 DEF Touched
  <2>2. db'.assigned[u] = db.assigned[u]
    BY <1>0, <1>2, <2>1, RolesStay
  <2>3. db.role[Super] = "enabled" /\ db'.role[Super] = "enabled"
    <3>1. \A d : Consistent(d) => d.role[Super] = "enabled"
      BY SuperEnabled
    <3> QED
      BY <1>0, <1>2, <3>1
  <2> QED
    BY <2>1, <2>2, <2>3 DEF IsSuper
<1>5. ASSUME NEW r \in Readers PROVE LoadFits(db', req'[r])
  <2>1. CASE ~InLoad(r)
    BY <2>1 DEF Commit, InLoad, LoadFits
  <2>2. CASE InLoad(r) /\ req[r].uid \in Touched(o)
    <3>1. req'[r] = [req[r] EXCEPT !.raced = TRUE]
      BY <2>2 DEF Commit
    <3>2. req'[r].raced
      BY <2>2, <3>1, LoadForm DEF InLoad, Inv
    <3> QED
      BY <3>2 DEF LoadFits
  <2>3. CASE InLoad(r) /\ req[r].uid \notin Touched(o)
    <3>1. req'[r] = req[r] /\ req[r].uid \in Users
      BY <2>3, LoadForm DEF Commit, InLoad, Inv
    <3>2. /\ Codes(db', req[r].uid) = Codes(db, req[r].uid)
          /\ db'.assigned[req[r].uid] = db.assigned[req[r].uid]
          /\ IsSuper(db', req[r].uid) = IsSuper(db, req[r].uid)
      BY <1>4, <2>3, <3>1 DEF IsSuper
    <3>3. LoadFits(db, req[r])
      BY DEF Inv
    <3> QED
      BY <3>1, <3>2, <3>3 DEF LoadFits
  <2> QED
    BY <2>1, <2>2, <2>3
<1>6. StaleNeedsOverlap'
  <2>1. SUFFICES ASSUME NEW u \in Users \ (lost' \cup overlapped'), cache'[u] # {}, ~Pending(u)'
                 PROVE  cache'[u] = {Codes(db', u)}
    BY DEF StaleNeedsOverlap
  <2>2. u \notin lost \cup overlapped
    BY <2>1 DEF Commit
  <2>3. u \notin Touched(o)
    <3>1. SUFFICES ASSUME u \in Touched(o) PROVE FALSE
      OBVIOUS
    <3>2. u \in x.affected
      BY <1>0, <2>1, <3>1 DEF Commit
    <3>3. write'[w].pc = "clear" /\ u \in write'[w].left
      BY <3>2 DEF Commit, Settle
    <3> QED
      BY <2>1, <3>3 DEF Pending
  <2>4. ~Pending(u)
    <3>1. ASSUME NEW v \in Writers, write[v].pc = "clear" PROVE write'[v] = write[v]
      BY <1>0, <3>1 DEF Commit
    <3> QED
      BY <2>1, <3>1 DEF Pending
  <2> QED
    BY <1>4, <2>1, <2>2, <2>3, <2>4 DEF Commit, Inv, StaleNeedsOverlap
<1> QED
  BY <1>0, <1>1, <1>3, <1>5, <1>6 DEF Inv

-----------------------------------------------------------------------------
(* The specification.                                                      *)

LEMMA StepInv ==
    ASSUME Inv, [Next]_vars
    PROVE  Inv'
<1>1. CASE UNCHANGED vars
  BY <1>1 DEF vars, Inv, TypeOK, StaleNeedsOverlap, Pending
<1>2. CASE Next
  BY <1>2, StartInv, ReadRoleIdsInv, ReadRoleCodesInv, ReadCodesInv, StoreInv, LoadFailsInv,
     BeginInv, CommitInv, ClearInv, WriteFailsInv
  DEF Next, LoadStep, WriteStep
<1> QED
  BY <1>1, <1>2

\* The invariant holds throughout.
THEOREM Invariance == Spec => []Inv
BY InitInv, StepInv, PTL DEF Spec

\* Whatever menu, role and user writes overlap: a user holds existing roles, a role
\* grants existing menus, and an enabled super administrator remains, although each
\* transaction has checked its own part on a snapshot that may be old.
THEOREM StaysConsistent == Spec => []ReferencesLive
<1>1. Inv => ReferencesLive
  BY DEF Inv, ReferencesLive
<1> QED
  BY <1>1, Invariance, PTL

\* An entry of the permission cache that differs from the codes in force is about to
\* be deleted, or its deletion was lost, or a commit overtook the load or the write
\* it goes back to.
THEOREM StaleOnlyByOverlap == Spec => []StaleNeedsOverlap
<1>1. Inv => StaleNeedsOverlap
  BY DEF Inv
<1> QED
  BY <1>1, Invariance, PTL

\* However old the snapshot a menu, role or user write has checked, at its commit it
\* may still do what it does, in the tables as they are then.
THEOREM StillAllowed == Spec => CommitsPermitted
<1>1. Inv => \A w \in Writers : Commit(w) => Permitted(db, write[w].op)
  BY CommitFacts
<1>2. Inv /\ [Next]_vars => [\A w \in Writers : Commit(w) => Permitted(db, write[w].op)]_vars
  BY <1>1
<1> QED
  BY <1>2, Invariance, PTL DEF Spec, CommitsPermitted

=============================================================================
