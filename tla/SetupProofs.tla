---------------------------- MODULE SetupProofs ----------------------------
(***************************************************************************)
(* Proofs about Setup.                                                     *)
(***************************************************************************)
EXTENDS Setup, FiniteSetTheorems, TLAPS

-----------------------------------------------------------------------------
(* The inductive invariant.                                                *)

\* No seed is met under an id that is not its own.
OthersApart(menu) == menu["Other"].name \notin SeedNames

\* What running setup on d finds: nothing to refuse and nothing to change.
Complete(d) ==
    ~Refuses(d) /\ Seeded(d) = d /\ d.grants \cap Management(d.menu) = {}

\* Accounts that have never been made have neither roles nor an entry; a role that is
\* linked exists; a stale entry belongs to somebody every run concerns itself with, or
\* a request that a commit overtook has stored it.
AccountsFit ==
    \A u \in Users :
        /\ account[u] = "none" => roles[u] = {} /\ entry[u] = "none" /\ load[u] = "none"
        /\ "super" \in roles[u] => superRole # "none"
        /\ entry[u] = "stale" => u \in Concerned \/ u \in overtaken

\* While a run clears, whoever has a stale entry is still on its list, or has it from
\* a request that a commit overtook; afterwards there is only the latter.
ClearsAll ==
    \A r \in Runs \ edited : Committed(r) =>
        \A u \in Users : entry[u] = "stale" =>
            u \in overtaken \/ (At(r, "clear") /\ u \in run[r].todo)

\* Between the check for a super account and the last write of the secrets.
Entered(r) == In(r, {"role", "ask", "create", "secrets", "truncate", "write"})

\* Unless runs overlapped, one at a time is there, and none has come with a super account
\* in place, unless the role is gone and the run will be refused.
OneEnters ==
    overlapped \/ /\ \A r, s \in Runs : Entered(r) /\ Entered(s) => r = s
                  /\ \A r \in Runs : In(r, {"role", "ask", "create"}) => Supers = {} \/ superRole = "gone"
                  /\ \A u, v \in Supers : u = v

Chosen == \A r \in Runs : At(r, "create") => \E u \in Users : run[r].as = {u}

\* A secret that was there when a run began is in the file or, while the file is open,
\* in what is about to be written to it; that leaves none out and changes none.
Intact ==
    /\ \A r \in Runs, k \in Keys : ~At(r, "new") /\ run[r].had[k] # "empty" =>
           \/ file[k] = run[r].had[k]
           \/ \E s \in Runs : At(s, "write")
    /\ \A r, s \in Runs, k \in Keys :
           ~At(r, "new") /\ run[r].had[k] # "empty" /\ At(s, "write") =>
               run[s].put[k] = run[r].had[k]
    /\ \A s \in Runs, k \in Keys : In(s, {"truncate", "write"}) =>
           run[s].put[k] # "empty" /\ file[k] \in {"empty", run[s].put[k]}

SecretsFit == overlapped \/ "write" \in broken \/ Intact

Inv ==
    /\ TypeOK
    /\ OthersApart(db.menu)
    /\ \A r \in Runs \ edited : Committed(r) => Complete(db)
    /\ AccountsFit
    /\ ClearsAll
    /\ OneEnters
    /\ Chosen
    /\ SecretsFit
    /\ SecretsOrStopped

-----------------------------------------------------------------------------
(* The seeds.                                                              *)

\* A set with at most one element, said without counting.
LEMMA AtMostOne ==
    ASSUME NEW S, IsFiniteSet(S)
    PROVE  Cardinality(S) <= 1 <=> \A x, y \in S : x = y
<1>1. ASSUME Cardinality(S) <= 1, NEW x \in S, NEW y \in S PROVE x = y
  <2>1. IsFiniteSet(S \ {x}) /\ Cardinality(S \ {x}) = Cardinality(S) - 1
    BY FS_RemoveElement
  <2>2. Cardinality(S) \in Nat /\ Cardinality(S \ {x}) \in Nat
    BY <2>1, FS_CardinalityType
  <2>3. S \ {x} = {}
    BY <1>1, <2>1, <2>2, FS_EmptySet
  <2> QED BY <2>3
<1>2. ASSUME \A x, y \in S : x = y PROVE Cardinality(S) <= 1
  <2>1. CASE S = {}
    BY <2>1, FS_EmptySet
  <2>2. CASE \E x : x \in S
    <3> PICK x : x \in S
      BY <2>2
    <3>1. S = {x}
      BY <1>2
    <3> QED BY <3>1, FS_Singleton
  <2> QED BY <2>1, <2>2
<1> QED BY <1>1, <1>2

LEMMA SeedNamesAre == SeedNames = {"System", "Page", "Attachment", "Read"}
BY DEF SeedNames, Seeds, Row

LEMMA IdsAre == Ids = {"System", "Page", "Attachment", "Read", "Other"} /\ IsFiniteSet(Ids)
<1>1. Ids = {"System", "Page", "Attachment", "Read", "Other"}
  BY SeedNamesAre DEF Ids
<1>2. IsFiniteSet({"System"})
  BY FS_Singleton
<1>3. IsFiniteSet({"System"} \cup {"Page"})
  BY <1>2, FS_AddElement
<1>4. IsFiniteSet({"System"} \cup {"Page"} \cup {"Attachment"})
  BY <1>3, FS_AddElement
<1>5. IsFiniteSet({"System"} \cup {"Page"} \cup {"Attachment"} \cup {"Read"})
  BY <1>4, FS_AddElement
<1>6. IsFiniteSet({"System"} \cup {"Page"} \cup {"Attachment"} \cup {"Read"} \cup {"Other"})
  BY <1>5, FS_AddElement
<1>7. Ids = {"System"} \cup {"Page"} \cup {"Attachment"} \cup {"Read"} \cup {"Other"}
  BY <1>1
<1>8. IsFiniteSet(Ids)
  BY <1>6, <1>7
<1> QED BY <1>1, <1>8

LEMMA IdsNamed ==
    /\ "System" \in Ids /\ "Page" \in Ids /\ "Attachment" \in Ids /\ "Read" \in Ids /\ "Other" \in Ids
    /\ "-" \notin Ids /\ "Mine" \notin Ids
BY IdsAre

\* The four seeds, spelled out.
LEMMA SeedsAre ==
    /\ Seeds[1] = Row("System", "/system", "-", "catalog", "-")
    /\ Seeds[2] = Row("Page", "/system/page", "system:page", "menu", "System")
    /\ Seeds[3] = Row("Attachment", "/system/attachment", "-", "catalog", "System")
    /\ Seeds[4] = Row("Read", "-", "system:read", "button", "Attachment")
BY DEF Seeds

LEMMA NamesOfSeeds ==
    /\ Seeds[1].name = "System" /\ Seeds[2].name = "Page"
    /\ Seeds[3].name = "Attachment" /\ Seeds[4].name = "Read"
BY SeedsAre DEF Row

\* Rows that are there.
LEMMA FilledFit ==
    /\ \A row \in Filled :
           /\ row # NoRow /\ row \in Rows
           /\ [row EXCEPT !.ok = FALSE] \in Filled /\ [row EXCEPT !.name = "Mine"] \in Filled
           /\ \A i \in Ids \cup {"-"} : [row EXCEPT !.pid = i] \in Filled
    /\ \A row \in Rows : row # NoRow => row \in Filled
    /\ NoRow \in Rows
<1>1. NoRow \notin Filled
  BY IdsNamed DEF NoRow, Row, Filled
<1> QED BY <1>1 DEF Filled, Rows

LEMMA SeedsFit == \A k \in 1..4 : Seeds[k] \in Filled /\ Seeds[k] \in Rows /\ Seeds[k] # NoRow
<1>1. Seeds[1] \in Filled
  BY IdsNamed, SeedsAre DEF Row, Filled
<1>2. Seeds[2] \in Filled
  BY IdsNamed, SeedsAre DEF Row, Filled
<1>3. Seeds[3] \in Filled
  BY IdsNamed, SeedsAre DEF Row, Filled
<1>4. Seeds[4] \in Filled
  BY IdsNamed, SeedsAre DEF Row, Filled
<1>5. \A k \in 1..4 : Seeds[k] \in Filled
  BY <1>1, <1>2, <1>3, <1>4
<1> QED BY <1>5, FilledFit

\* The table a run leaves: the seeds, and the row of somebody else as it was.
LEMMA SeedMenusPlants ==
    ASSUME NEW menu \in [Ids -> Rows]
    PROVE  LET m == SeedMenus(menu).menu
           IN  /\ m \in [Ids -> Rows]
               /\ m["System"] = Seeds[1] /\ m["Page"] = Seeds[2]
               /\ m["Attachment"] = Seeds[3] /\ m["Read"] = Seeds[4]
               /\ m["Other"] = menu["Other"]
<1>1. SeedMenus(menu).menu =
        [menu EXCEPT !["System"] = Seeds[1], !["Page"] = Seeds[2], !["Attachment"] = Seeds[3], !["Read"] = Seeds[4]]
  BY NamesOfSeeds DEF SeedMenus, SeedOne, Planted
<1> QED BY <1>1, IdsAre, SeedsFit, FilledFit

\* Whether a row stands where the seed wants to be.
Meets(row, seed) ==
    /\ row # NoRow
    /\ \/ row.name = seed.name
       \/ seed.path # "-" /\ row.path = seed.path
       \/ seed.code # "-" /\ row.code = seed.code

LEMMA MatchesAre == \A menu, seed : Matches(menu, seed) = {i \in Ids : Meets(menu[i], seed)}
BY DEF Matches, Meets

\* A row that agrees with a seed has its name.
LEMMA AgreesByName ==
    ASSUME NEW row, NEW k \in 1..4, Agrees(row, Seeds[k])
    PROVE  row.name \in SeedNames
<1>1. Seeds[k] \in Filled
  BY SeedsFit
<1>2. row.name = Seeds[k].name
  BY <1>1 DEF Agrees, Filled
<1>3. Seeds[k].name \in SeedNames
  BY SeedNamesAre, SeedsAre DEF Row
<1> QED BY <1>2, <1>3

\* A run that refuses nothing has met the row of somebody else nowhere.
LEMMA OtherMeetsNone ==
    ASSUME NEW menu \in [Ids -> Rows], OthersApart(menu), SeedMenus(menu).ok
    PROVE  \A k \in 1..4 : ~Meets(menu["Other"], Seeds[k])
<1> DEFINE one == SeedOne([ok |-> TRUE, menu |-> menu], Seeds[1])
           two == SeedOne(one, Seeds[2])
           three == SeedOne(two, Seeds[3])
           four == SeedOne(three, Seeds[4])
<1>1. four.ok /\ three.ok /\ two.ok /\ one.ok
  <2>1. four.ok
    BY DEF SeedMenus
  <2>2. three.ok
    BY <2>1 DEF SeedOne
  <2>3. two.ok
    BY <2>2 DEF SeedOne
  <2>4. one.ok
    BY <2>3 DEF SeedOne
  <2> QED BY <2>1, <2>2, <2>3, <2>4
<1>2. /\ one.menu = [menu EXCEPT !["System"] = Seeds[1]]
      /\ two.menu = [one.menu EXCEPT !["Page"] = Seeds[2]]
      /\ three.menu = [two.menu EXCEPT !["Attachment"] = Seeds[3]]
  BY NamesOfSeeds DEF SeedOne, Planted
<1> HIDE DEF one, two, three, four
<1>3. /\ one.menu["Other"] = menu["Other"] /\ two.menu["Other"] = menu["Other"]
      /\ three.menu["Other"] = menu["Other"]
  BY <1>2, IdsAre
<1>4. \A m, seed, k : seed = Seeds[k] /\ k \in 1..4 /\ m["Other"] = menu["Other"]
            /\ (\A i \in Matches(m, seed) : Agrees(m[i], seed)) => ~Meets(menu["Other"], seed)
  <2> SUFFICES ASSUME NEW m, NEW k \in 1..4, m["Other"] = menu["Other"],
                      \A i \in Matches(m, Seeds[k]) : Agrees(m[i], Seeds[k]),
                      Meets(menu["Other"], Seeds[k])
               PROVE  FALSE
    OBVIOUS
  <2>1. "Other" \in Matches(m, Seeds[k])
    BY MatchesAre, IdsAre
  <2>2. menu["Other"].name \in SeedNames
    BY <2>1, AgreesByName
  <2> QED BY <2>2 DEF OthersApart
<1>5. \A i \in Matches(menu, Seeds[1]) : Agrees(menu[i], Seeds[1])
  BY <1>1 DEF SeedOne, one
<1>6. \A i \in Matches(one.menu, Seeds[2]) : Agrees(one.menu[i], Seeds[2])
  BY <1>1 DEF SeedOne, two
<1>7. \A i \in Matches(two.menu, Seeds[3]) : Agrees(two.menu[i], Seeds[3])
  BY <1>1 DEF SeedOne, three
<1>8. \A i \in Matches(three.menu, Seeds[4]) : Agrees(three.menu[i], Seeds[4])
  BY <1>1 DEF SeedOne, four
<1>9. /\ ~Meets(menu["Other"], Seeds[1]) /\ ~Meets(menu["Other"], Seeds[2])
      /\ ~Meets(menu["Other"], Seeds[3]) /\ ~Meets(menu["Other"], Seeds[4])
  BY <1>3, <1>4, <1>5, <1>6, <1>7, <1>8
<1> QED BY <1>9

\* Seeding a table once more finds every seed and nothing else, and changes nothing.
LEMMA SeedMenusAgain ==
    ASSUME NEW menu \in [Ids -> Rows], OthersApart(menu), SeedMenus(menu).ok
    PROVE  LET m == SeedMenus(menu).menu IN SeedMenus(m).ok /\ SeedMenus(m).menu = m
<1> DEFINE m == SeedMenus(menu).menu
           again == [ok |-> TRUE, menu |-> m]
<1>1. /\ m \in [Ids -> Rows]
      /\ m["System"] = Seeds[1] /\ m["Page"] = Seeds[2] /\ m["Attachment"] = Seeds[3]
      /\ m["Read"] = Seeds[4] /\ m["Other"] = menu["Other"]
  BY SeedMenusPlants
<1>2. \A k \in 1..4 : ~Meets(m["Other"], Seeds[k])
  BY <1>1, OtherMeetsNone
<1> HIDE DEF m
<1>3. ASSUME NEW k \in 1..4 PROVE SeedOne(again, Seeds[k]) = again
  <2> k = 1 \/ k = 2 \/ k = 3 \/ k = 4
    OBVIOUS
  <2>1. Seeds[k].name \in Ids /\ m[Seeds[k].name] = Seeds[k]
    BY <1>1, NamesOfSeeds, IdsAre
  <2>2. Planted(m, Seeds[k]) = m
    BY <1>1, <2>1 DEF Planted
  <2>3. \A j \in 1..4 : Meets(Seeds[j], Seeds[k]) <=> j = k
    BY SeedsAre DEF Row, NoRow, Meets
  <2>4. \A i \in Ids : Meets(m[i], Seeds[k]) <=> i = Seeds[k].name
    BY <1>1, <1>2, <2>3, IdsAre, NamesOfSeeds
  <2>5. Matches(m, Seeds[k]) = {Seeds[k].name}
    BY <2>1, <2>4, MatchesAre
  <2>6. Cardinality(Matches(m, Seeds[k])) <= 1
    <3>1. Cardinality({Seeds[k].name}) = 1
      BY FS_Singleton
    <3> QED BY <2>5, <3>1
  <2>7. \A i \in Matches(m, Seeds[k]) : Agrees(m[i], Seeds[k])
    BY <2>1, <2>5 DEF Agrees
  <2> QED BY <2>2, <2>6, <2>7 DEF SeedOne
<1>4. SeedMenus(m) = again
  BY <1>3 DEF SeedMenus
<1> QED BY <1>4 DEF m

\* What a run that refuses nothing leaves, the next run finds complete.
LEMMA SeededComplete ==
    ASSUME TypeOK, OthersApart(db.menu), ~Refuses(db)
    PROVE  Complete(Seeded(db)) /\ OthersApart(Seeded(db).menu)
<1> DEFINE e == Seeded(db)
           m == SeedMenus(db.menu).menu
<1>1. db.menu \in [Ids -> Rows] /\ db.grants \subseteq Ids /\ db.otherDefault = FALSE
      /\ SeedMenus(db.menu).ok
  BY DEF TypeOK, Refuses
<1>2. /\ e \in [menu: [Ids -> Rows], role: {"default"}, root: {"live"}, otherDefault: {FALSE}, grants: SUBSET Ids]
      /\ e.menu = m /\ e.grants = db.grants \ Management(m)
  BY <1>1, SeedMenusPlants DEF TypeOK, Seeded
<1>3. SeedMenus(m).ok /\ SeedMenus(m).menu = m
  BY <1>1, SeedMenusAgain
<1>4. OthersApart(m)
  BY <1>1, SeedMenusPlants DEF OthersApart
<1> HIDE DEF e, m
<1>5. ~Refuses(e) /\ e.grants \cap Management(e.menu) = {}
  BY <1>2, <1>3 DEF Refuses
<1>6. Seeded(e) = e
  BY <1>2, <1>3, <1>5 DEF Seeded
<1> QED BY <1>2, <1>4, <1>5, <1>6 DEF Complete, e

-----------------------------------------------------------------------------
(* Types.                                                                  *)

Tables == [menu: [Ids -> Rows], role: {"none", "default", "plain", "blocked"},
           root: {"none", "live", "blocked"}, otherDefault: BOOLEAN, grants: SUBSET Ids]
Places == Steps \cup {"new", "done", "skipped", "refused", "stopped"}
Flows == [pc: Places, todo: SUBSET Users, as: SUBSET Users,
          had: [Keys -> Secrets], put: [Keys -> Secrets]]

LEMMA SeededTyped ==
    ASSUME TypeOK
    PROVE  Seeded(db) \in Tables /\ \A i \in Seeded(db).grants : Seeded(db).menu[i] # NoRow
<1> DEFINE m == SeedMenus(db.menu).menu
<1>1. /\ m \in [Ids -> Rows]
      /\ m["System"] = Seeds[1] /\ m["Page"] = Seeds[2] /\ m["Attachment"] = Seeds[3]
      /\ m["Read"] = Seeds[4] /\ m["Other"] = db.menu["Other"]
  BY SeedMenusPlants DEF TypeOK
<1> HIDE DEF m
<1>2. \A i \in Ids : db.menu[i] # NoRow => m[i] # NoRow
  BY <1>1, IdsAre, SeedsFit, FilledFit
<1>3. Seeded(db) = [db EXCEPT !.role = "default", !.root = "live", !.menu = m,
                              !.grants = db.grants \ Management(m)]
  BY DEF Seeded, m, TypeOK
<1>4. Seeded(db) \in Tables
  <2>1. db \in Tables
    BY DEF TypeOK, Tables
  <2> QED BY <1>1, <1>3, <2>1 DEF Tables
<1>5. Seeded(db).menu = m /\ Seeded(db).grants \subseteq db.grants
  BY <1>3 DEF TypeOK
<1> QED BY <1>2, <1>4, <1>5 DEF TypeOK

\* A step of r leaves the other runs alone, and keeps what r knows well typed.
Moves(r) ==
    /\ run' \in [Runs -> Flows]
    /\ \A s \in Runs : run'[s].todo # {} => run'[s].pc \in {"clear", "stopped"}
    /\ \A s \in Runs \ {r} : run'[s] = run[s]

LEMMA RunTyped == ASSUME TypeOK, NEW r \in Runs, RunStep(r) PROVE Moves(r)
<1> DEFINE clears(f) == f.todo # {} => f.pc \in {"clear", "stopped"}
<1>a. /\ run \in [Runs -> Flows] /\ file \in [Keys -> Secrets]
      /\ \A s \in Runs : clears(run[s])
  BY DEF TypeOK, In, Flows, Places
<1>b. ASSUME NEW f \in Flows, clears(f), run' = [run EXCEPT ![r] = f] PROVE Moves(r)
  BY <1>a, <1>b DEF Moves
<1>c. ASSUME NEW p \in Places, Goto(r, p), run[r].todo = {} \/ p = "stopped" PROVE Moves(r)
  <2> DEFINE f == [run[r] EXCEPT !.pc = p]
  <2>1. f \in Flows /\ f.pc = p /\ f.todo = run[r].todo
    BY <1>a DEF Flows
  <2>2. run' = [run EXCEPT ![r] = f]
    BY <1>a, <1>c DEF Goto
  <2> QED BY <1>b, <1>c, <2>1, <2>2
<1>d. run[r] \in Flows /\ (~In(r, {"clear", "stopped"}) => run[r].todo = {})
  BY <1>a DEF In
<1>1. CASE Start(r)
  <2> DEFINE f == [run[r] EXCEPT !.pc = "seed", !.had = file]
  <2>1. f \in Flows /\ f.todo = {}
    BY <1>a, <1>d, <1>1 DEF Start, At, In, Flows, Places, Steps
  <2> QED BY <1>b, <1>1, <2>1 DEF Start
<1>2. CASE Seed(r)
  <2>1. CASE Refuses(db)
    BY <1>c, <1>d, <1>2, <2>1 DEF Seed, At, In, Places
  <2>2. CASE ~Refuses(db)
    <3> DEFINE f == [run[r] EXCEPT !.pc = "clear", !.todo = Concerned]
    <3>1. f \in Flows /\ f.pc = "clear"
      BY <1>d DEF Concerned, Flows, Places, Steps
    <3> QED BY <1>b, <1>2, <2>2, <3>1 DEF Seed
  <2> QED BY <2>1, <2>2
<1>3. CASE FindSuper(r)
  BY <1>c, <1>d, <1>3 DEF FindSuper, At, In, Places, Steps
<1>4. CASE FindRole(r)
  BY <1>c, <1>d, <1>4 DEF FindRole, At, In, Places, Steps
<1>5. CASE Create(r)
  BY <1>c, <1>d, <1>5 DEF Create, At, In, Places, Steps
<1>6. ASSUME NEW batch \in SUBSET run[r].todo, Clear(r, batch) PROVE Moves(r)
  <2> DEFINE f == [run[r] EXCEPT !.todo = run[r].todo \ batch,
                                 !.pc = IF run[r].todo = batch THEN "check" ELSE "clear"]
  <2>1. f \in Flows /\ clears(f)
    BY <1>d DEF Flows, Places, Steps
  <2> QED BY <1>b, <1>6, <2>1 DEF Clear
<1>7. ASSUME NEW u \in Users, Ask(r, u) PROVE Moves(r)
  <2> DEFINE f == [run[r] EXCEPT !.pc = "create", !.as = {u}]
  <2>1. f \in Flows /\ f.todo = {}
    BY <1>d, <1>7 DEF Ask, At, In, Flows, Places, Steps
  <2> QED BY <1>b, <1>7, <2>1 DEF Ask
<1>8. CASE ReadSecrets(r)
  <2> DEFINE f == [run[r] EXCEPT !.put = Generated(r),
                                 !.pc = IF Generated(r) = file THEN "done" ELSE "truncate"]
  <2>1. Generated(r) \in [Keys -> Secrets]
    BY <1>a DEF Generated, Secrets
  <2>2. f \in Flows /\ f.todo = {}
    BY <1>d, <1>8, <2>1 DEF ReadSecrets, At, In, Flows, Places, Steps
  <2> QED BY <1>b, <1>8, <2>2 DEF ReadSecrets
<1>9. CASE Truncate(r)
  BY <1>c, <1>d, <1>9 DEF Truncate, At, In, Places, Steps
<1>10. CASE WriteSecrets(r)
  BY <1>c, <1>d, <1>10 DEF WriteSecrets, At, In, Places, Steps
<1>11. CASE Stop(r)
  BY <1>c, <1>11 DEF Stop, Places
<1> QED BY <1>1, <1>2, <1>3, <1>4, <1>5, <1>6, <1>7, <1>8, <1>9, <1>10, <1>11 DEF RunStep

\* What TypeOK says of everything but the runs.
TablesTyped ==
    /\ db \in Tables /\ \A i \in db.grants : db.menu[i] # NoRow
    /\ account \in [Users -> {"none", "live", "disabled", "gone"}]
    /\ roles \in [Users -> {{}, {"user"}, {"super"}}]
    /\ superRole \in {"none", "live", "disabled", "gone"}
    /\ entry \in [Users -> {"none", "right", "stale"}] /\ load \in [Users -> {"none", "right", "stale"}]
    /\ overtaken \subseteq {u \in Users : entry[u] = "stale"}
    /\ file \in [Keys -> Secrets]
    /\ edits \in 0..MaxEdits /\ edited \subseteq Runs /\ overlapped \in BOOLEAN /\ broken \subseteq Steps

LEMMA TypeParts ==
    TypeOK <=> /\ TablesTyped
               /\ run \in [Runs -> Flows]
               /\ \A r \in Runs : run[r].todo # {} => run[r].pc \in {"clear", "stopped"}
BY DEF TypeOK, TablesTyped, Tables, Flows, Places, In

LEMMA RunStepTyped == ASSUME TypeOK, NEW r \in Runs, RunStep(r) PROVE TypeOK'
<1>1. TablesTyped'
  <2> TablesTyped /\ run[r] \in Flows
    BY TypeParts
  <2> USE DEF TablesTyped, cache
  <2>1. CASE Start(r)
    BY <2>1 DEF Start
  <2>2. CASE Seed(r)
    <3>1. CASE Refuses(db)
      BY <2>2, <3>1 DEF Seed
    <3>2. CASE ~Refuses(db)
      <4>1. db' \in Tables /\ \A i \in db'.grants : db'.menu[i] # NoRow
        BY <2>2, <3>2, SeededTyped DEF Seed
      <4>2. /\ entry' \in [Users -> {"none", "right", "stale"}] /\ load' \in [Users -> {"none", "right", "stale"}]
            /\ overtaken' \subseteq {u \in Users : entry'[u] = "stale"}
        BY <2>2, <3>2 DEF Seed, Overtake
      <4> QED BY <2>2, <3>2, <4>1, <4>2 DEF Seed
    <3> QED BY <3>1, <3>2
  <2>3. CASE FindSuper(r)
    BY <2>3 DEF FindSuper
  <2>4. CASE FindRole(r)
    BY <2>4 DEF FindRole
  <2>5. CASE Create(r)
    BY <2>5 DEF Create
  <2>6. ASSUME NEW batch \in SUBSET run[r].todo, Clear(r, batch) PROVE TablesTyped'
    BY <2>6 DEF Clear, Forget
  <2>7. ASSUME NEW u \in Users, Ask(r, u) PROVE TablesTyped'
    BY <2>7 DEF Ask
  <2>8. CASE ReadSecrets(r)
    BY <2>8 DEF ReadSecrets
  <2>9. CASE Truncate(r)
    BY <2>9 DEF Truncate, Secrets
  <2>10. CASE WriteSecrets(r)
    BY <2>10 DEF WriteSecrets, Flows
  <2>11. CASE Stop(r)
    BY <2>11 DEF Stop, In
  <2> QED BY <2>1, <2>2, <2>3, <2>4, <2>5, <2>6, <2>7, <2>8, <2>9, <2>10, <2>11 DEF RunStep
<1>2. Moves(r)
  BY RunTyped
<1> QED BY <1>1, <1>2, TypeParts DEF Moves, TypeOK, TablesTyped, Tables, Flows, Places, In

\* A step of the application.
AppStep ==
    \/ \E i \in Ids : EditMenu(i) \/ Grant(i)
    \/ Repair \/ EnableSuperRole
    \/ \E u \in Users : EditAccount(u) \/ Query(u) \/ Store(u) \/ LoadFails(u)

LEMMA AppStepTyped == ASSUME TypeOK, AppStep PROVE TypeOK'
<1> TablesTyped
  BY TypeParts
<1> USE DEF TablesTyped, cache
<1>a. ASSUME Edit PROVE edits' \in 0..MaxEdits /\ edited' \subseteq Runs
  BY <1>a, SetupAssumption DEF Edit
<1>b. ASSUME NEW S, Forget(S)
      PROVE  /\ entry' \in [Users -> {"none", "right", "stale"}]
             /\ overtaken' \subseteq {u \in Users : entry'[u] = "stale"}
  BY <1>b DEF Forget
<1>c. ASSUME NEW S, Overtake(S) PROVE load' \in [Users -> {"none", "right", "stale"}]
  BY <1>c DEF Overtake
<1>1. ASSUME NEW i \in Ids, EditMenu(i) PROVE TablesTyped'
  <2>1. PICK row \in {[db.menu[i] EXCEPT !.ok = FALSE], [db.menu[i] EXCEPT !.pid = "-"],
                      [db.menu[i] EXCEPT !.name = "Mine"]} :
          db' = [db EXCEPT !.menu = [db.menu EXCEPT ![i] = row]]
    BY <1>1 DEF EditMenu
  <2>2. db.menu[i] \in Rows /\ row \in Rows /\ row # NoRow
    <3>1. db.menu[i] \in Filled
      BY <1>1, FilledFit DEF EditMenu, Tables
    <3> QED BY <3>1, <2>1, FilledFit
  <2>3. db' \in Tables /\ \A j \in db'.grants : db'.menu[j] # NoRow
    BY <2>1, <2>2 DEF Tables
  <2> QED BY <1>1, <1>a, <1>b, <1>c, <2>3 DEF EditMenu, Change, Edit
<1>2. ASSUME NEW i \in Ids, Grant(i) PROVE TablesTyped'
  <2>1. db' \in Tables /\ \A j \in db'.grants : db'.menu[j] # NoRow
    BY <1>2 DEF Grant, Tables
  <2> QED BY <1>2, <1>a, <1>b, <1>c, <2>1 DEF Grant, Change, Edit
<1>3. ASSUME Repair PROVE TablesTyped'
  <2>1. db' \in Tables /\ db'.menu = db.menu /\ db'.grants = db.grants
    <3>1. PICK d \in {[db EXCEPT !.role = "plain"], [db EXCEPT !.otherDefault = FALSE],
                      [db EXCEPT !.root = "live"]} : db' = d
      BY <1>3 DEF Repair
    <3> QED BY <3>1 DEF Tables
  <2> QED BY <1>3, <1>a, <2>1 DEF Repair, Edit
<1>4. ASSUME EnableSuperRole PROVE TablesTyped'
  BY <1>4, <1>a, <1>b, <1>c DEF EnableSuperRole, Change, Edit
<1>5. ASSUME NEW u \in Users, EditAccount(u) PROVE TablesTyped'
  BY <1>5, <1>a, <1>b, <1>c DEF EditAccount, Change, Edit
<1>6. ASSUME NEW u \in Users, Query(u) \/ Store(u) \/ LoadFails(u) PROVE TablesTyped'
  <2>1. CASE Query(u)
    BY <2>1 DEF Query
  <2>2. CASE Store(u)
    BY <2>2 DEF Store
  <2>3. CASE LoadFails(u)
    BY <2>3 DEF LoadFails
  <2> QED BY <1>6, <2>1, <2>2, <2>3
<1>7. UNCHANGED run
  BY DEF AppStep, EditMenu, Grant, Repair, EnableSuperRole, EditAccount, Query, Store, LoadFails, Edit
<1>8. TablesTyped'
  BY <1>1, <1>2, <1>3, <1>4, <1>5, <1>6 DEF AppStep
<1> QED BY <1>7, <1>8 DEF TypeOK, Tables, In

LEMMA Steps2 == Next <=> (\E r \in Runs : RunStep(r)) \/ AppStep
BY DEF Next, AppStep

-----------------------------------------------------------------------------
(* The initial states.                                                     *)

LEMMA MenusFit == \A menu \in Menus : menu \in [Ids -> Rows] /\ OthersApart(menu)
<1> DEFINE fits(m) == m \in [Ids -> Rows] /\ OthersApart(m)
<1>1. NoMenu \in [Ids -> Rows] /\ NoMenu["Other"] = NoRow
  BY IdsNamed, FilledFit DEF NoMenu
<1>2. /\ SeededMenu \in [Ids -> Rows]
      /\ SeededMenu["Page"] = Seeds[2] /\ SeededMenu["Read"] = Seeds[4] /\ SeededMenu["Other"] = NoRow
  BY <1>1, SeedMenusPlants DEF SeededMenu
<1>3. ASSUME NEW m \in [Ids -> Rows], m["Other"] = NoRow, NEW i \in Ids \ {"Other"}, NEW row \in Rows
      PROVE  [m EXCEPT ![i] = row] \in [Ids -> Rows] /\ [m EXCEPT ![i] = row]["Other"] = NoRow
  BY <1>3, IdsAre
<1>4. ASSUME NEW m \in [Ids -> Rows], m["Other"] = NoRow PROVE fits(m)
  BY <1>4, SeedNamesAre DEF OthersApart, NoRow, Row
<1>5. "Page" \in Ids \ {"Other"} /\ "Read" \in Ids \ {"Other"} /\ "Attachment" \in Ids \ {"Other"}
  BY IdsAre
<1>6. NoRow \in Rows
  BY FilledFit
<1>7. /\ [Seeds[4] EXCEPT !.pid = "System"] \in Rows /\ [Seeds[4] EXCEPT !.pid = "-"] \in Rows
      /\ [Seeds[2] EXCEPT !.ok = FALSE] \in Rows
  <2>1. Seeds[4] \in Filled /\ Seeds[2] \in Filled
    BY SeedsFit
  <2>2. \A row \in Filled : /\ [row EXCEPT !.ok = FALSE] \in Rows
                            /\ \A i \in Ids \cup {"-"} : [row EXCEPT !.pid = i] \in Rows
    BY FilledFit
  <2> QED BY <2>1, <2>2, IdsNamed
<1>8. fits(NoMenu) /\ fits(SeededMenu)
  BY <1>1, <1>2, <1>4
<1>9. fits([SeededMenu EXCEPT !["Attachment"] = NoRow, !["Read"].pid = "System"])
  <2> DEFINE m == [SeededMenu EXCEPT !["Attachment"] = NoRow]
  <2>1. m \in [Ids -> Rows] /\ m["Other"] = NoRow /\ m["Read"] = Seeds[4]
    BY <1>2, <1>3, <1>5, <1>6
  <2> HIDE DEF m
  <2>2. [m EXCEPT !["Read"] = [Seeds[4] EXCEPT !.pid = "System"]] = [m EXCEPT !["Read"].pid = "System"]
    BY <2>1
  <2>3. fits([m EXCEPT !["Read"].pid = "System"])
    BY <1>3, <1>4, <1>5, <1>7, <2>1, <2>2
  <2> QED BY <2>3 DEF m
<1>10. fits([SeededMenu EXCEPT !["Read"].pid = "-"])
  <2>1. [SeededMenu EXCEPT !["Read"].pid = "-"] = [SeededMenu EXCEPT !["Read"] = [Seeds[4] EXCEPT !.pid = "-"]]
    BY <1>2
  <2> QED BY <1>2, <1>3, <1>4, <1>5, <1>7, <2>1
<1>11. fits([SeededMenu EXCEPT !["Page"].ok = FALSE])
  <2>1. [SeededMenu EXCEPT !["Page"].ok = FALSE] = [SeededMenu EXCEPT !["Page"] = [Seeds[2] EXCEPT !.ok = FALSE]]
    BY <1>2
  <2> QED BY <1>2, <1>3, <1>4, <1>5, <1>7, <2>1
<1>12. ASSUME NEW row, row \in {Row("Other", "/system/page", "system:page", "menu", "-"),
                              Row("Other", "/shop", "shop:list", "menu", "-")}
       PROVE  fits([NoMenu EXCEPT !["Other"] = row])
  <2>1. row \in Rows /\ row.name = "Other"
    <3>1. CASE row = Row("Other", "/system/page", "system:page", "menu", "-")
      BY <3>1, IdsNamed DEF Row, Filled, Rows
    <3>2. CASE row = Row("Other", "/shop", "shop:list", "menu", "-")
      BY <3>2, IdsNamed DEF Row, Filled, Rows
    <3> QED BY <1>12, <3>1, <3>2
  <2> QED BY <1>1, <2>1, IdsAre, SeedNamesAre DEF OthersApart
<1> QED BY <1>8, <1>9, <1>10, <1>11, <1>12 DEF Menus

LEMMA BasesFit ==
    \A d \in Bases : /\ d \in Tables /\ OthersApart(d.menu)
                     /\ \A i \in d.grants : d.menu[i] # NoRow
<1>1. SeededMenu \in Menus
  BY DEF Menus
<1>2. ASSUME NEW menu \in Menus, NEW role \in {"default", "plain"},
             NEW d, d = InUse(menu, role)
      PROVE  d \in Tables /\ OthersApart(d.menu) /\ \A i \in d.grants : d.menu[i] # NoRow
  <2> DEFINE g == {i \in {"Page", "Other"} : menu[i] # NoRow}
  <2>1. g \in SUBSET Ids /\ \A i \in g : menu[i] # NoRow
    BY IdsAre
  <2> HIDE DEF g
  <2> QED BY <1>2, <2>1, MenusFit DEF InUse, Base, Tables, g
<1>3. ASSUME NEW menu \in Menus, NEW role \in {"none", "default", "plain", "blocked"},
             NEW root \in {"none", "live", "blocked"}, NEW other \in BOOLEAN,
             NEW d, d = Base(menu, role, root, other, {})
      PROVE  d \in Tables /\ OthersApart(d.menu) /\ \A i \in d.grants : d.menu[i] # NoRow
  BY <1>3, MenusFit DEF Base, Tables
<1> SUFFICES ASSUME NEW d \in Bases
             PROVE  d \in Tables /\ OthersApart(d.menu) /\ \A i \in d.grants : d.menu[i] # NoRow
  OBVIOUS
<1> DEFINE new == {Base(menu, "none", "none", FALSE, {}) : menu \in {m \in Menus : m["System"] = NoRow}}
           used == {InUse(menu, role) : menu \in Menus, role \in {"default", "plain"}}
           odd == {Base(SeededMenu, "blocked", "live", FALSE, {}), Base(SeededMenu, "plain", "blocked", FALSE, {}),
                   Base(SeededMenu, "plain", "live", TRUE, {})}
<1>4. CASE d \in new
  BY <1>3, <1>4
<1>5. CASE d \in used
  BY <1>2, <1>5
<1>6. CASE d \in odd
  BY <1>1, <1>3, <1>6
<1>7. Bases = new \cup used \cup odd
  BY DEF Bases
<1> HIDE DEF new, used, odd
<1> QED BY <1>4, <1>5, <1>6, <1>7

LEMMA InitInv == Init => Inv
<1> SUFFICES ASSUME Init PROVE Inv
  OBVIOUS
<1>1. db \in Tables /\ OthersApart(db.menu) /\ \A i \in db.grants : db.menu[i] # NoRow
  BY BasesFit DEF Init
<1>2. \A r \in Runs : run[r] = NotStarted
  BY DEF Init
<1>3. NotStarted \in Flows /\ NotStarted.pc = "new" /\ NotStarted.todo = {}
  BY DEF NotStarted, Flows, Places, Secrets
<1>4. TypeOK
  <2>1. TablesTyped
    <3>1. account \in [Users -> {"none", "live", "disabled", "gone"}] /\ file \in [Keys -> Secrets]
      BY DEF Init, Secrets
    <3>2. /\ entry \in [Users -> {"none", "right", "stale"}]
          /\ load \in [Users -> {"none", "right", "stale"}] /\ overtaken = {}
      BY DEF Init
    <3>3. roles \in [Users -> {{}, {"user"}, {"super"}}] /\ superRole \in {"none", "live", "disabled", "gone"}
      BY DEF Init
    <3>4. edits \in 0..MaxEdits /\ edited = {} /\ overlapped = FALSE /\ broken = {}
      BY SetupAssumption DEF Init
    <3> QED BY <1>1, <3>1, <3>2, <3>3, <3>4 DEF TablesTyped
  <2>2. run \in [Runs -> Flows]
    BY <1>3 DEF Init
  <2> QED BY <1>2, <1>3, <2>1, <2>2, TypeParts
<1>5. AccountsFit
  BY DEF Init, AccountsFit
<1>6. \A u, v \in Supers : u = v
  <2> DEFINE S == {u \in Users : "super" \in roles[u]}
  <2>1. IsFiniteSet(S)
    BY SetupAssumption, FS_Subset
  <2>2. \A u, v \in S : u = v
    BY <2>1, AtMostOne DEF Init
  <2> QED BY <2>2 DEF Supers
<1>7. ClearsAll /\ OneEnters /\ Chosen /\ SecretsFit
  BY <1>2, <1>3, <1>6 DEF ClearsAll, Committed, OneEnters, Entered, Chosen, SecretsFit, Intact, In, At
<1>8. SecretsOrStopped
  BY DEF Init, SecretsOrStopped, Supers
<1>9. \A r \in Runs : ~Committed(r)
  BY <1>2, <1>3 DEF Committed, In
<1> QED BY <1>1, <1>4, <1>5, <1>7, <1>8, <1>9 DEF Inv

-----------------------------------------------------------------------------
(* The base data.                                                          *)

\* A run gets past the base data by seeding it, and by nothing else.
LEMMA Commits ==
    ASSUME TypeOK, NEW r \in Runs, RunStep(r)
    PROVE  /\ Committed(r)' => Committed(r) \/ (Seed(r) /\ ~Refuses(db))
           /\ \A s \in Runs \ {r} : Committed(s)' <=> Committed(s)
<1> run[r] \in Flows /\ run \in [Runs -> Flows] /\ Moves(r)
  BY TypeParts, RunTyped
<1> USE DEF Flows
<1>0. \A s \in Runs \ {r} : Committed(s)' <=> Committed(s)
  BY DEF Moves, Committed, In
<1>1. CASE Start(r)
  BY <1>0, <1>1 DEF Start, Committed, In
<1>2. CASE Seed(r)
  BY <1>0, <1>2 DEF Seed, Goto, Committed, In
<1>3. ASSUME run[r].pc \in Steps \ {"seed"} PROVE Committed(r)
  BY <1>3 DEF Committed, In, Steps
<1>4. CASE FindSuper(r) \/ FindRole(r) \/ Create(r) \/ ReadSecrets(r) \/ Truncate(r) \/ WriteSecrets(r)
  BY <1>0, <1>3, <1>4 DEF FindSuper, FindRole, Create, ReadSecrets, Truncate, WriteSecrets, At, Steps
<1>5. ASSUME NEW batch \in SUBSET run[r].todo, Clear(r, batch) PROVE Committed(r)
  BY <1>3, <1>5 DEF Clear, At, Steps
<1>6. ASSUME NEW u \in Users, Ask(r, u) PROVE Committed(r)
  BY <1>3, <1>6 DEF Ask, At, Steps
<1>7. CASE Stop(r)
  BY <1>0, <1>7 DEF Stop, Goto, Committed, In
<1> QED BY <1>0, <1>1, <1>2, <1>4, <1>5, <1>6, <1>7 DEF RunStep

\* People's edits are told to every run that has committed.
LEMMA EditsAreSeen == ASSUME Edit PROVE \A r \in Runs \ edited' : ~Committed(r) /\ ~Committed(r)'
BY DEF Edit, Committed, In

DataFit == OthersApart(db.menu) /\ \A r \in Runs \ edited : Committed(r) => Complete(db)

LEMMA DataStays == ASSUME TypeOK, DataFit, Next PROVE DataFit'
<1>1. ASSUME NEW r \in Runs, RunStep(r) PROVE DataFit'
  <2>1. CASE Seed(r) /\ ~Refuses(db)
    <3>1. db' = Seeded(db)
      BY <2>1 DEF Seed
    <3>2. Complete(Seeded(db)) /\ OthersApart(Seeded(db).menu)
      BY <2>1, SeededComplete DEF DataFit
    <3> QED BY <3>1, <3>2 DEF DataFit
  <2>2. CASE ~(Seed(r) /\ ~Refuses(db))
    <3>1. UNCHANGED <<db, edited>>
      BY <1>1, <2>2 DEF RunStep, Start, Seed, FindSuper, FindRole, Create, Clear, Ask, ReadSecrets,
                        Truncate, WriteSecrets, Stop
    <3>2. \A s \in Runs : Committed(s)' => Committed(s)
      BY <1>1, <2>2, Commits
    <3> QED BY <3>1, <3>2 DEF DataFit
  <2> QED BY <2>1, <2>2
<1>2. CASE AppStep
  <2>1. ASSUME NEW u \in Users, Query(u) \/ Store(u) \/ LoadFails(u) PROVE DataFit'
    BY <2>1 DEF Query, Store, LoadFails, DataFit, Committed, In
  <2>2. ASSUME Edit, OthersApart(db'.menu) PROVE DataFit'
    BY <2>2, EditsAreSeen DEF DataFit
  <2>3. ASSUME NEW i \in Ids, EditMenu(i) PROVE OthersApart(db'.menu)
    <3>1. PICK row \in {[db.menu[i] EXCEPT !.ok = FALSE], [db.menu[i] EXCEPT !.pid = "-"],
                        [db.menu[i] EXCEPT !.name = "Mine"]} :
            db' = [db EXCEPT !.menu = [db.menu EXCEPT ![i] = row]]
      BY <2>3 DEF EditMenu
    <3>2. db.menu[i] \in Filled /\ db.menu \in [Ids -> Rows] /\ db'.menu = [db.menu EXCEPT ![i] = row]
      BY <2>3, <3>1, FilledFit DEF EditMenu, TypeOK
    <3>3. row.name \in {db.menu[i].name, "Mine"}
      BY <3>1, <3>2 DEF Filled
    <3> QED BY <3>2, <3>3, IdsNamed, SeedNamesAre DEF OthersApart, DataFit
  <2>4. ASSUME Repair PROVE db'.menu = db.menu
    <3>1. PICK d \in {[db EXCEPT !.role = "plain"], [db EXCEPT !.otherDefault = FALSE],
                      [db EXCEPT !.root = "live"]} : db' = d
      BY <2>4 DEF Repair
    <3> QED BY <3>1 DEF TypeOK
  <2>5. ASSUME NEW i \in Ids, Grant(i) PROVE db'.menu = db.menu
    BY <2>5 DEF Grant, TypeOK
  <2>6. ASSUME ~(\E u \in Users : Query(u) \/ Store(u) \/ LoadFails(u)) PROVE Edit /\ OthersApart(db'.menu)
    BY <1>2, <2>3, <2>4, <2>5, <2>6 DEF AppStep, EditMenu, Grant, Repair, EnableSuperRole, EditAccount, DataFit
  <2> QED BY <2>1, <2>2, <2>6
<1> QED BY <1>1, <1>2, Steps2

-----------------------------------------------------------------------------
(* Cached permissions.                                                     *)

\* Whom a run concerns itself with includes whose entries it makes wrong.
LEMMA OutdatedConcerned == \A d, e : Outdated(d, e) \subseteq Concerned
BY DEF Outdated, Concerned

LEMMA AccountsStay == ASSUME TypeOK, AccountsFit, Next PROVE AccountsFit'
<1> USE DEF AccountsFit, Concerned
<1>0. /\ account \in [Users -> {"none", "live", "disabled", "gone"}]
      /\ roles \in [Users -> {{}, {"user"}, {"super"}}]
      /\ entry \in [Users -> {"none", "right", "stale"}] /\ load \in [Users -> {"none", "right", "stale"}]
      /\ overtaken \subseteq Users /\ run \in [Runs -> Flows]
  BY TypeParts DEF TablesTyped
<1>1. ASSUME NEW r \in Runs, RunStep(r) PROVE AccountsFit'
  <2>1. CASE Seed(r) /\ ~Refuses(db)
    <3>1. \A u \in Users : entry'[u] = "stale" => u \in Concerned \/ u \in overtaken'
      BY <1>0, <2>1, OutdatedConcerned DEF Seed
    <3>2. \A u \in Users : /\ entry[u] = "none" => entry'[u] = "none"
                           /\ load[u] = "none" => load'[u] = "none"
      BY <1>0, <2>1 DEF Seed, Overtake
    <3> QED BY <2>1, <3>1, <3>2 DEF Seed
  <2>2. CASE Create(r)
    BY <1>0, <2>2 DEF Create, cache
  <2>3. ASSUME NEW batch \in SUBSET run[r].todo, Clear(r, batch) PROVE AccountsFit'
    BY <1>0, <2>3 DEF Clear, Forget
  <2>4. ASSUME UNCHANGED <<account, roles, superRole, cache>> PROVE AccountsFit'
    BY <2>4 DEF cache
  <2>5. CASE Seed(r) /\ Refuses(db)
    BY <2>4, <2>5 DEF Seed
  <2> QED BY <1>1, <2>1, <2>2, <2>3, <2>4, <2>5 DEF RunStep, Start, FindSuper, FindRole, Ask, ReadSecrets, Truncate,
                                                   WriteSecrets, Stop
<1>2. CASE AppStep
  <2>1. ASSUME NEW i \in Ids, EditMenu(i) PROVE AccountsFit'
    BY <1>0, <2>1 DEF EditMenu, Change, Forget, Overtake
  <2>2. ASSUME NEW i \in Ids, Grant(i) PROVE AccountsFit'
    BY <1>0, <2>2 DEF Grant, Change, Forget, Overtake
  <2>3. CASE Repair
    BY <2>3 DEF Repair, cache
  <2>4. CASE EnableSuperRole
    BY <1>0, <2>4 DEF EnableSuperRole, Change, Forget, Overtake
  <2>5. ASSUME NEW u \in Users, EditAccount(u) PROVE AccountsFit'
    <3>1. CASE account' = [account EXCEPT ![u] = "disabled"] /\ Forget({u}) /\ UNCHANGED <<roles, load>>
      BY <1>0, <2>5, <3>1 DEF EditAccount, Forget
    <3>2. CASE account' = [account EXCEPT ![u] = "gone"] /\ roles' = [roles EXCEPT ![u] = {}] /\ Change({u})
      BY <1>0, <2>5, <3>2 DEF EditAccount, Change, Forget, Overtake
    <3> QED BY <2>5, <3>1, <3>2 DEF EditAccount
  <2>6. ASSUME NEW u \in Users, Query(u) PROVE AccountsFit'
    BY <1>0, <2>6 DEF Query
  <2>7. ASSUME NEW u \in Users, Store(u) PROVE AccountsFit'
    BY <1>0, <2>7 DEF Store
  <2>8. ASSUME NEW u \in Users, LoadFails(u) PROVE AccountsFit'
    BY <1>0, <2>8 DEF LoadFails
  <2> QED BY <1>2, <2>1, <2>2, <2>3, <2>4, <2>5, <2>6, <2>7, <2>8 DEF AppStep
<1> QED BY <1>1, <1>2, Steps2

LEMMA ClearsStay == ASSUME TypeOK, DataFit, AccountsFit, ClearsAll, Next PROVE ClearsAll'
<1>0. /\ entry \in [Users -> {"none", "right", "stale"}] /\ run \in [Runs -> Flows]
      /\ overtaken \subseteq Users
  BY TypeParts DEF TablesTyped
<1>1. ASSUME NEW r \in Runs, RunStep(r) PROVE ClearsAll'
  <2>0. /\ Moves(r) /\ edited' = edited
        /\ \A s \in Runs \ {r} : Committed(s)' <=> Committed(s)
    BY <1>1, RunTyped, Commits DEF RunStep, Start, Seed, FindSuper, FindRole, Create, Clear, Ask, ReadSecrets,
                                   Truncate, WriteSecrets, Stop
  <2>a. ASSUME \A u \in Users : entry'[u] = "stale" => /\ entry[u] = "stale"
                                                       /\ u \in overtaken => u \in overtaken',
               r \notin edited /\ Committed(r)' => \A u \in Users : entry'[u] = "stale" =>
                   u \in overtaken' \/ (At(r, "clear")' /\ u \in run'[r].todo)
        PROVE  ClearsAll'
    <3>1. ASSUME NEW s \in Runs \ edited, s # r, Committed(s), NEW u \in Users, entry'[u] = "stale"
          PROVE  u \in overtaken' \/ (At(s, "clear")' /\ u \in run'[s].todo)
      <4>1. run'[s] = run[s]
        BY <2>0, <3>1 DEF Moves
      <4> QED BY <2>a, <3>1, <4>1 DEF ClearsAll, At
    <3> QED BY <2>0, <2>a, <3>1 DEF ClearsAll
  <2>1. CASE Seed(r) /\ ~Refuses(db)
    <3>1. ASSUME NEW s \in Runs \ edited, s # r, Committed(s) PROVE entry' = entry /\ overtaken' = overtaken
      <4>1. Outdated(db, Seeded(db)) = {}
        BY <3>1 DEF DataFit, Complete, Outdated
      <4> QED BY <1>0, <2>1, <4>1 DEF Seed
    <3>2. run'[r].pc = "clear" /\ run'[r].todo = Concerned
      <4>1. run' = [run EXCEPT ![r] = [run[r] EXCEPT !.pc = "clear", !.todo = Concerned]]
        BY <2>1 DEF Seed
      <4> QED BY <1>0, <4>1 DEF Flows
    <3>3. \A u \in Users : entry'[u] = "stale" => u \in Concerned \/ u \in overtaken'
      BY <1>0, <2>1, OutdatedConcerned DEF Seed, AccountsFit
    <3> QED BY <2>0, <3>1, <3>2, <3>3 DEF ClearsAll, Moves, At
  <2>2. CASE Seed(r) /\ Refuses(db)
    <3>1. ~Committed(r)' /\ UNCHANGED <<entry, overtaken>>
      BY <1>0, <2>2 DEF Seed, Goto, Committed, In, Flows, cache
    <3> QED BY <2>a, <3>1
  <2>3. ASSUME NEW batch \in SUBSET run[r].todo, Clear(r, batch) PROVE ClearsAll'
    <3>1. \A u \in Users : entry'[u] = "stale" => /\ entry[u] = "stale" /\ u \notin batch
                                                  /\ u \in overtaken => u \in overtaken'
      BY <1>0, <2>3 DEF Clear, Forget
    <3>2. run'[r].todo = run[r].todo \ batch /\ (run'[r].todo # {} => run'[r].pc = "clear")
      BY <1>0, <2>3 DEF Clear, Flows
    <3>3. Committed(r)
      BY <2>3 DEF Clear, At, Committed, In
    <3>4. ASSUME r \notin edited, NEW u \in Users, entry'[u] = "stale"
          PROVE  u \in overtaken' \/ (At(r, "clear")' /\ u \in run'[r].todo)
      <4>1. u \in overtaken \/ u \in run[r].todo
        BY <3>1, <3>3, <3>4 DEF ClearsAll
      <4> QED BY <3>1, <3>2, <3>4, <4>1 DEF At
    <3> QED BY <2>a, <3>1, <3>4
  <2>4. ASSUME UNCHANGED <<entry, overtaken>>, Committed(r)' => Committed(r) /\ ~At(r, "clear") PROVE ClearsAll'
    BY <2>a, <2>4 DEF ClearsAll
  <2>5. CASE Stop(r)
    <3>1. ~Committed(r)' /\ UNCHANGED <<entry, overtaken>>
      BY <1>0, <2>5 DEF Stop, Goto, Committed, In, Flows, cache
    <3> QED BY <2>4, <3>1
  <2>6. CASE Start(r)
    <3>1. ~Committed(r)' /\ UNCHANGED <<entry, overtaken>>
      BY <1>0, <2>6 DEF Start, Committed, In, Flows, cache
    <3> QED BY <2>4, <3>1
  <2>7. CASE FindSuper(r) \/ FindRole(r) \/ Create(r) \/ ReadSecrets(r) \/ Truncate(r) \/ WriteSecrets(r)
             \/ \E u \in Users : Ask(r, u)
    <3>1. /\ UNCHANGED <<entry, overtaken>> /\ ~At(r, "clear")
          /\ ~In(r, {"new", "seed", "refused", "stopped"})
      BY <2>7 DEF FindSuper, FindRole, Create, ReadSecrets, Truncate, WriteSecrets, Ask, At, In, cache
    <3> QED BY <2>4, <3>1 DEF Committed
  <2> QED BY <1>1, <2>1, <2>2, <2>3, <2>5, <2>6, <2>7 DEF RunStep
<1>2. CASE AppStep
  <2>1. ASSUME Edit PROVE ClearsAll'
    BY <2>1, EditsAreSeen DEF ClearsAll
  <2>2. ASSUME NEW u \in Users, Query(u) \/ Store(u) \/ LoadFails(u) PROVE ClearsAll'
    <3>1. UNCHANGED <<run, edited>>
      BY <2>2 DEF Query, Store, LoadFails
    <3>2. \A v \in Users : entry'[v] = "stale" =>
             v \in overtaken' \/ (entry[v] = "stale" /\ (v \in overtaken => v \in overtaken'))
      BY <1>0, <2>2 DEF Query, Store, LoadFails
    <3> QED BY <3>1, <3>2 DEF ClearsAll, Committed, At, In
  <2> QED BY <1>2, <2>1, <2>2 DEF AppStep, EditMenu, Grant, Repair, EnableSuperRole, EditAccount
<1> QED BY <1>1, <1>2, Steps2

-----------------------------------------------------------------------------
(* One super account.                                                      *)

\* Where each step of a run leads, and what else of the run it changes.
LEMMA Leads ==
    ASSUME TypeOK, NEW r \in Runs
    PROVE  /\ Start(r) => run'[r].pc = "seed" /\ run'[r].had = file
           /\ Seed(r) => run'[r].pc \in {"clear", "refused"} /\ run'[r].had = run[r].had
           /\ \A batch \in SUBSET run[r].todo :
                  Clear(r, batch) => run'[r].pc \in {"clear", "check"} /\ run'[r].had = run[r].had
           /\ FindSuper(r) => run'[r].pc \in {"skipped", "role"} /\ run'[r].had = run[r].had
           /\ FindRole(r) => run'[r].pc \in {"skipped", "ask"} /\ run'[r].had = run[r].had
           /\ \A u \in Users :
                  Ask(r, u) => run'[r].pc = "create" /\ run'[r].as = {u} /\ run'[r].had = run[r].had
           /\ Create(r) => run'[r].pc \in {"refused", "secrets"} /\ run'[r].had = run[r].had
           /\ ReadSecrets(r) => /\ run'[r].pc = IF Generated(r) = file THEN "done" ELSE "truncate"
                                /\ run'[r].had = run[r].had /\ run'[r].put = Generated(r)
           /\ Truncate(r) => run'[r].pc = "write" /\ run'[r].had = run[r].had /\ run'[r].put = run[r].put
           /\ WriteSecrets(r) => run'[r].pc = "done" /\ run'[r].had = run[r].had
           /\ Stop(r) => run'[r].pc = "stopped" /\ run'[r].had = run[r].had
<1> run \in [Runs -> Flows] /\ run[r] \in Flows
  BY TypeParts
<1> USE DEF Flows, Goto
<1>1. Start(r) => run'[r].pc = "seed" /\ run'[r].had = file
  BY DEF Start
<1>2. Seed(r) => run'[r].pc \in {"clear", "refused"} /\ run'[r].had = run[r].had
  <2>1. CASE Refuses(db)
    BY <2>1 DEF Seed
  <2>2. ASSUME Seed(r), ~Refuses(db) PROVE run'[r].pc = "clear" /\ run'[r].had = run[r].had
    <3>1. run' = [run EXCEPT ![r] = [run[r] EXCEPT !.pc = "clear", !.todo = Concerned]]
      BY <2>2 DEF Seed
    <3> QED BY <3>1
  <2> QED BY <2>1, <2>2
<1>3. \A batch \in SUBSET run[r].todo :
          Clear(r, batch) => run'[r].pc \in {"clear", "check"} /\ run'[r].had = run[r].had
  BY DEF Clear
<1>4. FindSuper(r) => run'[r].pc \in {"skipped", "role"} /\ run'[r].had = run[r].had
  BY DEF FindSuper
<1>5. FindRole(r) => run'[r].pc \in {"skipped", "ask"} /\ run'[r].had = run[r].had
  BY DEF FindRole
<1>6. \A u \in Users : Ask(r, u) => run'[r].pc = "create" /\ run'[r].as = {u} /\ run'[r].had = run[r].had
  BY DEF Ask
<1>7. Create(r) => run'[r].pc \in {"refused", "secrets"} /\ run'[r].had = run[r].had
  BY DEF Create
<1>8. ReadSecrets(r) => /\ run'[r].pc = IF Generated(r) = file THEN "done" ELSE "truncate"
                       /\ run'[r].had = run[r].had /\ run'[r].put = Generated(r)
  BY DEF ReadSecrets
<1>9. Truncate(r) => run'[r].pc = "write" /\ run'[r].had = run[r].had /\ run'[r].put = run[r].put
  BY DEF Truncate
<1>10. WriteSecrets(r) => run'[r].pc = "done" /\ run'[r].had = run[r].had
  BY DEF WriteSecrets
<1>11. Stop(r) => run'[r].pc = "stopped" /\ run'[r].had = run[r].had
  BY DEF Stop
<1> QED BY <1>1, <1>2, <1>3, <1>4, <1>5, <1>6, <1>7, <1>8, <1>9, <1>10, <1>11

\* Which runs are between the check and the last write after a step.
LEMMA Enters ==
    ASSUME TypeOK, NEW r \in Runs, RunStep(r)
    PROVE  /\ \A s \in Runs : Entered(s)' => Entered(s) \/ (s = r /\ FindSuper(r))
           /\ \A s \in Runs, p \in Places : s # r => (At(s, p)' <=> At(s, p))
           /\ In(r, {"role", "ask", "create"})' => FindSuper(r) \/ In(r, {"role", "ask"})
<1>1. \A s \in Runs \ {r} : run'[s] = run[s]
  BY RunTyped DEF Moves
<1>2. /\ Entered(r)' => Entered(r) \/ FindSuper(r)
      /\ In(r, {"role", "ask", "create"})' => FindSuper(r) \/ In(r, {"role", "ask"})
  <2> USE DEF Entered, In
  <2>1. CASE Start(r) \/ Seed(r) \/ Stop(r) \/ WriteSecrets(r)
    BY <2>1, Leads
  <2>2. CASE FindRole(r)
    BY <2>2, Leads DEF FindRole, At
  <2>3. CASE Create(r)
    BY <2>3, Leads DEF Create, At
  <2>4. CASE ReadSecrets(r)
    <3>1. At(r, "secrets") /\ run'[r].pc \in {"done", "truncate"}
      BY <2>4, Leads DEF ReadSecrets
    <3> QED BY <3>1 DEF At
  <2>5. CASE Truncate(r)
    BY <2>5, Leads DEF Truncate, At
  <2>6. ASSUME NEW batch \in SUBSET run[r].todo, Clear(r, batch)
        PROVE  ~Entered(r)'
    BY <2>6, Leads
  <2>7. ASSUME NEW u \in Users, Ask(r, u) PROVE In(r, {"role", "ask"})
    BY <2>7 DEF Ask, At
  <2>8. CASE \E batch \in SUBSET run[r].todo : Clear(r, batch)
    BY <2>6, <2>8
  <2>9. CASE \E u \in Users : Ask(r, u)
    BY <2>7, <2>9
  <2> QED BY <2>1, <2>2, <2>3, <2>4, <2>5, <2>8, <2>9 DEF RunStep
<1> QED BY <1>1, <1>2 DEF Entered, At, In

LEMMA ChosenStays == ASSUME TypeOK, Chosen, Next PROVE Chosen'
<1>0. run \in [Runs -> Flows]
  BY TypeParts
<1>1. ASSUME NEW r \in Runs, RunStep(r) PROVE Chosen'
  <2>1. \A s \in Runs \ {r} : run'[s] = run[s]
    BY <1>1, RunTyped DEF Moves
  <2>2. At(r, "create")' => \E u \in Users : Ask(r, u)
    <3>1. ASSUME NEW p, Goto(r, p) PROVE run'[r].pc = p
      BY <1>0, <3>1 DEF Goto, Flows
    <3>2. CASE Start(r)
      <4>1. run'[r].pc = "seed"
        BY <1>0, <3>2 DEF Start, Flows
      <4> QED BY <4>1 DEF At
    <3>3. CASE Seed(r)
      <4>1. run'[r].pc \in {"refused", "clear"}
        BY <1>0, <3>1, <3>3 DEF Seed, Flows
      <4> QED BY <4>1 DEF At
    <3>4. CASE FindSuper(r) \/ FindRole(r) \/ Create(r)
      <4>1. run'[r].pc \in {"skipped", "role", "ask", "refused", "secrets"}
        BY <3>1, <3>4 DEF FindSuper, FindRole, Create
      <4> QED BY <4>1 DEF At
    <3>5. ASSUME NEW batch \in SUBSET run[r].todo, Clear(r, batch)
          PROVE  ~At(r, "create")'
      <4>1. run'[r].pc \in {"check", "clear"}
        BY <1>0, <3>5 DEF Clear, Flows
      <4> QED BY <4>1 DEF At
    <3>6. CASE ReadSecrets(r)
      <4>1. run'[r].pc \in {"done", "truncate"}
        BY <1>0, <3>6 DEF ReadSecrets, Flows
      <4> QED BY <4>1 DEF At
    <3>7. CASE Truncate(r) \/ WriteSecrets(r) \/ Stop(r)
      <4>1. run'[r].pc \in {"write", "done", "stopped"}
        BY <3>1, <3>7 DEF Truncate, WriteSecrets, Stop
      <4> QED BY <4>1 DEF At
    <3> QED BY <1>1, <3>2, <3>3, <3>4, <3>5, <3>6, <3>7 DEF RunStep
  <2>3. \A u \in Users : Ask(r, u) => run'[r].as = {u}
    BY <1>0 DEF Ask, Flows
  <2> QED BY <2>1, <2>2, <2>3 DEF Chosen, At
<1>2. CASE AppStep
  BY <1>2 DEF AppStep, EditMenu, Grant, Repair, EnableSuperRole, EditAccount, Query, Store, LoadFails, Edit, Chosen, At
<1> QED BY <1>1, <1>2, Steps2

LEMMA OneStays == ASSUME TypeOK, Chosen, OneEnters, Next PROVE OneEnters'
<1>0. /\ account \in [Users -> {"none", "live", "disabled", "gone"}]
      /\ roles \in [Users -> {{}, {"user"}, {"super"}}]
      /\ run \in [Runs -> Flows] /\ overlapped \in BOOLEAN
  BY TypeParts DEF TablesTyped
<1>1. ASSUME NEW r \in Runs, RunStep(r) PROVE OneEnters'
  <2>0. Moves(r) /\ \A s \in Runs \ {r} : run'[s] = run[s]
    BY <1>1, RunTyped DEF Moves
  <2>1. CASE FindSuper(r)
    <3>1. CASE superRole # "gone" /\ Supers # {}
      <4>1. ~Entered(r)' /\ UNCHANGED <<overlapped, superRole, Supers>>
        BY <1>0, <2>1, <3>1 DEF FindSuper, Goto, Entered, In, Supers, Flows
      <4> QED BY <2>0, <4>1 DEF OneEnters, Entered, In
    <3>2. CASE ~(superRole # "gone" /\ Supers # {})
      <4>1. UNCHANGED <<superRole, Supers>>
        BY <2>1 DEF FindSuper, Supers
      <4>2. overlapped' = (overlapped \/ \E s \in Runs \ {r} : Entered(s))
        BY <2>1, <3>2 DEF FindSuper, Entered
      <4> QED BY <1>0, <2>0, <3>2, <4>1, <4>2 DEF OneEnters, Entered, In
    <3> QED BY <3>1, <3>2
  <2>2. CASE Create(r)
    <3>1. overlapped' = overlapped /\ (\A s \in Runs : Entered(s)' => Entered(s))
      BY <1>1, <2>2, Enters DEF Create, FindSuper, At
    <3>2. ~In(r, {"role", "ask", "create"})'
      BY <1>0, <2>2 DEF Create, Goto, In, Flows
    <3>3. CASE UNCHANGED <<account, roles, superRole>>
      <4>1. Supers' = Supers
        BY <3>3 DEF Supers
      <4> QED BY <2>0, <3>1, <3>2, <3>3, <4>1 DEF OneEnters, In
    <3>4. CASE /\ superRole' = "live" /\ superRole # "gone"
               /\ account' = [u \in Users |-> IF u \in run[r].as THEN "live" ELSE account[u]]
               /\ roles' = [u \in Users |-> IF u \in run[r].as THEN {"super"} ELSE roles[u]]
      <4>1. PICK u \in Users : run[r].as = {u}
        BY <2>2 DEF Create, Chosen
      <4>2. Supers' \subseteq Supers \cup {u}
        BY <1>0, <3>4, <4>1 DEF Supers
      <4>3. Entered(r) /\ In(r, {"role", "ask", "create"})
        BY <2>2 DEF Create, At, In, Entered
      <4>4. ASSUME ~overlapped PROVE Supers = {} /\ \A s \in Runs : Entered(s)' => s = r
        BY <3>1, <3>4, <4>3, <4>4 DEF OneEnters
      <4>5. \A s \in Runs : In(s, {"role", "ask", "create"})' => Entered(s)'
        BY DEF In, Entered
      <4> QED BY <3>1, <3>2, <4>2, <4>4, <4>5 DEF OneEnters
    <3> QED BY <2>2, <3>3, <3>4 DEF Create
  <2>3. ASSUME ~FindSuper(r), UNCHANGED <<account, roles, superRole, overlapped>> PROVE OneEnters'
    <3>1. Supers' = Supers
      BY <2>3 DEF Supers
    <3>2. \A s \in Runs : Entered(s)' => Entered(s)
      BY <1>1, <2>3, Enters
    <3>3. \A s \in Runs : In(s, {"role", "ask", "create"})' => In(s, {"role", "ask", "create"})
      BY <1>1, <2>0, <2>3, Enters DEF In
    <3> QED BY <2>3, <3>1, <3>2, <3>3 DEF OneEnters
  <2> QED BY <1>1, <2>1, <2>2, <2>3 DEF RunStep, Start, Seed, FindRole, Clear, Ask, ReadSecrets, Truncate,
                                        WriteSecrets, Stop
<1>2. CASE AppStep
  <2>1. UNCHANGED <<run, overlapped>> /\ (superRole = "gone" => superRole' = "gone")
    BY <1>2 DEF AppStep, EditMenu, Grant, Repair, EnableSuperRole, EditAccount, Query, Store, LoadFails, Edit
  <2>2. Supers' \subseteq Supers
    <3>1. ASSUME NEW u \in Users, EditAccount(u) PROVE Supers' \subseteq Supers
      BY <1>0, <3>1 DEF EditAccount, Supers
    <3>2. ASSUME UNCHANGED <<account, roles>> PROVE Supers' \subseteq Supers
      BY <3>2 DEF Supers
    <3> QED BY <1>2, <3>1, <3>2 DEF AppStep, EditMenu, Grant, Repair, EnableSuperRole, Query, Store, LoadFails
  <2> QED BY <2>1, <2>2 DEF OneEnters, Entered, In
<1> QED BY <1>1, <1>2, Steps2

-----------------------------------------------------------------------------
(* The secrets.                                                            *)

\* Outside the file's own steps, a run changes neither the file nor what it holds for it.
LEMMA SecretsApart ==
    ASSUME TypeOK, NEW r \in Runs, RunStep(r),
           ~Start(r), ~ReadSecrets(r), ~Truncate(r), ~WriteSecrets(r), ~Stop(r)
    PROVE  /\ file' = file /\ broken' = broken /\ run'[r].had = run[r].had
           /\ ~In(r, {"new", "secrets", "truncate", "write"})
           /\ ~In(r, {"new", "truncate", "write"})'
<1> USE DEF In, At
<1>1. CASE Seed(r)
  BY <1>1, Leads DEF Seed
<1>2. ASSUME NEW batch \in SUBSET run[r].todo, Clear(r, batch)
      PROVE  /\ file' = file /\ broken' = broken /\ run'[r].had = run[r].had
             /\ run[r].pc = "clear" /\ run'[r].pc \in {"clear", "check"}
  BY <1>2, Leads DEF Clear
<1>3. CASE FindSuper(r)
  BY <1>3, Leads DEF FindSuper
<1>4. CASE FindRole(r)
  BY <1>4, Leads DEF FindRole
<1>5. ASSUME NEW u \in Users, Ask(r, u)
      PROVE  /\ file' = file /\ broken' = broken /\ run'[r].had = run[r].had
             /\ run[r].pc = "ask" /\ run'[r].pc = "create"
  BY <1>5, Leads DEF Ask
<1>6. CASE Create(r)
  BY <1>6, Leads DEF Create
<1>7. CASE \E batch \in SUBSET run[r].todo : Clear(r, batch)
  BY <1>2, <1>7
<1>8. CASE \E u \in Users : Ask(r, u)
  BY <1>5, <1>8
<1> QED BY <1>1, <1>3, <1>4, <1>6, <1>7, <1>8 DEF RunStep

\* Runs that overlap and files left open are remembered.
LEMMA Remembered ==
    ASSUME TypeOK, NEW r \in Runs, RunStep(r)
    PROVE  /\ overlapped => overlapped'
           /\ broken \subseteq broken'
           /\ Stop(r) => run[r].pc \in broken'
<1> overlapped \in BOOLEAN
  BY TypeParts DEF TablesTyped
<1>1. FindSuper(r) => (overlapped => overlapped') /\ broken' = broken
  BY DEF FindSuper
<1>2. Stop(r) => overlapped' = overlapped /\ broken \subseteq broken' /\ run[r].pc \in broken'
  BY DEF Stop
<1>3. ~FindSuper(r) /\ ~Stop(r) => overlapped' = overlapped /\ broken' = broken
  BY DEF RunStep, Start, Seed, FindRole, Clear, Ask, Create, ReadSecrets, Truncate, WriteSecrets
<1> QED BY <1>1, <1>2, <1>3

LEMMA SecretsStay == ASSUME TypeOK, OneEnters, SecretsFit, Next PROVE SecretsFit'
<1>0. run \in [Runs -> Flows] /\ file \in [Keys -> Secrets] /\ "empty" \notin Runs
  BY TypeParts, SetupAssumption DEF TablesTyped
<1>1. ASSUME NEW r \in Runs, RunStep(r) PROVE SecretsFit'
  <2> SUFFICES ASSUME ~overlapped', "write" \notin broken' PROVE Intact'
    BY DEF SecretsFit
  <2>0. Intact /\ \A s, t \in Runs : Entered(s) /\ Entered(t) => s = t
    BY <1>1, Remembered DEF SecretsFit, OneEnters
  <2>a. \A s \in Runs \ {r} : run'[s] = run[s]
    BY <1>1, RunTyped DEF Moves
  <2>b. ASSUME In(r, {"secrets", "truncate", "write"})
        PROVE  \A s \in Runs \ {r} : ~In(s, {"truncate", "write"})
    BY <2>0, <2>b DEF Entered, In
  <2> USE DEF Intact, At, In
  <2>1. CASE Start(r)
    <3>1. file' = file /\ run'[r].pc = "seed" /\ run'[r].had = file /\ run[r].pc = "new"
      BY <2>1, Leads DEF Start
    <3> QED BY <2>0, <2>a, <3>1
  <2>2. CASE ReadSecrets(r)
    <3>1. /\ file' = file /\ run'[r].had = run[r].had /\ run'[r].put = Generated(r)
          /\ run[r].pc = "secrets" /\ run'[r].pc \in {"done", "truncate"}
      BY <2>2, Leads DEF ReadSecrets
    <3>2. ASSUME NEW k \in Keys PROVE Generated(r)[k] # "empty" /\ file[k] \in {"empty", Generated(r)[k]}
      <4>1. run[r].had[k] # "empty" => file[k] = run[r].had[k]
        BY <2>0, <2>b, <3>1
      <4> QED BY <1>0, <4>1 DEF Generated
    <3> QED BY <2>0, <2>a, <2>b, <3>1, <3>2
  <2>3. CASE Truncate(r)
    <3>1. /\ run'[r].pc = "write" /\ run'[r].had = run[r].had /\ run'[r].put = run[r].put
          /\ run[r].pc = "truncate" /\ \A k \in Keys : file'[k] = "empty"
      BY <2>3, Leads DEF Truncate
    <3>2. \A s \in Runs, k \in Keys : ~At(s, "new") /\ run[s].had[k] # "empty" => run[r].put[k] = run[s].had[k]
      BY <2>0, <2>b, <3>1
    <3> QED BY <2>0, <2>a, <2>b, <3>1, <3>2
  <2>4. CASE WriteSecrets(r)
    <3>1. /\ run'[r].pc = "done" /\ run'[r].had = run[r].had
          /\ run[r].pc = "write" /\ file' = run[r].put
      BY <2>4, Leads DEF WriteSecrets
    <3>2. \A s \in Runs, k \in Keys : ~At(s, "new") /\ run[s].had[k] # "empty" => file'[k] = run[s].had[k]
      BY <2>0, <3>1
    <3> QED BY <2>a, <2>b, <3>1, <3>2
  <2>5. CASE Stop(r)
    <3>1. /\ run'[r].pc = "stopped" /\ run'[r].had = run[r].had /\ file' = file
          /\ run[r].pc \notin {"new", "write"}
      BY <1>1, <2>5, Leads, Remembered DEF Stop, Steps
    <3> QED BY <2>0, <2>a, <3>1
  <2>6. CASE ~Start(r) /\ ~ReadSecrets(r) /\ ~Truncate(r) /\ ~WriteSecrets(r) /\ ~Stop(r)
    <3>1. /\ file' = file /\ run'[r].had = run[r].had
          /\ ~In(r, {"new", "secrets", "truncate", "write"})
          /\ ~In(r, {"new", "truncate", "write"})'
      BY <1>1, <2>6, SecretsApart
    <3> QED BY <2>0, <2>a, <3>1
  <2> QED BY <2>1, <2>2, <2>3, <2>4, <2>5, <2>6
<1>2. CASE AppStep
  <2>1. UNCHANGED <<run, file, overlapped, broken>>
    BY <1>2 DEF AppStep, EditMenu, Grant, Repair, EnableSuperRole, EditAccount, Query, Store, LoadFails, Edit
  <2> QED BY <2>1 DEF SecretsFit, Intact, At, In
<1> QED BY <1>1, <1>2, Steps2

\* Only a run makes a super account.
LEMMA SupersStay ==
    ASSUME TypeOK, Next
    PROVE  Supers' \subseteq Supers \/ \E r \in Runs : Create(r) /\ run'[r].pc = "secrets"
<1>0. /\ account \in [Users -> {"none", "live", "disabled", "gone"}]
      /\ roles \in [Users -> {{}, {"user"}, {"super"}}] /\ run \in [Runs -> Flows]
  BY TypeParts DEF TablesTyped
<1>1. ASSUME UNCHANGED <<account, roles>> PROVE Supers' \subseteq Supers
  BY <1>1 DEF Supers
<1>2. ASSUME NEW u \in Users, EditAccount(u) PROVE Supers' \subseteq Supers
  BY <1>0, <1>2 DEF EditAccount, Supers
<1>3. CASE AppStep
  BY <1>1, <1>2, <1>3 DEF AppStep, EditMenu, Grant, Repair, EnableSuperRole, Query, Store, LoadFails
<1>4. ASSUME NEW r \in Runs, Create(r) PROVE UNCHANGED <<account, roles>> \/ run'[r].pc = "secrets"
  BY <1>0, <1>4 DEF Create, Goto, Flows
<1>5. ASSUME NEW r \in Runs, RunStep(r), ~Create(r) PROVE UNCHANGED <<account, roles>>
  BY <1>5 DEF RunStep, Start, Seed, FindSuper, FindRole, Clear, Ask, ReadSecrets, Truncate, WriteSecrets, Stop
<1> QED BY <1>1, <1>3, <1>4, <1>5, Steps2

LEMMA SecretsOrStoppedStays ==
    ASSUME TypeOK, OneEnters, SecretsFit, SecretsOrStopped, Next
    PROVE  SecretsOrStopped'
<1>0. run \in [Runs -> Flows] /\ file \in [Keys -> Secrets] /\ "empty" \notin Runs
  BY TypeParts, SetupAssumption DEF TablesTyped
<1> DEFINE late == {"secrets", "truncate", "write"}
<1>1. CASE AppStep
  <2>1. UNCHANGED <<run, file, overlapped, broken>>
    BY <1>1 DEF AppStep, EditMenu, Grant, Repair, EnableSuperRole, EditAccount, Query, Store, LoadFails, Edit
  <2>2. Supers' \subseteq Supers
    BY <1>1, SupersStay DEF AppStep, EditMenu, Grant, Repair, EnableSuperRole, EditAccount, Query, Store, LoadFails, Edit, Create, At
  <2> QED BY <2>1, <2>2 DEF SecretsOrStopped, In
<1>2. ASSUME NEW r \in Runs, RunStep(r) PROVE SecretsOrStopped'
  <2>a. \A s \in Runs \ {r} : run'[s] = run[s]
    BY <1>2, RunTyped DEF Moves
  <2>b. (overlapped => overlapped') /\ broken \subseteq broken'
    BY <1>2, Remembered
  <2>c. ASSUME In(r, late), ~overlapped, "write" \notin broken
        PROVE  Intact /\ \A s \in Runs \ {r} : ~In(s, late)
    BY <2>c DEF SecretsFit, OneEnters, Entered, In
  <2>1. ASSUME In(r, late)' PROVE SecretsOrStopped'
    BY <2>1 DEF SecretsOrStopped
  <2>2. ASSUME \A k \in Keys : file'[k] # "empty" PROVE SecretsOrStopped'
    BY <2>2 DEF SecretsOrStopped
  <2>3. ASSUME overlapped \/ broken \cap late # {} PROVE SecretsOrStopped'
    BY <2>3, <2>b DEF SecretsOrStopped
  <2>4. CASE ReadSecrets(r) /\ ~overlapped /\ "write" \notin broken
    <3>1. run[r].pc = "secrets" /\ file' = file /\ run'[r].pc = IF Generated(r) = file THEN "done" ELSE "truncate"
      BY <2>4, Leads DEF ReadSecrets, At
    <3>2. Intact /\ \A s \in Runs : ~At(s, "write")
      BY <2>4, <2>c, <3>1 DEF In, At
    <3>3. \A k \in Keys : run[r].had[k] # "empty" => file[k] = run[r].had[k]
      BY <3>1, <3>2 DEF Intact, At
    <3>4. CASE Generated(r) = file
      <4>1. ASSUME NEW k \in Keys, file[k] = "empty" PROVE Generated(r)[k] = r
        BY <3>3, <4>1 DEF Generated
      <4>2. \A k \in Keys : file[k] # "empty"
        BY <1>0, <3>4, <4>1
      <4> QED BY <2>2, <3>1, <4>2
    <3>5. CASE Generated(r) # file
      BY <2>1, <3>1, <3>5 DEF In
    <3> QED BY <3>4, <3>5
  <2>5. CASE Truncate(r)
    BY <2>1, <2>5, Leads DEF In
  <2>6. CASE WriteSecrets(r) /\ ~overlapped /\ "write" \notin broken
    <3>1. In(r, late) /\ In(r, {"truncate", "write"}) /\ file' = run[r].put
      BY <2>6 DEF WriteSecrets, At, In
    <3> QED BY <2>2, <2>6, <2>c, <3>1 DEF Intact
  <2>7. CASE Stop(r) /\ In(r, late)
    <3>1. run[r].pc \in broken' /\ run[r].pc \in late
      BY <1>2, <2>7, Remembered DEF In
    <3> QED BY <3>1 DEF SecretsOrStopped
  <2>8. CASE Create(r) /\ run'[r].pc = "secrets"
    BY <2>1, <2>8 DEF In
  <2>9. ASSUME file' = file, Supers' \subseteq Supers, ~In(r, late) PROVE SecretsOrStopped'
    <3>1. \A s \in Runs : In(s, late) => In(s, late)'
      BY <2>9, <2>a DEF In
    <3> QED BY <2>b, <2>9, <3>1 DEF SecretsOrStopped
  <2>10. CASE Start(r) \/ (Stop(r) /\ ~In(r, late))
    <3>1. UNCHANGED <<file, account, roles>> /\ ~In(r, late)
      BY <2>10 DEF Start, Stop, At, In
    <3>2. Supers' = Supers
      BY <3>1 DEF Supers
    <3> QED BY <2>9, <3>1, <3>2
  <2>11. CASE /\ ~Start(r) /\ ~ReadSecrets(r) /\ ~Truncate(r) /\ ~WriteSecrets(r) /\ ~Stop(r)
              /\ ~(Create(r) /\ run'[r].pc = "secrets")
    <3>1. file' = file /\ ~In(r, late)
      BY <1>2, <2>11, SecretsApart DEF In
    <3>2. \A s \in Runs : Create(s) /\ run'[s].pc = "secrets" => s = r
      BY <2>a DEF Create, At
    <3>3. Supers' \subseteq Supers
      BY <2>11, <3>2, SupersStay
    <3> QED BY <2>9, <3>1, <3>3
  <2> QED BY <2>3, <2>4, <2>5, <2>6, <2>7, <2>8, <2>10, <2>11
<1> QED BY <1>1, <1>2, Steps2

-----------------------------------------------------------------------------
(* The invariant holds, and what follows from it.                          *)

LEMMA InvStays == Inv /\ [Next]_vars => Inv'
<1>1. ASSUME Inv, Next PROVE Inv'
  <2>1. TypeOK'
    BY <1>1, RunStepTyped, AppStepTyped, Steps2 DEF Inv
  <2>2. DataFit'
    BY <1>1, DataStays DEF Inv, DataFit
  <2>3. AccountsFit'
    BY <1>1, AccountsStay DEF Inv
  <2>4. ClearsAll'
    BY <1>1, ClearsStay DEF Inv, DataFit
  <2>5. OneEnters' /\ Chosen'
    BY <1>1, OneStays, ChosenStays DEF Inv
  <2>6. SecretsFit' /\ SecretsOrStopped'
    BY <1>1, SecretsStay, SecretsOrStoppedStays DEF Inv
  <2> QED BY <2>1, <2>2, <2>3, <2>4, <2>5, <2>6 DEF Inv, DataFit
<1>2. ASSUME Inv, UNCHANGED vars PROVE Inv'
  <2> USE <1>2 DEF vars, cache, In, At
  <2>1. TypeOK'
    BY DEF Inv, TypeOK
  <2>a. DataFit'
    BY DEF Inv, DataFit, Committed
  <2>2. AccountsFit' /\ ClearsAll'
    BY DEF Inv, AccountsFit, ClearsAll, Committed, Concerned
  <2>3. Supers' = Supers
    BY DEF Supers
  <2>4. OneEnters' /\ Chosen' /\ SecretsOrStopped'
    BY <2>3 DEF Inv, OneEnters, Entered, Chosen, SecretsOrStopped
  <2>5. SecretsFit'
    BY DEF Inv, SecretsFit, Intact
  <2> QED BY <2>1, <2>a, <2>2, <2>4, <2>5 DEF Inv, DataFit
<1> QED BY <1>1, <1>2

LEMMA InvHolds == Spec => []Inv
BY InitInv, InvStays, PTL DEF Spec

\* The variables keep their types: an account has one role at most, users are granted
\* menus that exist, and a run has users left to clear only while it clears.
THEOREM TypeCorrect == Spec => []TypeOK
<1>1. Inv => TypeOK
  BY DEF Inv
<1> QED BY <1>1, InvHolds, PTL

\* Running setup again, after whatever became of the last run, refuses nothing and
\* changes nothing until people change the rows (seedBaseData).
THEOREM Rerun == Spec => []RerunChangesNothing
<1>1. Inv => RerunChangesNothing
  BY DEF Inv, Complete, RerunChangesNothing
<1> QED BY <1>1, InvHolds, PTL

\* A run past clearing leaves nobody with the permissions of before, though the run
\* that changed them stopped before it had cleared them (clearSetupPermissions), but
\* for a request that had read before a commit and stores after the deletion
\* (getEffectivePermissionsByUserId).
THEOREM NothingStale == Spec => []StaleCleared
<1>1. Inv => StaleCleared
  BY DEF Inv, ClearsAll, StaleCleared
<1> QED BY <1>1, InvHolds, PTL

\* Without overlapping runs there is never a second super account, whatever people
\* disable or delete in between (main).
THEOREM OneSuper == Spec => []SecondSuperNeedsOverlap
<1>1. Inv => SecondSuperNeedsOverlap
  <2> SUFFICES ASSUME Inv, ~overlapped PROVE Cardinality(Supers) <= 1
    BY DEF SecondSuperNeedsOverlap
  <2>1. IsFiniteSet(Supers)
    BY SetupAssumption, FS_Subset DEF Supers
  <2>2. \A u, v \in Supers : u = v
    BY DEF Inv, OneEnters
  <2> QED BY <2>1, <2>2, AtMostOne
<1> QED BY <1>1, InvHolds, PTL

\* A super account is left without JWT secrets only by a run that stopped between the
\* two or by runs that overlapped (main, writeJwtSecrets).
THEOREM SecretsFollow == Spec => []SecretsOrStopped
<1>1. Inv => SecretsOrStopped
  BY DEF Inv
<1> QED BY <1>1, InvHolds, PTL

\* A secret the file had when a run began is in it still, unless runs overlapped or one
\* stopped while the file was open (writeJwtSecrets).
THEOREM SecretsStayKept == Spec => []SecretsKept
<1>1. Inv => SecretsKept
  BY DEF Inv, SecretsFit, Intact, SecretsKept, Committed, In, At
<1> QED BY <1>1, InvHolds, PTL

=============================================================================
