------------------------------- MODULE Setup -------------------------------
(***************************************************************************)
(* scripts/setup.ts: `pnpm setup`, run by hand, again after a failure, or  *)
(* twice at once. A run seeds the base data in one transaction, deletes    *)
(* cached permissions, creates the super account in a second transaction   *)
(* and then writes missing JWT secrets to the environment file. It may     *)
(* stop at any await. In between people change the tables through the      *)
(* application, which deletes the cache entries its writes concern, and    *)
(* requests read the tables and store what they have read.                 *)
(***************************************************************************)
EXTENDS Naturals, Sequences, FiniteSets

CONSTANTS
    Users,     \* accounts, the ones to be created included
    Runs,      \* runs of setup; the secrets a run generates are named after it
    Keys,      \* JWT_SECRET, REFRESH_TOKEN_SECRET
    MaxEdits,  \* bound on what people change
    MaxLoads   \* bound on the users whose requests load their permissions at a time

ASSUME SetupAssumption ==
    /\ IsFiniteSet(Users) /\ MaxEdits \in Nat /\ MaxLoads \in Nat
    /\ "empty" \notin Runs /\ "given" \notin Runs

VARIABLES
    db,         \* the rows initializeBaseData is about
    account,    \* the sys_user rows
    roles,      \* the role linked to each, "user" or "super"; other roles are of no interest
    superRole,  \* the row of the super role
    entry,      \* the cached permissions of each user
    load,       \* what a request of each user has read and not stored yet
    file,       \* the secrets in .env.<environment>
    run,        \* the runs of setup
    edits,      \* changes people have made
    edited,     \* runs after whose transaction the rows were changed       (history)
    overlapped, \* a run found no super while another was past that check   (history)
    broken,     \* steps at which runs have stopped                         (history)
    overtaken   \* users whose entry a request stored that had read before
                \* a commit that changed their permissions                  (history)

cache == <<entry, load, overtaken>>
vars == <<db, account, roles, superRole, file, run, edits, edited, overlapped, broken, cache>>

-----------------------------------------------------------------------------
(* Menus: one seed of each kind, and a row of somebody else's.             *)

Row(name, path, code, kind, pid) ==
    [name |-> name, path |-> path, code |-> code, kind |-> kind, pid |-> pid, ok |-> TRUE]

\* INITIAL_MENUS; a row that a seed inserts is known by the name of the seed.
Seeds == <<Row("System", "/system", "-", "catalog", "-"),
           Row("Page", "/system/page", "system:page", "menu", "System"),
           Row("Attachment", "/system/attachment", "-", "catalog", "System"),
           Row("Read", "-", "system:read", "button", "Attachment")>>
SeedNames == {Seeds[k].name : k \in DOMAIN Seeds}
Ids == SeedNames \cup {"Other"}
NoRow == Row("-", "-", "-", "-", "-")
Filled == [name: Ids \cup {"Mine"}, kind: {"catalog", "menu", "button"},
           path: {"-", "/system", "/system/page", "/system/attachment", "/shop"},
           code: {"-", "system:page", "system:read", "shop:list"},
           pid: Ids \cup {"-"}, ok: BOOLEAN]
Rows == Filled \cup {NoRow}

Matches(menu, seed) ==
    {i \in Ids : /\ menu[i] # NoRow
                 /\ \/ menu[i].name = seed.name
                    \/ seed.path # "-" /\ menu[i].path = seed.path
                    \/ seed.code # "-" /\ menu[i].code = seed.code}

\* A button of the attachments that an older seed put under System.
Legacy(row, seed) == seed.pid = "Attachment" /\ seed.kind = "button" /\ row.pid = "System"

Agrees(row, seed) == row = seed \/ (Legacy(row, seed) /\ row = [seed EXCEPT !.pid = "System"])

\* Mutant of Planted: the button is inserted where the older seed put it.
PlantedUnderSystem(menu, seed) ==
    [menu EXCEPT ![seed.name] =
        IF seed.kind = "button" /\ @ = NoRow THEN [seed EXCEPT !.pid = "System"] ELSE seed]

\* The row is inserted, found as it should be, or moved from its old parent.
Planted(menu, seed) == [menu EXCEPT ![seed.name] = seed]

\* seedMenus, one turn: the rows that match the seed have to be one at most, and the
\* same as the seed.
SeedOne(done, seed) ==
    LET found == Matches(done.menu, seed)
    IN  [ok |-> done.ok /\ Cardinality(found) <= 1 /\ \A i \in found : Agrees(done.menu[i], seed),
         menu |-> Planted(done.menu, seed)]

\* One seed after the other; the first conflict ends it.
SeedMenus(menu) ==
    LET one   == SeedOne([ok |-> TRUE, menu |-> menu], Seeds[1])
        two   == SeedOne(one, Seeds[2])
        three == SeedOne(two, Seeds[3])
    IN  SeedOne(three, Seeds[4])

\* Deleted rows included.
Management(menu) ==
    {i \in Ids : \/ menu[i].code \in {"system:page", "system:read"}
                 \/ menu[i].path \in {"/system", "/system/page", "/system/attachment"}}

-----------------------------------------------------------------------------
(* initializeBaseData.                                                     *)

Refuses(d) ==
    \/ d.role = "blocked" \/ d.otherDefault \/ d.root = "blocked"
    \/ ~SeedMenus(d.menu).ok

Seeded(d) ==
    LET menu == SeedMenus(d.menu).menu
    IN  [d EXCEPT !.role = "default", !.root = "live", !.menu = menu,
                  !.grants = @ \ Management(menu)]

\* Mutant of Concerned: the super users have all permissions anyway.
ConcernedUsers == {u \in Users : "user" \in roles[u]}

\* Whom the run will clear, whether or not this transaction changed anything.
Concerned == {u \in Users : "user" \in roles[u] \/ ("super" \in roles[u] /\ superRole # "gone")}

\* Whose permissions the transaction changes.
Outdated(d, e) ==
    {u \in Users : \/ "user" \in roles[u] /\ d.grants # e.grants
                   \/ "super" \in roles[u] /\ superRole = "live" /\ d.menu # e.menu}

-----------------------------------------------------------------------------
Steps == {"seed", "clear", "check", "role", "ask", "create", "secrets", "truncate", "write"}
Secrets == {"empty", "given"} \cup Runs
NotStarted == [pc |-> "new", todo |-> {}, as |-> {}, had |-> [k \in Keys |-> "empty"],
               put |-> [k \in Keys |-> "empty"]]

\* Tables of a new database, of one an older version has seeded, and of ones in which
\* somebody has changed the seeded rows or put others in their place.
NoMenu == [i \in Ids |-> NoRow]
SeededMenu == SeedMenus(NoMenu).menu
Menus == {NoMenu, SeededMenu,
          [SeededMenu EXCEPT !["Attachment"] = NoRow, !["Read"].pid = "System"],
          [SeededMenu EXCEPT !["Read"].pid = "-"],
          [SeededMenu EXCEPT !["Page"].ok = FALSE],
          [NoMenu EXCEPT !["Other"] = Row("Other", "/system/page", "system:page", "menu", "-")],
          [NoMenu EXCEPT !["Other"] = Row("Other", "/shop", "shop:list", "menu", "-")]}

Base(menu, role, root, other, grants) ==
    [menu |-> menu, role |-> role, root |-> root, otherDefault |-> other, grants |-> grants]

\* Tables in which the user role holds what menus there are.
InUse(menu, role) ==
    Base(menu, role, "live", FALSE, {i \in {"Page", "Other"} : menu[i] # NoRow})

\* A new database, a seeded one, and ones with something a run refuses to overwrite.
Bases ==
    {Base(menu, "none", "none", FALSE, {}) : menu \in {m \in Menus : m["System"] = NoRow}}
    \cup {InUse(menu, role) : menu \in Menus, role \in {"default", "plain"}}
    \cup {Base(SeededMenu, "blocked", "live", FALSE, {}), Base(SeededMenu, "plain", "blocked", FALSE, {}),
          Base(SeededMenu, "plain", "live", TRUE, {})}

Init ==
    /\ db \in Bases
    /\ superRole \in {"none", "live", "disabled", "gone"}
    /\ account \in [Users -> {"none", "live"}]
    /\ roles \in [Users -> {{}, {"user"}, {"super"}}]
    /\ \A u \in Users : /\ account[u] = "none" <=> roles[u] = {}
                        /\ "user" \in roles[u] => db.role # "none"
                        /\ "super" \in roles[u] => superRole # "none"
    /\ Cardinality({u \in Users : "super" \in roles[u]}) <= 1
    /\ entry = [u \in Users |-> IF account[u] = "live" THEN "right" ELSE "none"]
    /\ load = [u \in Users |-> "none"]
    /\ file \in [Keys -> {"empty", "given"}]
    /\ (\E u \in Users : "super" \in roles[u]) => \A k \in Keys : file[k] = "given"
    /\ run = [r \in Runs |-> NotStarted]
    /\ edits = 0 /\ edited = {} /\ overlapped = FALSE /\ broken = {} /\ overtaken = {}

At(r, step) == run[r].pc = step
In(r, steps) == run[r].pc \in steps
Goto(r, step) == run' = [run EXCEPT ![r].pc = step]

\* An account that has the super role; it may be disabled, but not deleted.
Supers == {u \in Users : "super" \in roles[u] /\ account[u] \in {"live", "disabled"}}

-----------------------------------------------------------------------------
(* main.                                                                   *)

\* dotenv puts what the file has into the process environment.
Start(r) ==
    /\ At(r, "new")
    /\ run' = [run EXCEPT ![r] = [@ EXCEPT !.pc = "seed", !.had = file]]
    /\ UNCHANGED <<db, account, roles, superRole, file, edits, edited, overlapped, broken, cache>>

\* What requests of these users have read is no longer right.
Overtake(users) == load' = [u \in Users |-> IF u \in users /\ load[u] # "none" THEN "stale" ELSE load[u]]

\* Their entries are deleted.
Forget(users) ==
    /\ entry' = [u \in Users |-> IF u \in users THEN "none" ELSE entry[u]]
    /\ overtaken' = overtaken \ users

\* The base data, one serializable transaction; a refusal leaves everything as it was.
Seed(r) ==
    /\ At(r, "seed")
    /\ IF Refuses(db)
         THEN Goto(r, "refused") /\ UNCHANGED <<db, cache>>
         ELSE /\ db' = Seeded(db)
              /\ entry' = [u \in Users |-> IF u \in Outdated(db, Seeded(db)) /\ entry[u] # "none"
                                           THEN "stale" ELSE entry[u]]
              /\ Overtake(Outdated(db, Seeded(db)))
              /\ overtaken' = overtaken \ Outdated(db, Seeded(db))
              /\ run' = [run EXCEPT ![r] = [@ EXCEPT !.pc = "clear", !.todo = Concerned]]
    /\ UNCHANGED <<account, roles, superRole, file, edits, edited, overlapped, broken>>

\* Mutant of Clear: one batch and no more.
ClearOnce(r, batch) ==
    /\ At(r, "clear") /\ batch \subseteq run[r].todo
    /\ batch = {} <=> run[r].todo = {}
    /\ Forget(batch)
    /\ run' = [run EXCEPT ![r] = [@ EXCEPT !.todo = run[r].todo \ batch, !.pc = "check"]]
    /\ UNCHANGED <<db, account, roles, superRole, load, file, edits, edited, overlapped, broken>>

\* clearSetupPermissions: DEL of some, batch after batch.
Clear(r, batch) ==
    /\ At(r, "clear") /\ batch \subseteq run[r].todo
    /\ batch = {} <=> run[r].todo = {}
    /\ Forget(batch)
    /\ run' = [run EXCEPT ![r] = [@ EXCEPT !.todo = run[r].todo \ batch,
                    !.pc = IF run[r].todo = batch THEN "check" ELSE "clear"]]
    /\ UNCHANGED <<db, account, roles, superRole, load, file, edits, edited, overlapped, broken>>

\* Mutant of FindSuper: a disabled super user is no obstacle.
FindEnabledSuper(r) ==
    /\ At(r, "check")
    /\ IF superRole # "gone" /\ \E u \in Supers : account[u] = "live"
         THEN Goto(r, "skipped") /\ UNCHANGED overlapped
         ELSE /\ Goto(r, "role")
              /\ overlapped' = (overlapped \/ \E s \in Runs \ {r} :
                     In(s, {"role", "ask", "create", "secrets", "truncate", "write"}))
    /\ UNCHANGED <<db, account, roles, superRole, file, edits, edited, broken, cache>>

\* existingSuper: with one, the run is over.
FindSuper(r) ==
    /\ At(r, "check")
    /\ IF superRole # "gone" /\ Supers # {}
         THEN Goto(r, "skipped") /\ UNCHANGED overlapped
         ELSE /\ Goto(r, "role")
              /\ overlapped' = (overlapped \/ \E s \in Runs \ {r} :
                     In(s, {"role", "ask", "create", "secrets", "truncate", "write"}))
    /\ UNCHANGED <<db, account, roles, superRole, file, edits, edited, broken, cache>>

FindRole(r) ==
    /\ At(r, "role")
    /\ Goto(r, IF superRole \in {"disabled", "gone"} THEN "skipped" ELSE "ask")
    /\ UNCHANGED <<db, account, roles, superRole, file, edits, edited, overlapped, broken, cache>>

\* promptForSuper asks until the name is one that no account, deleted ones included, has.
Ask(r, u) ==
    /\ At(r, "ask") /\ account[u] = "none"
    /\ run' = [run EXCEPT ![r] = [@ EXCEPT !.pc = "create", !.as = {u}]]
    /\ UNCHANGED <<db, account, roles, superRole, file, edits, edited, overlapped, broken, cache>>

\* createSuper, one transaction: the account, its link and, if need be, the role.
Create(r) ==
    /\ At(r, "create")
    /\ IF superRole \in {"disabled", "gone"} \/ \E u \in run[r].as : account[u] # "none"
         THEN Goto(r, "refused") /\ UNCHANGED <<account, roles, superRole>>
         ELSE /\ superRole' = "live"
              /\ account' = [u \in Users |-> IF u \in run[r].as THEN "live" ELSE account[u]]
              /\ roles' = [u \in Users |-> IF u \in run[r].as THEN {"super"} ELSE roles[u]]
              /\ Goto(r, "secrets")
    /\ UNCHANGED <<db, file, edits, edited, overlapped, broken, cache>>

-----------------------------------------------------------------------------
(* writeJwtSecrets.                                                        *)

\* Mutant of Generated: it looks at the first of the two only.
GeneratedTogether(r) ==
    [k \in Keys |-> IF \A j \in Keys : file[j] = "empty" THEN r ELSE file[k]]

\* Mutant of Generated: a missing secret has both generated.
GeneratedBoth(r) ==
    [k \in Keys |-> IF \E j \in Keys : file[j] = "empty" THEN r ELSE file[k]]

\* Those that are empty in the file and were when the run began.
Generated(r) ==
    [k \in Keys |-> IF file[k] = "empty" /\ run[r].had[k] = "empty" THEN r ELSE file[k]]

ReadSecrets(r) ==
    /\ At(r, "secrets")
    /\ run' = [run EXCEPT ![r] = [@ EXCEPT !.put = Generated(r),
                    !.pc = IF Generated(r) = file THEN "done" ELSE "truncate"]]
    /\ UNCHANGED <<db, account, roles, superRole, file, edits, edited, overlapped, broken, cache>>

\* writeFile opens the file empty.
Truncate(r) ==
    /\ At(r, "truncate")
    /\ file' = [k \in Keys |-> "empty"]
    /\ Goto(r, "write")
    /\ UNCHANGED <<db, account, roles, superRole, edits, edited, overlapped, broken, cache>>

WriteSecrets(r) ==
    /\ At(r, "write")
    /\ file' = run[r].put
    /\ Goto(r, "done")
    /\ UNCHANGED <<db, account, roles, superRole, edits, edited, overlapped, broken, cache>>

\* The process is killed, a query or a DEL fails, the prompt is left: what has been
\* committed stays.
Stop(r) ==
    /\ In(r, Steps)
    /\ Goto(r, "stopped")
    /\ broken' = broken \cup {run[r].pc}
    /\ UNCHANGED <<db, account, roles, superRole, file, edits, edited, overlapped, cache>>

-----------------------------------------------------------------------------
(* The application, before, between and after runs. Its writes delete the  *)
(* cached permissions of whom they concern (module Permissions).           *)

Edit ==
    /\ edits < MaxEdits
    /\ edits' = edits + 1
    /\ edited' = edited \cup {r \in Runs : ~In(r, {"new", "seed"})}
    /\ UNCHANGED <<file, run, overlapped, broken>>

\* Their permissions change; the write deletes their entries.
Change(users) == Forget(users) /\ Overtake(users)

\* A menu is disabled, moved or, with its path and code, renamed.
EditMenu(i) ==
    /\ Edit
    /\ db.menu[i] # NoRow
    /\ \E row \in {[db.menu[i] EXCEPT !.ok = FALSE], [db.menu[i] EXCEPT !.pid = "-"],
                   [db.menu[i] EXCEPT !.name = "Mine"]} :
         db' = [db EXCEPT !.menu = [@ EXCEPT ![i] = row]]
    /\ Change({u \in Users : roles[u] # {}})
    /\ UNCHANGED <<account, roles, superRole>>

\* The user role gets a menu.
Grant(i) ==
    /\ Edit
    /\ db.menu[i] # NoRow /\ db.role # "none"
    /\ db' = [db EXCEPT !.grants = @ \cup {i}]
    /\ Change({u \in Users : "user" \in roles[u]})
    /\ UNCHANGED <<account, roles, superRole>>

\* What a run refused to overwrite is put right.
Repair ==
    /\ Edit
    /\ \E d \in {[db EXCEPT !.role = "plain"], [db EXCEPT !.otherDefault = FALSE],
                 [db EXCEPT !.root = "live"]} : d # db /\ db' = d
    /\ db.role # "none" \/ db'.role = "none"
    /\ UNCHANGED <<account, roles, superRole, cache>>

EnableSuperRole ==
    /\ Edit
    /\ superRole = "disabled" /\ superRole' = "live"
    /\ Change({u \in Users : "super" \in roles[u]})
    /\ UNCHANGED <<db, account, roles>>

\* An account is disabled, or deleted with its links.
EditAccount(u) ==
    /\ Edit
    /\ account[u] = "live"
    /\ \/ account' = [account EXCEPT ![u] = "disabled"] /\ Forget({u}) /\ UNCHANGED <<roles, load>>
       \/ account' = [account EXCEPT ![u] = "gone"] /\ roles' = [roles EXCEPT ![u] = {}] /\ Change({u})
    /\ UNCHANGED <<db, superRole>>

\* A login of the user, or a request that has missed the cache, has read the tables.
Query(u) ==
    /\ account[u] = "live" /\ load[u] = "none"
    /\ Cardinality({v \in Users : load[v] # "none"}) < MaxLoads
    /\ load' = [load EXCEPT ![u] = "right"]
    /\ UNCHANGED <<db, account, roles, superRole, entry, file, run,
                   edits, edited, overlapped, broken, overtaken>>

\* It stores them, with no TTL and no look at what has happened since.
Store(u) ==
    /\ load[u] # "none"
    /\ entry' = [entry EXCEPT ![u] = load[u]]
    /\ overtaken' = IF load[u] = "stale" THEN overtaken \cup {u} ELSE overtaken \ {u}
    /\ load' = [load EXCEPT ![u] = "none"]
    /\ UNCHANGED <<db, account, roles, superRole, file, run, edits, edited, overlapped, broken>>

\* Or it fails before that.
LoadFails(u) ==
    /\ load[u] # "none"
    /\ load' = [load EXCEPT ![u] = "none"]
    /\ UNCHANGED <<db, account, roles, superRole, entry, file, run,
                   edits, edited, overlapped, broken, overtaken>>

RunStep(r) ==
    \/ Start(r) \/ Seed(r) \/ FindSuper(r) \/ FindRole(r) \/ Create(r)
    \/ \E batch \in SUBSET run[r].todo : Clear(r, batch)
    \/ \E u \in Users : Ask(r, u)
    \/ ReadSecrets(r) \/ Truncate(r) \/ WriteSecrets(r)
    \/ Stop(r)

Next ==
    \/ \E r \in Runs : RunStep(r)
    \/ \E i \in Ids : EditMenu(i) \/ Grant(i)
    \/ Repair \/ EnableSuperRole
    \/ \E u \in Users : EditAccount(u) \/ Query(u) \/ Store(u) \/ LoadFails(u)

Spec == Init /\ [][Next]_vars

-----------------------------------------------------------------------------
(* Properties.                                                             *)

\* Every variable stays in its type.
TypeOK ==
    /\ db \in [menu: [Ids -> Rows], role: {"none", "default", "plain", "blocked"},
              root: {"none", "live", "blocked"}, otherDefault: BOOLEAN, grants: SUBSET Ids]
    /\ \A i \in db.grants : db.menu[i] # NoRow
    /\ account \in [Users -> {"none", "live", "disabled", "gone"}]
    /\ roles \in [Users -> {{}, {"user"}, {"super"}}]
    /\ superRole \in {"none", "live", "disabled", "gone"}
    /\ entry \in [Users -> {"none", "right", "stale"}] /\ load \in [Users -> {"none", "right", "stale"}]
    /\ file \in [Keys -> Secrets]
    /\ run \in [Runs -> [pc: Steps \cup {"new", "done", "skipped", "refused", "stopped"},
                        todo: SUBSET Users, as: SUBSET Users,
                        had: [Keys -> Secrets], put: [Keys -> Secrets]]]
    /\ \A r \in Runs : run[r].todo # {} => In(r, {"clear", "stopped"})
    /\ edits \in 0..MaxEdits /\ edited \subseteq Runs /\ overlapped \in BOOLEAN /\ broken \subseteq Steps
    /\ overtaken \subseteq {u \in Users : entry[u] = "stale"}

Committed(r) == ~In(r, {"new", "seed", "refused", "stopped"})

\* Until people change the rows, running setup again, after whatever became of the
\* last run, finds the base data complete, refuses nothing and changes nothing, and
\* the user role is without management menus.
RerunChangesNothing ==
    \A r \in Runs \ edited : Committed(r) => /\ ~Refuses(db) /\ Seeded(db) = db
                                            /\ db.grants \cap Management(db.menu) = {}

\* A run that gets past clearing leaves nobody with the permissions of before, also
\* when it was an earlier run that changed them and then stopped: only a request that
\* had read before a commit and stores after the deletion brings them back, which is
\* why the application is to be stopped meanwhile.
StaleCleared ==
    \A r \in Runs \ edited : Committed(r) /\ ~At(r, "clear")
        => \A u \in Users : entry[u] = "stale" => u \in overtaken

\* Runs one after the other, with whatever was disabled or deleted in between, never
\* make a second super account beside one that still exists.
SecondSuperNeedsOverlap == overlapped \/ Cardinality(Supers) <= 1

\* A super account without JWT secrets is left only by a run that stopped between the
\* two, or by two that overlapped: every later run skips the rest of its work.
SecretsOrStopped ==
    Supers # {} => \/ overlapped
                   \/ \A k \in Keys : file[k] # "empty"
                   \/ broken \cap {"secrets", "truncate", "write"} # {}
                   \/ \E r \in Runs : In(r, {"secrets", "truncate", "write"})

\* A secret that was there when a run began is still the same when it is over, unless
\* two runs overlapped or one stopped while the file was open.
SecretsKept ==
    \A r \in Runs : Committed(r) /\ ~overlapped /\ "write" \notin broken
        => \A k \in Keys : run[r].had[k] # "empty" /\ (\A s \in Runs : ~At(s, "write"))
                             => file[k] = run[r].had[k]

=============================================================================
