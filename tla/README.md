# A TLA+ model of nest-ai-boot

nest-ai-boot is an administration back end (NestJS, PostgreSQL through TypeORM, Redis through
ioredis) with a Vue front end. What is hard in it is not in any one request but between requests:
every handler is a chain of awaits, PostgreSQL and Redis hold overlapping truths about the same
session, permission or policy, and nothing but the order of a few calls keeps them together. The
modules here model those chains await by await.

Paths below are relative to `src/packages/backend/src/` unless they begin with `docs/`.

## 1. The system

| component | state | operations | hard because |
|---|---|---|---|
| Refresh tokens (`modules/auth/services/token.service.ts`, `auth.service.ts`) | rows of `user_refresh_token`, Redis keys `auth:user:refresh_tokens:<uid>:<jti>` | login, refresh, logout | a refresh checks key, row and session state in three calls and consumes the token in a fourth |
| Access JWTs and the guard (`guards/jwt-auth.guard.ts`, `strategies/jwt.strategy.ts`) | Redis: access record, session version, blacklist, `user:info` | login, refresh, every guarded request, logout | the guard trusts Redis, which is written by logins and by account writes *after* their commit |
| Account writes (`modules/system/sys-user/sys-user.service.ts`) | `sys_user.session_version`, `status`, roles, department, avatar | create, update, remove | serializable transaction that a conflict refuses, then cache effects that may be lost |
| Upload policy cache (`modules/upload/upload-policy-cache.service.ts`, `upload-policy.service.ts`) | policy row; Redis generation and snapshot; per process two back-off clocks and the pending loads | get, put, invalidate | lost replies, late refills, evictions, crash after commit |
| Attachments (`modules/upload/attachment.service.ts`, `local-upload.storage.ts`) | attachment rows, references, files, `user.avatar` | upload, bind, unbind, avatar, remove, cleanup timer | database and disk cannot commit together |
| Generic cache (`shared/cache/cache.service.ts`) | values, locks | `getOrSet`, set, delete, delete by prefix | lock expiry, late fills, SCAN |
| Permission cache and RBAC guard (`auth.service.ts`, `guards/rbac.guard.ts`) | permission codes per user, no TTL | guard check, refill, invalidation | the refill is not fenced against the invalidation |
| Roles, menus, departments (`modules/system/*`) | role-menu and user-role tables, parent chains | create, update, remove, tree building | write skew, cycles by concurrent moves, whom to invalidate |
| WebSocket sessions (`modules/websocket`) | sockets by user | connect, disconnect, list, push | the token is verified in an await before the socket is registered |
| Setup (`scripts/setup*.ts`) | secrets file, seed rows | setup | rerun after a crash |
| Captcha, timezone, upload rules, AI demonstrations, HTTP layer, logging | little or none | | not modelled, see 7 |

How they meet: the login and the refresh read the account (`validateUser`, `getSessionState`) and
write both token stores; the guard reads the stores on every request; an account write commits in
PostgreSQL, deletes the refresh rows in the same transaction, and afterwards puts the new session
version into Redis and deletes the rest (`applyCacheEffects`). Role and menu writes invalidate the
permission codes the RBAC guard reads. A PUT of an upload policy commits and then replaces the
generation that fences the policy snapshot; uploads read the policy through the cache. User writes
bind and release attachment references (avatars).

What makes each correct:

- *Refresh tokens*: one-time use; a revoked row is never rotated; no refresh of an ended session.
- *Guard*: once a JWT is logged out, or superseded and published, it is refused.
- *Policy cache*: an invalidation that is done is seen by every later load; a lost one heals.
- *Attachments*: a referenced attachment is ready, has its file and is never cleaned up; a deleted
  one has no file; expired uploads are reclaimed in the end.
- *Permissions*: an entry of the cache differs from the tables only until the write that changed them has
  deleted it.
- *Roles, menus, departments*: what is assigned or granted exists; an enabled super administrator always
  remains; parents are acyclic.
- *Generic cache*: a lock is freed by its holder or its lease; what is cached is no older than the last
  write, unless a load overtook the delete.
- *WebSocket*: an admitted socket is listed while it is connected, and afterwards only if it closed during
  its handshake; every handshake ends.
- *Menus*: a row keeps only what its type has use for and can be stored again; no granted route and no row of
  a list is lost, whatever the table looks like.
- *Setup*: a rerun finds the base data complete; once a run is past clearing, permissions of before are kept only
  where a request had read them before a commit and stored them after the deletion; one super account; no secret is
  replaced.

`PROJECT.json` lists the hazards, each at its line, with the properties that cover it.

## 2. Plan

| # | modules | what | state |
|---|---|---|---|
| 1 | `Accounts`, `Rotation`, `Guard`, proofs | sessions: the core | done |
| 2 | `PolicyView`, `PolicyCache`, proofs | fenced cache; refinement of an abstract store; liveness | done |
| 3 | `Permissions`, proofs | codes cached for ever against overlapping role, menu and user writes | done |
| 4 | `ShelfView`, `Attachments`, proofs | rows, files, references, cleanup, crashes; refinement; liveness of reclaiming | done |
| 5 | `TreeView`, `Hierarchy`, proofs | parent chains of departments and menus under serializable transactions; refinement of writes at once | done |
| 6 | `CacheLock` | getOrSet: lock, lease, attempts, owner-checked release | done |
| 7 | `WsSession`, proofs of 6 and 7 | handshakes that load their user through 6, and the list of sockets | done |
| 8 | `Menus`, proofs, `MenuViews` | what a write makes of a row; routes and lists against reference definitions | done |
| 9 | `Setup`, proofs | seeding, super account and secrets, with stops, reruns and two runs at once | done |

Composition: `Rotation` and `Guard` both extend `Accounts`, the account row and what a write does to it. They are not
joined into one state space: they share only the account, `Rotation` never reads what `Guard` keeps and `Guard` needs
from the refresh only *that a session of a current version can be minted*, which its `SignIn` allows whenever a
delivered JWT has the stored version. `Permissions` stands alone: of the account it reads only the roles, and its
users are enabled. It is one of three views of `sys_menu`: `Menus` has the columns of the rows, with a write as one
step, and `MenuViews`, which extends it, what is read from them; `Hierarchy` the parents, with the statements of
overlapping writes; `Permissions` the codes, with the roles that grant them. `WsSession` extends `CacheLock`: a
handshake is a call of getOrSet, and its outcome is what that call returns. Abstract specifications: `PolicyView`,
`ShelfView` and `TreeView`.

Further work: messages on sockets against a role check with the codes read at the handshake, once the repository
registers a gateway; the status of users in the last-super rule; a permission store that answers with the codes in
force as an abstract specification.

## 3. Modules and code

**`Accounts`** – `sv` is `sys_user.session_version`, `status` the status or soft deletion.
`Bumps`/`Revokes` are the conditions of `update` and `remove` under which the version rises and
the sessions end. The kinds are what the code tells apart: a password, a status, both, a removal.

**`Rotation`** – one action per stretch between two awaits of `login`, `generateRefreshToken`,
`refreshToken` and `revokeRefreshToken`, with a flow per request (`req`) and per account write
(`write`). A token is a record with its ancestor `from`. `WriteBegin`/`WriteCommit`/
`WriteConflict` are a serializable transaction: its first statement takes the snapshot (of the
refresh rows too), a change of what it writes aborts it with 40001 (the write is refused; a new
request is a new `WriteBegin`), and a row inserted after the snapshot is *not* deleted. `ScanKeys` is
`delCacheByPrefix`, batch by batch. `missed`, `revoked` and the flows' `floor` are history.

**`Guard`** – the mint of the access JWT, `JwtAuthGuard.activateHttp` (and `activateWs`, which makes the
same checks for a message on a socket) with the strategy's
`user:info` read and refill, the blacklist and version checks, the logout, and the cache effects
of account writes in their order (version first, then the deletes in any order). Time is
`Expire` (a JWT passes its `exp`) and `KeysExpire`. The prefix delete of the access records is one
step here: nothing in the guard depends on how it interleaves, because a passing JWT never has its
record read. `published` and `regressed` are history: what Redis has been told, and whose version
was put back.

**`PolicyCache`** – `load[p]` is the pending load of a process, from `getOrLoad` to its answer,
including the Redis failures, the fallback query with its back-off of a second, the refill script
(only if the generation is still the one read) and the retry. A get that joins a pending load is
that load. `put[w]` is a PUT after its commit, with up to three invalidation attempts. `Evict`
loses either key; `Restart` and `PutDies` end processes; `Tick` is time. `bound[g]` and `floor`
are history: the oldest revision that a load holding generation `g` may have read, and the newest
revision an invalidation is done for.

**`PolicyView`** – what a reader may rely on: a store that only moves forward, and an answer that is
no older than the newest invalidation done when the reader asked.

**`Attachments`** – `row[a]` is the status of an attachment and whether `expires_at` is null, ahead or
past; `files[a]` is what is on disk under its object key (the object, and the `.normalized` file of an
image being re-encoded); `refs`, `avatar`, `gone` and `tx` are a user's reference rows, avatar column, soft
deletion and open transaction; `job[j]` is a request or the cleanup of a process, with its place in the
code. `Pending` to `Respond` are `UploadController.upload` with `pending`, `write`, `validate`,
`digest` and `complete`, one action per step on disk or in the database; `UploadFails` is its catch, which
goes on to the same removal as a DELETE request and the cleanup (`RemoveLock`, `Check`, `Mark`, commit,
`Unlink`, `Finish`). `Scan` to `Claim` are `cleanup` up to its call of `remove`. The locks of a row are not
a variable: `Written` (FOR UPDATE) and `Unlocked` (neither FOR UPDATE nor FOR SHARE) are read off the
flows and transactions that hold them. `AvatarBegin` to `AvatarRollback` are `setAvatar` and the user writes
that call `releaseUserAvatarReferences`; both lock the user, then the attachments in the order of their
ids, under SERIALIZABLE, so `seen` keeps what the snapshot shows and a row changed since aborts with
40001. `Dies` ends a flow anywhere. `outlived` is history: the attachments whose lease ran out under their
upload.

**`ShelfView`** – what the business modules may rely on: a file becomes readable once, goes for good, and
does not go while it is held.

**`Permissions`** – `db` is the four tables (menus, roles, `sys_role_menu`, `sys_user_role`), `cache` the
entry `auth:user:permissions:<uid>`. A load (`req`) is `getPermissionsByUserId` of a login or a cache miss:
the two queries of its `Promise.all`, the query of the codes, and the SET, each a step of its own on the
tables as committed then. A write (`write`) is a SERIALIZABLE transaction: `Begin` takes the snapshot on which
its checks (`CreateMenu` to `RemoveUser`), its writes (`After`) and the users it will invalidate (`Affected`)
are computed; `Commit` applies the writes to what has been committed meanwhile; `Clear` is one DEL. Of two
transactions that overlap, PostgreSQL lets only one commit if both lock one row for update, or one locks
(FOR SHARE) or reads what the other has written in a cycle of dependencies: `Clash` says which, and the loser is
`"doomed"`. Those that do not clash both commit, the second on an old snapshot (`late`). `SuperRemains` is evaluated
again at the commit, because `assertAnotherEnabledSuper` locks the other administrator's row FOR SHARE, which a write
on that user has locked FOR UPDATE. Every menu has one code of its own; `lost` and `overlapped` are history.

**`Hierarchy`** – the writes of `sys_dept` with the users of a department, and of `sys_menu`. `live`, `gone`, `leaf`,
`pid`, `home` are the tables: a department is never a leaf, a menu has no users. `tx[w]` is a transaction: what it
is to write (`op`), the rows it has share-locked on its way up (`chain`), the row it reads next (`at`), what its
snapshot shows below its own row (`kids`, `users`), and what the transactions that have committed since read and
wrote (`rivals`). `Begin` is the first statement, `LockRow` the `pessimistic_write` of the own row, `ReadParent` one
turn of `validateParentChain` (or the one `validateDepartment` of a user write), `Commit` the remaining checks, the
write and COMMIT; `Rollback` any other end. `Serializable` is what PostgreSQL adds to the locks: of two overlapping
transactions that each read what the other writes, the second does not commit.

**`TreeView`** – the same table with writes that happen at once: a row is added or moved under a parent from which
branches lead to the root, past the row itself; it becomes a leaf, or goes, only while nothing hangs on it; a user
joins a row that is there. `Add`, `Move`, `Remove` and `Assign` are create, update and remove of departments and menus
and the department of a user write, without snapshots, locks or climbing. `ImplementsTree` says that `Hierarchy` shows
nothing else to a reader.

**`CacheLock`** – `CacheService.getOrSet` as `UserService.getCachedUserById` calls it. `row` is the user's status,
`entry` the cached one, `lock` whose lock is in Redis, `call[c]` a call: `get`, `lock`, `retry`, `double`, `load`,
`store`, `release` are its awaits. `Freed` is the Lua script of `releaseLock`. `Fails` is an error at any await, after
which the `finally` block still releases; `LockReplyLost`, `LockExpires`, `EntryExpires` and `InvalidationLost`
are what Redis does. `WriteRow` is a commit, `Invalidate` the delete after it. `lost`, `overtaken`, `lapsed`
and `raced` are history.

**`WsSession`** – `BaseRbacGateway` with `WsSessionService` on `CacheLock`; a socket is a caller. `Connect` starts
the handshake, `Admit` is the rest of `handleConnection` after a user was found, `Refuse` any failure of
`verifyAccessToken`, which throws past the call of `disconnect` and leaves the socket open; `Disconnect` is
`handleDisconnect`, at any time. `sessions` is the map namespace → user → sockets, removed from inside out;
`Restart` loses it but not the lock in Redis. `early` is history: sockets that closed before their handshake ended.

**`Setup`** – `scripts/setup.ts` with `setup-data.ts` and `setup-cache.ts`. One seed of each kind stands for
`INITIAL_MENUS` (a catalog, a menu under it, a button an older version put elsewhere), and `Other` is a row of
somebody else's, which may stand in the way; `SeedOne` is one turn of the loop over them. `run[r]` is a run with its
place in the script: `Start`, `Seed` (one transaction), `Clear` (batch by batch), `FindSuper`, `FindRole`, `Ask`,
`Create` (the second transaction), `ReadSecrets`, `Truncate`, `WriteSecrets`, and `Stop` at any of them. `EditMenu` to
`EditAccount` are what people change through the application meanwhile, each with the deletion of the entries it
concerns (what lies between the two is in `Permissions`). `Query`, `Store` and `LoadFails` are a load of permissions,
cut where `getEffectivePermissionsByUserId` awaits: `load[u]` is what it has read, and a commit that changes the
permissions of u, of setup or of the application, makes that stale before it is stored. `edited`, `overlapped`,
`broken` and `overtaken` are history. Accounts with neither of the two roles setup knows are left out.

**`Menus`** – `rows` is the table. A body is a function from the fields it submits (`Fields`). `Draft`, `NormalMeta`,
`WellFormed` and `Build` are `buildMenuWriteState`, `Valid` is `validateWriteState` with `Climbs`, the parent chain
(`MayClimb` is what the loop asks of a row, `Onward` the loop); `Create`, `Update` and `Delete` the three writes.
Formats are one value, `Bad`. `Init` also has tables whose parents were damaged past the service: missing,
themselves, in a cycle.

**`MenuViews`** – no state of its own, what is read from those rows: `DynamicRoutes` is `buildDynamicRoutes` of granted
menus; `Parents`, `Shown`, `SystemMenuTree` and `DeptTree` the lists of menus and departments as they are built,
whatever order the rows come in. It is apart from `Menus` because its recursion over the rows is for TLC only.

`MCRotation`, `MCPolicyCache`, `MCPermissions`, `MCHierarchy` and `MCSetup` only add the symmetry sets; `MCAttachments`
and `MCWsSession` add nothing. `MCGuard` adds, besides, `LogoutsMeetRemovals`: logouts run against removals only,
the kind that refuses for good, and everything else against all kinds. `MCMenus` lists the bodies; its `Explored`
reads damaged tables and tables of three rows but does not write on.

## 4. Runs

| run | asks | result |
|---|---|---|
| `rotation` | can one refresh token have two successors, or a revoked one any; can a refresh that passed its checks, or that arrives later, outlive a reset or disable | no; only with a row outside the snapshot, which is refused at the next refresh |
| `guard` | can an old JWT pass after its revocation has reached Redis; can a logged-out one before its `exp` | only if a write puts the version back; no |
| `guard_stale_version` | `docs/modules/data-cache.md:32`: old JWTs are refused at once | violated |
| `policy_cache` | can a refill, a lost reply or an eviction bring back a revision of before an invalidation; does the cache implement `PolicyView` | no; yes |
| `policy_cache_heals` | does a lost invalidation heal | yes |
| `attachments` | can an avatar, or an open download, lose its file; can a deleted row leave one; do the avatar column and the reference disagree; do the rows implement `ShelfView` | no, no unless the upload outlived its lease, no; yes |
| `attachments_reclaim` | is what a crash, a failure or neglect left behind reclaimed | yes |
| `permissions` | can overlapping writes leave a grant of what is gone, or no administrator; may each still do at its commit what it has checked; can a cached entry stay wrong | no; yes; only if its DEL was lost, or a commit overtook the load or the write |
| `hierarchy` | do overlapping moves, each legal on its own, form a cycle; does a row or user end up under one that is gone or may not hold it; is every commit a write that is legal in the table as it is then (`TreeView`) | no, no; under REPEATABLE READ it would (its mutant); yes |
| `handshake` | does a call that overstayed its lease free another's lock; does a cached user stay wrong; are the lists of sockets right; can a handshake hang on a lock nobody frees | no; only if the delete was lost or overtaken by a load; yes, but for sockets that closed during their handshake; no |
| `setup` | does a rerun after a stop at any step refuse or change anything; who keeps old permissions; can there be two super accounts; are secrets lost or replaced | no; only whom a request serves that had read before the commit and stores after the deletion; only by two runs at once; only by those, or a stop while the file is open |
| `menus` | what does a row keep through changes of type; can a stored row always be stored again; are routes or rows of a list dropped | what its type has use for; unless its highlight is gone; no |

Where the code does something else than the repository says, or than a reader would expect. The first is a run of
its own and a finding; the others show in the exceptions the properties have to make:

1. *A login can put an old session version back* (`guard_stale_version`; `docs/modules/data-cache.md:32` says old
   JWTs are refused at once). It writes the version it read first of all, before its
   password check and its mints; if a reset has published a newer one meanwhile, JWTs of
   before the reset pass again. `OldJwtNeedsRegression` (proved) says that this, or two writes whose
   effects overtake each other, is the only way.
2. *The access record is not checked* (`docs/modules/auth-rbac.md:16`) for a JWT that Passport accepts; it is only
   looked at when Passport fails for a reason that is not `UnauthorizedException`.
3. *A failed invalidation may leave the old policy for longer than the TTL* (`upload-policy-cache.service.ts:144`
   says 60 seconds at most), when a load that had read the old row fills the cache afterwards with a lifetime of its
   own. It still heals (`policy_cache_heals`).
4. *A change of permissions may never reach the cache* (`docs/modules/auth-rbac.md:73`). A load that read the tables
   before the commit may store the old codes after the DEL, and entries have no TTL; or a role or menu write takes its
   snapshot, a user is given the role and its entry is deleted and filled again, then the write commits, and the users it
   found do not include this one. `StaleNeedsOverlap` (proved) says that, apart from a lost DEL, nothing else
   makes an entry stale. A load may overtake the deletion of `pnpm setup` in the same way; that is why
   `docs/guide/getting-started.md:104` wants the application stopped meanwhile. `StaleCleared` (proved) says that with
   no load under way at its commit, a run that gets past clearing leaves no entry stale.
5. *A closed socket may stay listed* (`ws-session.service.ts:80` takes every listed socket to be online): it
   closed during its handshake, so `handleDisconnect` knew no user, and `handleConnection` listed it afterwards.
   `ListedSockets` (proved) says that there are no others.
6. *A menu may become uneditable*: its `activePath` names a path that another write has changed or removed since, and
   `validateWriteState` (`menu.service.ts:242`) refuses any edit of it, also one of another field, until
   `activePath` is cleared. `EditsStayPossible` (proved) says that this is the only such case.
7. *Setup may end without JWT secrets*: stopped between the super account and the secrets, it finds the account when
   it is run again, as `docs/guide/getting-started.md:98` suggests, and skips the rest. `SecretsOrStopped` (proved) says
   that only a run stopped there, or two at once, leave an installation so.

The weaker promise that the code keeps is checked for each of them.

## 5. Bounds

| constant | value | why enough |
|---|---|---|
| `Users` | 1 | no step relates the state of two users; the proofs are for any number |
| `Requests` | 2 | every race here is between two requests, or a request and a write |
| `Writes` | 1 | of two overlapping writes of one user one aborts; a slot is used again. The theorems are for any number |
| `Ids` | 2 or 3 | a login, its successor, and a rival successor |
| `MaxVersion` | 2 | a session of before and one of after a revocation; longer chains of revocations are left to the theorems |
| `Kinds` | `rotation`: disable, enable, reset; the guard runs the rest | a removal does to rows and status what a disable does, but for good, and reinstating with a password is a reset and an enable; the theorems of `RotationProofs` are for all kinds |
| `Procs`, `Writers` | 2 and 1 (1 and 1 for liveness) | a load in each process against one PUT after another |
| `Gens` | 3 | generations of before and after an invalidation, and one drawn after an eviction |
| `MaxRevision`, `TTL` | 1 or 2 | one change suffices for a stale answer; `TTL` 2 makes ages differ |
| `Users`, `Requests`, `Cleaners` of `Attachments` | 1 each | the cleaner removes what the request uploads, downloads or removes, and both meet the avatar transaction; a second request adds no lock and no state they do not have |
| `MaxId` | 2 (1 for liveness) | an avatar replaces another; one attachment suffices for what happens to it in the end |
| `Users`, `Roles`, `Menus` of `Permissions` | 2, 2, 1 | the administrator role and another; two users for the last-super rule and for a write that misses one; a menu decides for itself |
| `Readers`, `Writers` of `Permissions` | 1 and 2 | each made once, from any consistent tables: two writes that overlap, and a load overtaken by either |
| `Attempts` | 2 (the code: 3) | a failed attempt that is not the last, and one that is |
| `Nodes`, `Users`, `Writers` of `Hierarchy` | 3, 1, 3 | from every tree of three rows: the shortest cycle of two moves needs two rows, the third makes chains of unequal length; three transactions, because serializability is decided by pairs |
| `Callers`, `MaxRetry`, `Users` of `CacheLock` | 2, 2, 1 | one call holds the lock, or has let it lapse, and another waits, gives up or takes it; locks and entries of two users are not related |
| `MaxWrites`, `Namespaces` | 1, 1 | one write makes an entry stale; a namespace is a key like another. The theorems are for any number |
| `Users`, `Runs`, `Keys`, `MaxEdits`, `MaxLoads` of `Setup` | 2, 2, 2, 1, 1 | a second super account; a run after, or beside, a stopped one; one secret there and one missing; one edit before, between or during the runs; loads of different users have nothing in common, so the permissions of one user are loaded at a time, as often as it may be |
| `Ids`, `Names`, `MaxRows` of `Menus` | 3, 3, 2 | two rows are written, and tables of up to three, damaged ones included, are read |
| `Backoff` | 1 | one second against a TTL of 60, rounded up to a tick |

Requests, writes, ids, processes and generations are only compared for equality, so the runs for
safety use symmetry; the runs with liveness do not. `CHECK_DEADLOCK FALSE` is set because uuids,
generations, versions, revisions, calls, runs and edits are finite in the models: when they are used up, the model may
stop where the program would draw another, and attachments when all are deleted. In `menus` a table may admit none of
the bodies listed.

## 6. Fairness and proofs

Safety is checked and proved without fairness. `Converges` assumes `WF(Tick)`, time passes, and
`WF(LoadStep(p))`, a call to Redis or PostgreSQL ends, with a result or an error, which the
clients' timeouts see to. Nothing is assumed of the PUTs: `Converges` is about changes whose
invalidation never happened. Because failing calls are steps of their own, fairness does not say
that anything succeeds.

`Reclaimed` assumes that a transaction ends (`Progress`), that `expires_at` passes (`WF(Expire)`), that
from some time on the process of the cleanup stays up (`<>[][~Dies]`), and strong fairness of the steps of a
cleanup: it starts every minute again, so a step that is possible again and again is taken in the end
– the disk does not refuse to unlink for ever, and the row is not locked at every single attempt
(SKIP LOCKED would pass it over each time). Without it nothing could be promised: `UnlinkFails` and
`RemoveFails` stay possible at every attempt. No fairness is assumed of uploads, of their abort or of the
avatar changes.

`HandshakesEnd` assumes `WF(CallStep(c))`, each await of a call returns or fails, and weak fairness of `Admit` or
`Refuse`, the handler then resumes. Nothing is assumed of leases: the lock of a call that ended in a crash may never
go, and the attempts to get it are counted.

TLAPS proves, for all values of the constants that satisfy the named assumptions
(`AccountsAssumption`, `RotationAssumption`, `GuardAssumption`, `PolicyCacheAssumption`,
`AttachmentsAssumption`, `PermissionsAssumption`, `HierarchyAssumption`, `CacheLockAssumption`, `SetupAssumption`,
which say that bounds are positive, placeholders are not ids, the protected role is one of the roles and accounts are
finitely many, and `MenusAssumption`, which says that bodies are what the DTO lets through and that every body of a
creation has the fields it requires):

- `RotationProofs` – `TypeCorrect`; `RotatesOnce` and `RevocationIsFinal` from *Lineage*:
  every row and every token in a flow was issued (`Known`), ids are unique, a token that has a row
  has neither been rotated nor revoked (`Live`), and a token between its DELETE and the INSERT of its
  successor has no row, no successor yet and is carried by one flow only (`SpentOnce`). `OneSuccessor`
  alone is not inductive: two flows might both be past the DELETE. `ConsumesCurrent`
  and `RefusesSuperseded` from *Currency*: a token is never newer than the stored version and older than
  it once its user is disabled (`Old`), and a flow past its checks either still carries a current token
  or finds its row gone.
- `GuardProofs` – `TypeCorrect`; `LogoutHolds` from *Logouts*: what is logged out is on the blacklist
  or expired; `OnlyRegressionReadmits` from *Floors*: unless regressed, the version in Redis is absent
  or at least what was published.
- `PolicyCacheProofs` – `TypeCorrect`, `AnswersFresh` and `Implements` from the fence `Inv`: the
  generation in Redis was drawn when at least `floor` was stored; a snapshot, and the revision a load has
  read, are no older than what was stored when their generation was drawn; a load never holds a
  generation drawn before the floor it began at. The
  refinement maps a load to a reader that has asked and later answers; every other step stutters.

- `AttachmentsProofs` – `TypeCorrect`, `KeepsReferenced`, `AvatarStaysTrue`, `LeavesNoFile`,
  `DownloadsFind` and `Implements` from one `Inv` that says what each flow may rely on where it stands
  (`JobFits`): a removal past its check, that nothing refers to the row; past its mark, that the row is
  `deleting` or `deleted`; an upload that still writes, that its row is in its lease or has outlived it; an
  open download, that the row is ready. Two facts about locks make this stable: no flow under FOR UPDATE
  meets a download of the same row (`JobsApart`), nor an avatar transaction that has locked it
  (`TxExcludes`), and such a transaction has locked its target when it commits (`TxFits`). `ReferencedReadable`
  alone is not inductive: a removal about to mark would break it. `Apart`, `Move`, `LosesFiles` and
  `Retires` prove a step by what it does to flow, disk and row; the lemmas per action cite them.

- `PermissionsProofs` – `TypeCorrect`, `StaysConsistent` and `StaleOnlyByOverlap` from one `Inv`. It says what an open
  transaction may still rely on although its snapshot is old (`Fits`: a menu about to go is granted to nobody, a role
  about to go is assigned to nobody, what is about to be granted or assigned is there); that a transaction no commit
  has overtaken knows everyone it concerns; and that a load no commit has touched has read what holds (`LoadFits`).
  `FitsStays` – a commit that does not clash leaves that to the other transactions – is the heart of it:
  `ReferencesLive` alone is not inductive. `Covers` shows that the users a write finds are all those whose codes it
  changes. `StillAllowed` adds that, at its commit, all a write has checked on its snapshot holds of the tables it changes:
  what it found of its own row (`Stands`) lasts too, because whoever writes that row clashes with it.

- `HierarchyProofs` – `TypeCorrect`, `TreesAcyclic`, `ParentsStayCapable` and `HomesStayLive` from one `Inv`. It says of
  each open transaction (`TxFits`) that the rows it has climbed lead from its target to where it is (`ChainFits`), that
  its own row is there (`OwnFits`), and that what hangs on its row was in its snapshot or came with a rival it can no
  longer commit after (`BareFits`); and that locks keep apart whom they should (`Apart`). `Acyclic` alone is not
  inductive: a commit is right because the chain it has climbed is still the chain, and that is because the chain is
  share-locked, or moved only by rivals that read what this transaction writes.

  `Implements` is the refinement of `TreeView`. Of a commit, `CommitTree` shows that what was checked on the snapshot
  holds of the table it changes: the chain it has climbed is the way to the root that `Clear` asks for, because
  `ChainFits` still has every row of it under another or under the root; nothing hangs on a row that goes or becomes a
  leaf, because what came after the snapshot came with a rival this transaction cannot commit after. Every other step
  leaves the table alone.

  The same module extends `Menus`, whose names are apart from those of `Hierarchy`, and has of the columns of the rows
  `RowsFit` and `EditsStay` from *MenusInv*, for any bodies and any number of rows. `RowsFitType` alone is not
  inductive: an edit starts from the stored row, so what a field left out brings along must be well formed already
  (`RowFits`: every column its type clears and every key it drops is null, and an edit that submits nothing finds the
  row well formed). `EditsStay` needs, besides, that what is unique differs between any two rows, because an edit
  compares all of its row again; the parents it takes from `Intact`, whose first step also says that what has children
  takes children. From that `ParentsRouted`, the reason for `RoutesComplete`: what is above another row is a catalog
  or a menu, and those keep a path.

- `WsSessionProofs` – `TypeCorrect`, `LockHeld` and `RowsFresh` from *CacheInv*: what each call may rely on where it
  stands (`CallFits`): in its section the lock is its own or has lapsed, and what it has loaded is what the row says, or a
  write came after; `SocketsListed` and `OnlineConsistent` from *WsInv*: the store has no empty sets and no empty
  namespaces (`SessionsType`), and a socket whose handshake is pending is not listed (`Pending`).

- `SetupProofs` – `TypeCorrect`, `Rerun`, `NothingStale`, `OneSuper`, `SecretsFollow` and `SecretsStayKept` from one
  `Inv`, for any number of runs, accounts, secrets, edits and loads. `RerunChangesNothing` is stable because seeding is
  idempotent: whatever it does not refuse, it leaves `Complete` (`SeededComplete`), and that needs that no row of
  somebody else's has the name of a seed (`OthersApart`). `StaleCleared` alone is not inductive: while a run clears,
  everybody with a stale entry is still on its list (`ClearsAll`), also those an earlier run made stale, because all
  that the roles concern are listed (`OutdatedConcerned`), or has it from a load that a commit overtook (`overtaken`).
  A second run beside it takes nobody out of `overtaken`: it finds the data complete and outdates nothing. `SecondSuperNeedsOverlap` needs that runs which do not
  overlap are between the check and the last write one at a time, and have come there without a super account
  (`OneEnters`). The two about secrets need what becomes of the file while it is open (`Intact`): what it had when a
  run began is in it or about to be written, and what is about to be written leaves none out.

Only model-checked: `Converges`, `Reclaimed` and `HandshakesEnd` (liveness); `RoutesComplete` and `ListsExact`
(`MenuViews` is recursive over the rows, and what such a recursion computes for every table is beyond the prover;
damaged tables are read but not written on: a row created with the very id that a damaged row names as its parent could
be one without a route); and the violation. Conversely, the types of the guard, the permissions, the hierarchy and the
handshake are proved and not among the invariants of the runs.

## 7. Left out

- Single-device login: `multiDeviceLogin` is the constant `true` (`config/app.config.ts:13`).
- Gateways: the repository has the base class but registers none, so rooms, handlers of messages and the check of a
  message against the role codes read at the handshake have no caller to model. The JWT check of a message is in
  `Guard`.
- Names unique among sibling departments, formats, remarks, and the lists of users and roles: refusals or reads.
- Behaviour the code accepts, which no property contradicts: a logout in the very second of `exp` computes a lifetime
  of 0, which Redis refuses, and fails before its refresh token is revoked; the SCAN after an account write also
  deletes the keys of sessions opened since; a process that ends between consuming a refresh token and answering loses
  the session, which `Rotation` has as a flow that dies; a logout beside a refresh of the same cookie revokes the old
  token while its successor is on its way; a get of a policy that joins a pending load may be answered with what that
  load had read before; the back-off clocks are shared by the purposes of a process; the captcha is not checked.
- Expiry of refresh tokens: it is a refusal, and `RequestFails` covers every refusal.
- Authorisation of downloads and removals, disabled users, scans and size limits: refusals, which `UploadFails`,
  `AvatarRollback`, `RemoveFails` and `Dies` cover. The reference rows are those of the avatar, the only business
  registered with `bind`. Audit rows are written in the same transactions and never read.
- An upload that stalls past its lease of 15 minutes can leave a file that no row points to as live (`outlived`); the
  timeouts of the code keep an upload below that.
- Of the RBAC tables: creation of users (a new id has no entry yet), disabled users, default roles (protected like
  super, so the model allows more), uniqueness of names and codes, parents and types of menus: refusals, or in
  `Hierarchy` and `Menus`. The guard's bypass for super reads `user:info`, which `Guard` models. A cache hit changes
  nothing.
- One purpose of upload policies: purposes share only the back-off clocks, a matter of availability.
- The captcha (its check is commented out of the login), the AI and playground modules (stateless demonstrations),
  HTTP formatting, logging, configuration, content validation (pure data), and the front ends.
