------------------------------- MODULE Guard -------------------------------
(***************************************************************************)
(* Access JWTs: minted by a login or a refresh, checked by JwtAuthGuard on *)
(* every request, ended by a logout or by an account write. The guard      *)
(* trusts Redis: the user:info cache, the blacklist and the session        *)
(* version; each is read in a call of its own, and written by logins and   *)
(* by the account writes after their transaction has committed.            *)
(***************************************************************************)
EXTENDS Accounts, FiniteSets

CONSTANTS
    Requests,  \* HTTP requests that may be in flight at once
    Writes,    \* account writes that may be in flight at once
    Ids,       \* the access JWT uuids that may ever be drawn
    NoId,      \* the uuid of a JWT not signed yet
    Ops        \* the requests clients send: "login", "refresh", "access", "logout"

ASSUME GuardAssumption ==
    /\ NoId \notin Ids
    /\ Ops \subseteq {"login", "refresh", "access", "logout"}

VARIABLES
    records,    \* auth:user:tokens:<uid>:<jti>, by uuid
    pvCache,    \* auth:user:password_version:<uid>, 0 when the key is absent
    blacklist,  \* auth:token:blacklist:<jti>, by uuid
    info,       \* user:info:<uid>: the cached status, or "none"
    expired,    \* uuids of the JWTs that are past their exp
    req,        \* the requests in flight
    write,      \* the account writes whose cache effects are not complete
    issued,     \* every access JWT signed
    held,       \* the access JWTs a response has delivered
    loggedOut,  \* uuids a logout has put on the blacklist              (history)
    published,  \* oldest version left valid by the revocations whose
                \* version write has reached Redis                     (history)
    regressed   \* users whose cached version was later set below that (history)

redis == <<records, pvCache, blacklist, info>>
history == <<loggedOut, published, regressed>>
vars == <<sv, status, records, pvCache, blacklist, info, expired, req, write,
          issued, held, loggedOut, published, regressed>>

Jwt == [id: Ids, uid: Users, pv: Versions]

\* A login or refresh carries the claims it will sign, then its JWT; a guarded
\* request its JWT, the status its user:info loader has read, and what was true
\* as it arrived.
Minting == [op: {"login", "refresh"}, pc: {"mint"},
            jwt: [id: {NoId}, uid: Users, pv: Versions]]
Minted == [op: {"login", "refresh"}, pc: {"setVersion", "respond"}, jwt: Jwt]
Guarded == [op: {"access", "logout"},
            pc: {"loadUser", "fillUser", "blacklist", "version", "accepted", "revoke"},
            jwt: Jwt, seen: {"none", "enabled", "disabled"},
            floor: 0..(MaxVersion + 1), late: BOOLEAN]
Flow == Minting \cup Minted \cup Guarded
Idle == [op |-> "none", pc |-> "idle"]

CacheEffects == [pc: {"version", "clean"}, uid: Users, version: 0..MaxVersion,
                 todo: SUBSET {"info", "records"}]
NoWrite == [pc |-> "idle"]

Init ==
    /\ AccountsInit
    /\ records = {} /\ blacklist = {} /\ expired = {} /\ loggedOut = {} /\ regressed = {}
    /\ pvCache = [u \in Users |-> 0]
    /\ info = [u \in Users |-> "none"]
    /\ req = [r \in Requests |-> Idle]
    /\ write = [w \in Writes |-> NoWrite]
    /\ issued = {} /\ held = {}
    /\ published = [u \in Users |-> 0]

-----------------------------------------------------------------------------
At(r, step) == req[r].pc = step
Goto(r, step) == req' = [req EXCEPT ![r].pc = step]
End(r) == req' = [req EXCEPT ![r] = Idle]

Fresh == {i \in Ids : \A t \in issued : t.id # i}

\* Redis SET of the session version (0: DEL), and what it means for the history.
PutVersion(u, v) ==
    /\ pvCache' = [pvCache EXCEPT ![u] = v]
    /\ regressed' = IF v # 0 /\ v < published[u] THEN regressed \cup {u} ELSE regressed

-----------------------------------------------------------------------------
(* AuthService.login and TokenService.refreshToken, from the read of the   *)
(* account on; what they do to refresh tokens is in module Rotation.       *)

SignIn(r, u, op) ==
    /\ At(r, "idle")
    /\ status[u] = "enabled"
    /\ op = "refresh" => \E t \in held : t.uid = u /\ t.pv = sv[u]
    /\ req' = [req EXCEPT ![r] = [op |-> op, pc |-> "mint",
                                  jwt |-> [id |-> NoId, uid |-> u, pv |-> sv[u]]]]
    /\ UNCHANGED <<accounts, redis, expired, write, issued, held, history>>

\* generateAccessToken: sign with a fresh uuid, store the record.
Mint(r) ==
    /\ At(r, "mint")
    /\ \E i \in Fresh :
         LET t == [req[r].jwt EXCEPT !.id = i]
         IN  /\ issued' = issued \cup {t}
             /\ records' = records \cup {i}
             /\ req' = [req EXCEPT ![r] = [@ EXCEPT
                   !.jwt = t,
                   !.pc = IF req[r].op = "login" THEN "setVersion" ELSE "respond"]]
    /\ UNCHANGED <<accounts, pvCache, blacklist, info, expired, write, held, history>>

\* The login caches the version it read when it began.
LoginSetVersion(r) ==
    /\ At(r, "setVersion")
    /\ PutVersion(req[r].jwt.uid, req[r].jwt.pv)
    /\ Goto(r, "respond")
    /\ UNCHANGED <<accounts, records, blacklist, info, expired, write, issued, held,
                   loggedOut, published>>

Respond(r) ==
    /\ At(r, "respond")
    /\ held' = held \cup {req[r].jwt}
    /\ End(r)
    /\ UNCHANGED <<accounts, redis, expired, write, issued, history>>

-----------------------------------------------------------------------------
(* JwtAuthGuard.activateHttp, and activateWs for a message on a socket:  *)
(* the token of the handshake goes through the same checks in the same   *)
(* order each time; what Passport makes of a socket later is ignored.    *)

\* Passport verifies signature and exp and reads user:info; a user cached as
\* disabled is refused at once.
Arrive(r, t, op) ==
    /\ At(r, "idle")
    /\ t \in held /\ t.id \notin expired
    /\ info[t.uid] # "disabled"
    /\ req' = [req EXCEPT ![r] =
                 [op |-> op, jwt |-> t, seen |-> "none",
                  pc |-> IF info[t.uid] = "none" THEN "loadUser" ELSE "blacklist",
                  floor |-> published[t.uid],
                  late |-> t.id \in loggedOut]]
    /\ UNCHANGED <<accounts, redis, expired, write, issued, held, history>>

\* The loader of user:info: a deleted user is not found and the request fails.
LoadUser(r) ==
    /\ At(r, "loadUser")
    /\ LET st == status[req[r].jwt.uid]
       IN  IF st = "deleted"
             THEN End(r)
             ELSE req' = [req EXCEPT ![r] = [@ EXCEPT !.pc = "fillUser", !.seen = st]]
    /\ UNCHANGED <<accounts, redis, expired, write, issued, held, history>>

FillUser(r) ==
    /\ At(r, "fillUser")
    /\ info' = [info EXCEPT ![req[r].jwt.uid] = req[r].seen]
    /\ IF req[r].seen = "enabled" THEN Goto(r, "blacklist") ELSE End(r)
    /\ UNCHANGED <<accounts, records, pvCache, blacklist, expired, write, issued, held, history>>

\* validateUserState: the blacklist, then the version. The access record is
\* not read here.
CheckBlacklist(r) ==
    /\ At(r, "blacklist")
    /\ IF req[r].jwt.id \in blacklist THEN End(r) ELSE Goto(r, "version")
    /\ UNCHANGED <<accounts, redis, expired, write, issued, held, history>>

\* Mutant of CheckVersion: an absent version is no objection.
CheckVersionIfCached(r) ==
    /\ At(r, "version")
    /\ IF pvCache[req[r].jwt.uid] \in {0, req[r].jwt.pv} THEN Goto(r, "accepted") ELSE End(r)
    /\ UNCHANGED <<accounts, redis, expired, write, issued, held, history>>

CheckVersion(r) ==
    /\ At(r, "version")
    /\ IF pvCache[req[r].jwt.uid] = req[r].jwt.pv THEN Goto(r, "accepted") ELSE End(r)
    /\ UNCHANGED <<accounts, redis, expired, write, issued, held, history>>

\* The handler of an ordinary request runs and answers.
Serve(r) ==
    /\ At(r, "accepted") /\ req[r].op = "access"
    /\ End(r)
    /\ UNCHANGED <<accounts, redis, expired, write, issued, held, history>>

-----------------------------------------------------------------------------
(* AuthService.clearLoginStatus, the handler of a logout.                  *)

\* Mutant of LogoutBlacklist: the logout relies on the access record being removed.
LogoutWithoutEntry(r) ==
    /\ At(r, "accepted") /\ req[r].op = "logout"
    /\ loggedOut' = loggedOut \cup {req[r].jwt.id}
    /\ Goto(r, "revoke")
    /\ UNCHANGED <<accounts, redis, expired, write, issued, held, published, regressed>>

\* The entry gets the rest of the JWT's life as TTL. If the JWT has reached its
\* exp since the guard that is 0, Redis refuses the SET, and the logout fails.
LogoutBlacklist(r) ==
    /\ At(r, "accepted") /\ req[r].op = "logout"
    /\ IF req[r].jwt.id \in expired
         THEN End(r) /\ UNCHANGED <<blacklist, loggedOut>>
         ELSE /\ blacklist' = blacklist \cup {req[r].jwt.id}
              /\ loggedOut' = loggedOut \cup {req[r].jwt.id}
              /\ Goto(r, "revoke")
    /\ UNCHANGED <<accounts, records, pvCache, info, expired, write, issued, held,
                   published, regressed>>

LogoutRecord(r) ==
    /\ At(r, "revoke")
    /\ records' = records \ {req[r].jwt.id}
    /\ End(r)
    /\ UNCHANGED <<accounts, pvCache, blacklist, info, expired, write, issued, held, history>>

-----------------------------------------------------------------------------
(* SysUserService.update and remove: the transaction, then the effects.    *)

WriteCommit(w, u, kind) ==
    /\ write[w] = NoWrite
    /\ Writable(u, kind)
    /\ ApplyWrite(u, kind)
    /\ write' = [write EXCEPT ![w] =
                   [pc |-> IF Revokes(kind) THEN "version" ELSE "clean", uid |-> u,
                    version |-> IF Bumps(kind) THEN sv[u] + 1 ELSE 0,
                    todo |-> IF Revokes(kind) THEN {"info", "records"} ELSE {"info"}]]
    /\ UNCHANGED <<redis, expired, req, issued, held, history>>

\* First effect: the new version, or for a removed user no version at all.
WriteSetVersion(w) ==
    LET x == write[w]
        floor == IF x.version = 0 THEN MaxVersion + 1 ELSE x.version
    IN
    /\ x.pc = "version"
    /\ PutVersion(x.uid, x.version)
    /\ published' = [published EXCEPT ![x.uid] = IF floor > @ THEN floor ELSE @]
    /\ write' = [write EXCEPT ![w].pc = "clean"]
    /\ UNCHANGED <<accounts, records, blacklist, info, expired, req, issued, held, loggedOut>>

\* Then the deletes of Promise.all, in any order.
WriteClean(w, part) ==
    LET x == write[w] IN
    /\ x.pc = "clean" /\ part \in x.todo
    /\ info' = IF part = "info" THEN [info EXCEPT ![x.uid] = "none"] ELSE info
    /\ records' = IF part = "records"
                    THEN records \ {t.id : t \in {s \in issued : s.uid = x.uid}}
                    ELSE records
    /\ write' = [write EXCEPT ![w] = IF x.todo = {part} THEN NoWrite
                                     ELSE [x EXCEPT !.todo = @ \ {part}]]
    /\ UNCHANGED <<accounts, pvCache, blacklist, expired, req, issued, held, history>>

-----------------------------------------------------------------------------
(* Time, and failures between two awaits.                                  *)

\* A JWT passes its exp; the keys that live as long as it does go afterwards.
Expire(t) ==
    /\ t \in held /\ t.id \notin expired
    /\ expired' = expired \cup {t.id}
    /\ UNCHANGED <<accounts, redis, req, write, issued, held, history>>

KeysExpire(i) ==
    /\ i \in expired /\ i \in blacklist \cup records
    /\ blacklist' = blacklist \ {i}
    /\ records' = records \ {i}
    /\ UNCHANGED <<accounts, pvCache, info, expired, req, write, issued, held, history>>

\* The TTL of user:info, or the delete after a timezone change.
InfoExpires(u) ==
    /\ info[u] # "none"
    /\ info' = [info EXCEPT ![u] = "none"]
    /\ UNCHANGED <<accounts, records, pvCache, blacklist, expired, req, write, issued, held, history>>

RequestFails(r) ==
    /\ ~At(r, "idle")
    /\ End(r)
    /\ UNCHANGED <<accounts, redis, expired, write, issued, held, history>>

\* A Redis error or the end of the process after the commit: the rest of the
\* effects is lost.
WriteFails(w) ==
    /\ write[w] # NoWrite
    /\ write' = [write EXCEPT ![w] = NoWrite]
    /\ UNCHANGED <<accounts, redis, expired, req, issued, held, history>>

RequestStep(r) ==
    \/ \E u \in Users, op \in Ops \cap {"login", "refresh"} : SignIn(r, u, op)
    \/ Mint(r) \/ LoginSetVersion(r) \/ Respond(r)
    \/ \E t \in held, op \in Ops \cap {"access", "logout"} : Arrive(r, t, op)
    \/ LoadUser(r) \/ FillUser(r) \/ CheckBlacklist(r) \/ CheckVersion(r) \/ Serve(r)
    \/ LogoutBlacklist(r) \/ LogoutRecord(r)
    \/ RequestFails(r)

WriteStep(w) ==
    \/ \E u \in Users, kind \in Kinds : WriteCommit(w, u, kind)
    \/ WriteSetVersion(w)
    \/ \E part \in {"info", "records"} : WriteClean(w, part)
    \/ WriteFails(w)

Next ==
    \/ \E r \in Requests : RequestStep(r)
    \/ \E w \in Writes : WriteStep(w)
    \/ \E t \in held : Expire(t)
    \/ \E i \in expired : KeysExpire(i)
    \/ \E u \in Users : InfoExpires(u)

Spec == Init /\ [][Next]_vars

-----------------------------------------------------------------------------
(* Properties.                                                             *)

\* Every variable stays in its type.
TypeOK ==
    /\ AccountsTypeOK
    /\ records \subseteq Ids /\ blacklist \subseteq Ids /\ expired \subseteq Ids
    /\ loggedOut \subseteq Ids
    /\ pvCache \in [Users -> 0..MaxVersion]
    /\ info \in [Users -> {"none", "enabled", "disabled"}]
    /\ req \in [Requests -> {Idle} \cup Flow]
    /\ write \in [Writes -> {NoWrite} \cup CacheEffects]
    /\ issued \subseteq Jwt /\ held \subseteq Jwt
    /\ published \in [Users -> 0..(MaxVersion + 1)]
    /\ regressed \subseteq Users

\* A request sent after its JWT was logged out is not accepted for the rest of
\* the JWT's life, although the blacklist entry expires.
LoggedOutStaysOut ==
    \A r \in Requests :
        At(r, "accepted") /\ req[r].late => req[r].jwt.id \in expired

\* Once the version of a revocation is in Redis, the one way left for an older
\* JWT is a write that puts the version back: no stale user:info, late refill,
\* lost cleanup, refresh or second write lets one through.
OldJwtNeedsRegression ==
    \A r \in Requests :
        At(r, "accepted") /\ req[r].jwt.uid \notin regressed => req[r].jwt.pv >= req[r].floor

\* What docs/modules/data-cache.md says of a reset, disable or delete: once the
\* version is updated or deleted in Redis, a JWT of before it is refused.
OldJwtRejected ==
    \A r \in Requests : At(r, "accepted") => req[r].jwt.pv >= req[r].floor

=============================================================================
