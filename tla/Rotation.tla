------------------------------ MODULE Rotation ------------------------------
(***************************************************************************)
(* Refresh tokens: minted by a login, rotated by POST /auth/refresh,       *)
(* revoked by a logout and by the account writes. PostgreSQL holds the     *)
(* rows of user_refresh_token, Redis one key per token. An action is the   *)
(* code between two awaits, so everything in flight interleaves at every   *)
(* database or Redis call.                                                 *)
(***************************************************************************)
EXTENDS Accounts, FiniteSets

CONSTANTS
    Requests,  \* HTTP requests that may be in flight at once
    Writes,    \* account writes that may be in flight at once
    Ids,       \* the JWT uuids that may ever be drawn (bounds logins and rotations)
    NoId       \* no uuid: the parent of a login's token

ASSUME RotationAssumption == NoId \notin Ids

VARIABLES
    rows,     \* the refresh tokens that have a row
    rtKeys,   \* auth:user:refresh_tokens:<uid>:<jti>, by uuid
    req,      \* the requests in flight
    write,    \* the account writes in flight
    issued,   \* every refresh token ever signed
    held,     \* the tokens a response has delivered to a client
    revoked,  \* rows deleted by a logout or an account write      (history)
    missed    \* rows outside the snapshot of the write that ended
              \* their sessions                                    (history)

vars == <<sv, status, rows, rtKeys, req, write, issued, held, revoked, missed>>

\* The claims of a refresh JWT; `from` is the token consumed to obtain it.
Token == [id: Ids, uid: Users, pv: Versions, from: Ids \cup {NoId}]

\* A flow works with the token it presents, has minted or revokes; before its
\* INSERT, a login only has the claims of the account it read.
Steps == {"findRow", "sessionState", "consume", "delKey",  \* refreshToken
          "setKey", "respond",                             \* generateRefreshToken
          "revokeRow", "revokeKey"}                        \* revokeRefreshToken
Payload == [id: Ids \cup {NoId}, uid: Users, pv: Versions, from: Ids \cup {NoId}]
Flow == [pc: Steps, jwt: Token, floor: Nat]
   \cup [pc: {"insert"}, jwt: Payload, floor: Nat]
Idle == [pc |-> "idle"]
NoWrite == [pc |-> "idle"]
AccountWrite == [pc: {"tx"}, kind: Kinds, uid: Users, sv: Versions, was: Statuses,
                 snap: SUBSET Token]
          \cup [pc: {"scan"}, uid: Users]

Init ==
    /\ AccountsInit
    /\ rows = {} /\ rtKeys = {}
    /\ req = [r \in Requests |-> Idle]
    /\ write = [w \in Writes |-> NoWrite]
    /\ issued = {} /\ held = {} /\ revoked = {} /\ missed = {}

-----------------------------------------------------------------------------
At(r, step) == req[r].pc = step
Goto(r, step) == req' = [req EXCEPT ![r].pc = step]
End(r) == req' = [req EXCEPT ![r] = Idle]

Fresh == {i \in Ids : \A t \in issued : t.id # i}
RowsOf(u) == {t \in rows : t.uid = u}
\* Mutant of SessionCurrent: the version is not compared.
SessionEnabled(t) == status[t.uid] = "enabled"
SessionCurrent(t) == status[t.uid] = "enabled" /\ sv[t.uid] = t.pv

\* The oldest version still valid for a user, above every version when none is.
\* Recorded in a refresh as it arrives (history).
Floor(u) == IF status[u] = "enabled" THEN sv[u] ELSE MaxVersion + 1

-----------------------------------------------------------------------------
(* AuthService.login.                                                      *)

\* validateUser: the password matches and the user is enabled. The version
\* read here is the one the tokens will carry.
Login(r, u) ==
    /\ At(r, "idle")
    /\ status[u] = "enabled"
    /\ req' = [req EXCEPT ![r] =
                 [pc |-> "insert", floor |-> 0,
                  jwt |-> [id |-> NoId, uid |-> u, pv |-> sv[u], from |-> NoId]]]
    /\ UNCHANGED <<accounts, rows, rtKeys, write, issued, held, revoked, missed>>

-----------------------------------------------------------------------------
(* TokenService.generateRefreshToken.                                      *)

\* Sign with a fresh uuid and INSERT the row; the flow now carries the new token.
InsertRow(r) ==
    /\ At(r, "insert")
    /\ \E i \in Fresh :
         LET t == [id |-> i, uid |-> req[r].jwt.uid, pv |-> req[r].jwt.pv,
                   from |-> req[r].jwt.id]
         IN  /\ rows' = rows \cup {t}
             /\ issued' = issued \cup {t}
             /\ req' = [req EXCEPT ![r] = [@ EXCEPT !.pc = "setKey", !.jwt = t]]
    /\ UNCHANGED <<accounts, rtKeys, write, held, revoked, missed>>

\* Mutant of SetKey: the payload keeps the uuid of the consumed token.
SetParentKey(r) ==
    /\ At(r, "setKey")
    /\ rtKeys' = rtKeys \cup {req[r].jwt.from}
    /\ Goto(r, "respond")
    /\ UNCHANGED <<accounts, rows, write, issued, held, revoked, missed>>

SetKey(r) ==
    /\ At(r, "setKey")
    /\ rtKeys' = rtKeys \cup {req[r].jwt.id}
    /\ Goto(r, "respond")
    /\ UNCHANGED <<accounts, rows, write, issued, held, revoked, missed>>

\* What is left of a login or refresh (the access token: module Guard), and the
\* cookie that delivers the token.
Respond(r) ==
    /\ At(r, "respond")
    /\ held' = held \cup {req[r].jwt}
    /\ End(r)
    /\ UNCHANGED <<accounts, rows, rtKeys, write, issued, revoked, missed>>

-----------------------------------------------------------------------------
(* TokenService.refreshToken. Any delivered token may be presented, also a *)
(* consumed or revoked one, and by several requests at once.               *)

\* The JWT verifies and its Redis key is there; else the refresh is refused.
RefreshStart(r, t) ==
    /\ At(r, "idle")
    /\ t \in held /\ t.id \in rtKeys
    /\ req' = [req EXCEPT ![r] = [pc |-> "findRow", jwt |-> t, floor |-> Floor(t.uid)]]
    /\ UNCHANGED <<accounts, rows, rtKeys, write, issued, held, revoked, missed>>

FindRow(r) ==
    /\ At(r, "findRow")
    /\ IF req[r].jwt \in rows THEN Goto(r, "sessionState") ELSE End(r)
    /\ UNCHANGED <<accounts, rows, rtKeys, write, issued, held, revoked, missed>>

SessionState(r) ==
    /\ At(r, "sessionState")
    /\ IF SessionCurrent(req[r].jwt) THEN Goto(r, "consume") ELSE End(r)
    /\ UNCHANGED <<accounts, rows, rtKeys, write, issued, held, revoked, missed>>

\* Mutant of Consume: the number of deleted rows is not looked at.
ConsumeUnchecked(r) ==
    /\ At(r, "consume")
    /\ rows' = rows \ {req[r].jwt}
    /\ Goto(r, "delKey")
    /\ UNCHANGED <<accounts, rtKeys, write, issued, held, revoked, missed>>

\* DELETE ... WHERE value = old; only a request whose DELETE affected a row goes on.
Consume(r) ==
    /\ At(r, "consume")
    /\ rows' = rows \ {req[r].jwt}
    /\ IF req[r].jwt \in rows THEN Goto(r, "delKey") ELSE End(r)
    /\ UNCHANGED <<accounts, rtKeys, write, issued, held, revoked, missed>>

DelKey(r) ==
    /\ At(r, "delKey")
    /\ rtKeys' = rtKeys \ {req[r].jwt.id}
    /\ Goto(r, "insert")
    /\ UNCHANGED <<accounts, rows, write, issued, held, revoked, missed>>

-----------------------------------------------------------------------------
(* TokenService.revokeRefreshToken, called by an authorised logout on the  *)
(* token of its cookie.                                                    *)

LogoutStart(r, t) ==
    /\ At(r, "idle")
    /\ t \in held
    /\ req' = [req EXCEPT ![r] = [pc |-> "revokeRow", jwt |-> t, floor |-> 0]]
    /\ UNCHANGED <<accounts, rows, rtKeys, write, issued, held, revoked, missed>>

RevokeRow(r) ==
    /\ At(r, "revokeRow")
    /\ rows' = rows \ {req[r].jwt}
    /\ revoked' = revoked \cup (rows \cap {req[r].jwt})
    /\ Goto(r, "revokeKey")
    /\ UNCHANGED <<accounts, rtKeys, write, issued, held, missed>>

RevokeKey(r) ==
    /\ At(r, "revokeKey")
    /\ rtKeys' = rtKeys \ {req[r].jwt.id}
    /\ End(r)
    /\ UNCHANGED <<accounts, rows, write, issued, held, revoked, missed>>

-----------------------------------------------------------------------------
(* SysUserService.update and remove.                                       *)

\* SERIALIZABLE: the first statement, which locks the user row, fixes the
\* snapshot, the refresh rows to be deleted included. A login's INSERT that
\* holds the key lock on the user row just then delays the lock without making
\* it fail, and its row is not in the snapshot.
WriteBegin(w, u, kind) ==
    /\ write[w] = NoWrite
    /\ Writable(u, kind)
    /\ write' = [write EXCEPT ![w] = [pc |-> "tx", kind |-> kind, uid |-> u, sv |-> sv[u],
                                      was |-> status[u], snap |-> RowsOf(u)]]
    /\ UNCHANGED <<accounts, rows, rtKeys, req, issued, held, revoked, missed>>

\* 40001: the user row, or a row to be deleted, has changed since the snapshot.
Conflict(x) ==
    \/ sv[x.uid] # x.sv \/ status[x.uid] # x.was
    \/ Revokes(x.kind) /\ ~(x.snap \subseteq rows)

\* Mutant of WriteCommit: the transaction leaves the refresh rows to the cache effects.
WriteKeepsRows(w) ==
    LET x == write[w] IN
    /\ x.pc = "tx" /\ ~Conflict(x)
    /\ ApplyWrite(x.uid, x.kind)
    /\ write' = [write EXCEPT ![w] = IF Revokes(x.kind) THEN [pc |-> "scan", uid |-> x.uid]
                                     ELSE NoWrite]
    /\ UNCHANGED <<rows, revoked, missed, rtKeys, req, issued, held>>

WriteCommit(w) ==
    LET x == write[w] IN
    /\ x.pc = "tx" /\ ~Conflict(x)
    /\ ApplyWrite(x.uid, x.kind)
    /\ IF Revokes(x.kind)
         THEN /\ rows' = rows \ x.snap
              /\ revoked' = revoked \cup x.snap
              /\ missed' = missed \cup (RowsOf(x.uid) \ x.snap)
              /\ write' = [write EXCEPT ![w] = [pc |-> "scan", uid |-> x.uid]]
         ELSE /\ write' = [write EXCEPT ![w] = NoWrite]
              /\ UNCHANGED <<rows, revoked, missed>>
    /\ UNCHANGED <<rtKeys, req, issued, held>>

WriteConflict(w) ==
    /\ write[w].pc = "tx" /\ Conflict(write[w])
    /\ write' = [write EXCEPT ![w] = NoWrite]
    /\ UNCHANGED <<accounts, rows, rtKeys, req, issued, held, revoked, missed>>

\* delCacheByPrefix, after the commit: batches of the user's refresh keys, also
\* those of sessions opened since; a key set during the SCAN may be missed.
ScanKeys(w) ==
    /\ write[w].pc = "scan"
    /\ \E batch \in SUBSET (rtKeys \cap {t.id : t \in {s \in issued : s.uid = write[w].uid}}) :
         rtKeys' = rtKeys \ batch
    /\ write' \in {write, [write EXCEPT ![w] = NoWrite]}
    /\ UNCHANGED <<accounts, rows, req, issued, held, revoked, missed>>

-----------------------------------------------------------------------------
\* A database or Redis error, or the end of the process, cuts a flow short at
\* any await; an open transaction rolls back, committed effects stay.
RequestFails(r) ==
    /\ ~At(r, "idle")
    /\ End(r)
    /\ UNCHANGED <<accounts, rows, rtKeys, write, issued, held, revoked, missed>>

WriteFails(w) ==
    /\ write[w] # NoWrite
    /\ write' = [write EXCEPT ![w] = NoWrite]
    /\ UNCHANGED <<accounts, rows, rtKeys, req, issued, held, revoked, missed>>

RequestStep(r) ==
    \/ \E u \in Users : Login(r, u)
    \/ InsertRow(r) \/ SetKey(r) \/ Respond(r)
    \/ \E t \in held : RefreshStart(r, t) \/ LogoutStart(r, t)
    \/ FindRow(r) \/ SessionState(r) \/ Consume(r) \/ DelKey(r)
    \/ RevokeRow(r) \/ RevokeKey(r)
    \/ RequestFails(r)

WriteStep(w) ==
    \/ \E u \in Users, kind \in Kinds : WriteBegin(w, u, kind)
    \/ WriteCommit(w) \/ WriteConflict(w) \/ ScanKeys(w)
    \/ WriteFails(w)

Next == (\E r \in Requests : RequestStep(r)) \/ (\E w \in Writes : WriteStep(w))

Spec == Init /\ [][Next]_vars

-----------------------------------------------------------------------------
(* Properties.                                                             *)

\* Every variable stays in its type.
TypeOK ==
    /\ AccountsTypeOK
    /\ rows \subseteq Token /\ issued \subseteq Token /\ held \subseteq Token
    /\ revoked \subseteq Token /\ missed \subseteq Token
    /\ rtKeys \subseteq Ids
    /\ req \in [Requests -> {Idle} \cup Flow]
    /\ write \in [Writes -> {NoWrite} \cup AccountWrite]

\* Concurrent or replayed refreshes of one token never yield two successors: the
\* tokens that descend from a login form a chain.
OneSuccessor ==
    \A s, t \in issued : s.from = t.from /\ s.from # NoId => s = t

\* A row deleted by a logout or an account write is never rotated, not even by a
\* refresh that had passed all its checks by then.
RevokedHasNoSuccessor ==
    \A s \in issued, t \in revoked : s.from # t.id

\* The session check and the consuming DELETE are two calls, and a write may
\* commit between them: while the row is there, the token is still of the stored
\* version and its user enabled. The exception are rows no snapshot contained.
RotationStillCurrent ==
    \A r \in Requests :
        At(r, "consume") /\ req[r].jwt \in rows \ missed => SessionCurrent(req[r].jwt)

\* A refresh that arrives after a reset, disable or delete has committed never
\* consumes a token of before it, whatever rows and keys were left behind.
SupersededRefused ==
    \A r \in Requests :
        req[r].pc \in {"consume", "delKey"} => req[r].jwt.pv >= req[r].floor

=============================================================================
