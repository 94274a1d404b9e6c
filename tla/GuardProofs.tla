---------------------------- MODULE GuardProofs ----------------------------
(***************************************************************************)
(* Proofs about module Guard, for any number of users, requests, writes    *)
(* and JWTs.                                                               *)
(***************************************************************************)
EXTENDS Guard, TLAPS

-----------------------------------------------------------------------------
(* Types.                                                                  *)

LEMMA InitTyped == Init => TypeOK
BY AccountsAssumption
DEF Init, TypeOK, AccountsInit, AccountsTypeOK, Versions, Statuses, Idle, NoWrite

\* Next with its disjuncts named, so that a step is proved action by action.
LEMMA NextActions ==
    ASSUME Next
    PROVE  \/ \E r \in Requests :
                \/ \E u \in Users, op \in {"login", "refresh"} : SignIn(r, u, op)
                \/ Mint(r) \/ LoginSetVersion(r) \/ Respond(r)
                \/ \E t \in held, op \in {"access", "logout"} : Arrive(r, t, op)
                \/ LoadUser(r) \/ FillUser(r) \/ CheckBlacklist(r) \/ CheckVersion(r)
                \/ Serve(r) \/ LogoutBlacklist(r) \/ LogoutRecord(r) \/ RequestFails(r)
           \/ \E w \in Writes :
                \/ \E u \in Users, kind \in Kinds : WriteCommit(w, u, kind)
                \/ WriteSetVersion(w)
                \/ \E part \in {"info", "records"} : WriteClean(w, part)
                \/ WriteFails(w)
           \/ \E t \in held : Expire(t)
           \/ \E i \in expired : KeysExpire(i)
           \/ \E u \in Users : InfoExpires(u)
BY DEF Next, RequestStep, WriteStep

\* The kind of flow follows from its step.
GuardSteps == {"loadUser", "fillUser", "blacklist", "version", "accepted", "revoke"}

LEMMA FlowKinds ==
    ASSUME TypeOK, NEW r \in Requests
    PROVE  /\ At(r, "mint") => req[r] \in Minting
           /\ req[r].pc \in {"setVersion", "respond"} => req[r] \in Minted
           /\ req[r].pc \in GuardSteps => req[r] \in Guarded
BY DEF TypeOK, Flow, Minting, Minted, Guarded, Idle, GuardSteps, At

LEMMA GotoTyped ==
    ASSUME TypeOK, NEW r \in Requests, NEW step \in GuardSteps,
           req[r].pc \in GuardSteps, Goto(r, step)
    PROVE  req' \in [Requests -> {Idle} \cup Flow]
<1>1. [req[r] EXCEPT !.pc = step] \in Guarded
  BY FlowKinds DEF Guarded, GuardSteps
<1>2. QED
  BY <1>1 DEF TypeOK, Goto, Flow

LEMMA EndTyped ==
    ASSUME TypeOK, NEW r \in Requests, End(r)
    PROVE  req' \in [Requests -> {Idle} \cup Flow]
BY DEF TypeOK, End

\* The versions and the account-side history, in the steps that leave them alone.
LEMMA RequestTyped ==
    ASSUME TypeOK, NEW r \in Requests,
           UNCHANGED <<accounts, pvCache, info, expired, write, published, regressed>>,
           records' \subseteq records \cup Ids, blacklist' \subseteq blacklist \cup Ids,
           loggedOut' \subseteq loggedOut \cup Ids,
           issued' \subseteq issued \cup Jwt, held' \subseteq held \cup Jwt,
           req' \in [Requests -> {Idle} \cup Flow]
    PROVE  TypeOK'
BY DEF TypeOK, AccountsTypeOK, accounts

LEMMA StepTyped ==
    ASSUME TypeOK, [Next]_vars
    PROVE  TypeOK'
<1>1. CASE UNCHANGED vars
  BY <1>1 DEF vars, TypeOK, AccountsTypeOK
<1>2. ASSUME NEW r \in Requests, NEW u \in Users, NEW op \in {"login", "refresh"},
             SignIn(r, u, op)
      PROVE  TypeOK'
  <2>1. req' \in [Requests -> {Idle} \cup Flow]
    BY <1>2 DEF SignIn, Flow, Minting, TypeOK, AccountsTypeOK
  <2>2. QED
    BY <1>2, <2>1, RequestTyped DEF SignIn, redis, history
<1>3. ASSUME NEW r \in Requests, Mint(r)
      PROVE  TypeOK'
  <2>1. req[r] \in Minting
    BY <1>3, FlowKinds DEF Mint
  <2>2. PICK i \in Fresh :
          LET t == [req[r].jwt EXCEPT !.id = i]
          IN  /\ issued' = issued \cup {t}
              /\ records' = records \cup {i}
              /\ req' = [req EXCEPT ![r] = [req[r] EXCEPT
                     !.jwt = t,
                     !.pc = IF req[r].op = "login" THEN "setVersion" ELSE "respond"]]
    BY <1>3 DEF Mint
  <2> DEFINE t == [req[r].jwt EXCEPT !.id = i]
  <2>3. t \in Jwt /\ i \in Ids
    BY <2>1 DEF Minting, Jwt, Fresh
  <2>4. req' \in [Requests -> {Idle} \cup Flow]
    BY <2>1, <2>2, <2>3 DEF Minting, Minted, Flow, TypeOK
  <2>5. QED
    BY <1>3, <2>2, <2>3, <2>4, RequestTyped DEF Mint, history
<1>4. ASSUME NEW r \in Requests, LoginSetVersion(r)
      PROVE  TypeOK'
  <2>1. req[r] \in Minted
    BY <1>4, FlowKinds DEF LoginSetVersion, At
  <2>2. req' \in [Requests -> {Idle} \cup Flow]
    BY <1>4, <2>1 DEF LoginSetVersion, Goto, Minted, Flow, TypeOK
  <2>3. /\ pvCache' \in [Users -> 0..MaxVersion] /\ regressed' \subseteq Users
    BY <1>4, <2>1, AccountsAssumption DEF LoginSetVersion, PutVersion, Minted, Jwt, Versions, TypeOK
  <2>4. QED
    BY <1>4, <2>2, <2>3 DEF LoginSetVersion, TypeOK, AccountsTypeOK, accounts
<1>5. ASSUME NEW r \in Requests, Respond(r)
      PROVE  TypeOK'
  <2>1. req[r].jwt \in Jwt
    BY <1>5, FlowKinds DEF Respond, At, Minted
  <2>2. QED
    BY <1>5, <2>1, EndTyped, RequestTyped DEF Respond, redis, history
<1>6. ASSUME NEW r \in Requests, NEW t \in held, NEW op \in {"access", "logout"},
             Arrive(r, t, op)
      PROVE  TypeOK'
  <2>1. t \in Jwt /\ published[t.uid] \in 0..(MaxVersion + 1)
    BY DEF TypeOK, Jwt
  <2>2. req' \in [Requests -> {Idle} \cup Flow]
    BY <1>6, <2>1 DEF Arrive, Guarded, Flow, TypeOK
  <2>3. QED
    BY <1>6, <2>2, RequestTyped DEF Arrive, redis, history
<1>7. ASSUME NEW r \in Requests, LoadUser(r)
      PROVE  TypeOK'
  <2>1. req[r] \in Guarded
    BY <1>7, FlowKinds DEF LoadUser, At, GuardSteps
  <2> DEFINE st == status[req[r].jwt.uid]
             next == [req[r] EXCEPT !.pc = "fillUser", !.seen = st]
  <2>2. req' \in [Requests -> {Idle} \cup Flow]
    <3>1. CASE st = "deleted"
      BY <1>7, <3>1, EndTyped DEF LoadUser
    <3>2. CASE st # "deleted"
      <4>1. st \in {"enabled", "disabled"}
        BY <2>1, <3>2 DEF Guarded, Jwt, TypeOK, AccountsTypeOK, Statuses
      <4>2. next \in Guarded
        BY <2>1, <4>1 DEF Guarded
      <4>3. req' = [req EXCEPT ![r] = next]
        BY <1>7, <3>2 DEF LoadUser
      <4> QED
        BY <4>2, <4>3 DEF Flow, TypeOK
    <3> QED
      BY <3>1, <3>2
  <2>3. QED
    BY <1>7, <2>2, RequestTyped DEF LoadUser, redis, history
<1>8. ASSUME NEW r \in Requests, FillUser(r)
      PROVE  TypeOK'
  <2>1. req[r] \in Guarded
    BY <1>8, FlowKinds DEF FillUser, At, GuardSteps
  <2>2. req' \in [Requests -> {Idle} \cup Flow]
    BY <1>8, EndTyped, GotoTyped DEF FillUser, At, GuardSteps
  <2>3. info' \in [Users -> {"none", "enabled", "disabled"}]
    BY <1>8, <2>1 DEF FillUser, Guarded, TypeOK
  <2>4. QED
    BY <1>8, <2>2, <2>3 DEF FillUser, history, accounts, TypeOK, AccountsTypeOK
<1>9. ASSUME NEW r \in Requests, CheckBlacklist(r) \/ CheckVersion(r) \/ Serve(r)
      PROVE  TypeOK'
  <2>1. req' \in [Requests -> {Idle} \cup Flow]
    BY <1>9, EndTyped, GotoTyped DEF CheckBlacklist, CheckVersion, Serve, At, GuardSteps
  <2>2. QED
    BY <1>9, <2>1, RequestTyped DEF CheckBlacklist, CheckVersion, Serve, redis, history
<1>10. ASSUME NEW r \in Requests, LogoutBlacklist(r)
       PROVE  TypeOK'
  <2>1. req[r].jwt.id \in Ids
    BY <1>10, FlowKinds DEF LogoutBlacklist, At, GuardSteps, Guarded, Jwt
  <2>2. req' \in [Requests -> {Idle} \cup Flow]
    BY <1>10, EndTyped, GotoTyped DEF LogoutBlacklist, At, GuardSteps
  <2>3. QED
    BY <1>10, <2>1, <2>2, RequestTyped DEF LogoutBlacklist
<1>11. ASSUME NEW r \in Requests, LogoutRecord(r) \/ RequestFails(r)
       PROVE  TypeOK'
  BY <1>11, EndTyped, RequestTyped DEF LogoutRecord, RequestFails, redis, history
<1>12. ASSUME NEW w \in Writes, NEW u \in Users, NEW kind \in Kinds, WriteCommit(w, u, kind)
       PROVE  TypeOK'
  <2>1. /\ kind \in AccountKinds
        /\ Bumps(kind) => sv[u] + 1 \in Versions
    BY <1>12, AccountsAssumption DEF WriteCommit, Writable, TypeOK, AccountsTypeOK, Versions
  <2>2. sv' \in [Users -> Versions]
    BY <1>12, <2>1 DEF WriteCommit, ApplyWrite, TypeOK, AccountsTypeOK, AccountKinds
  <2>3. status' \in [Users -> Statuses]
    BY <1>12, <2>1 DEF WriteCommit, ApplyWrite, TypeOK, AccountsTypeOK, Statuses, AccountKinds
  <2>4. write' \in [Writes -> {NoWrite} \cup CacheEffects]
    BY <1>12, <2>1, AccountsAssumption DEF WriteCommit, CacheEffects, TypeOK, Versions
  <2>5. QED
    BY <1>12, <2>2, <2>3, <2>4 DEF WriteCommit, TypeOK, AccountsTypeOK, redis, history
<1>13. ASSUME NEW w \in Writes, WriteSetVersion(w)
       PROVE  TypeOK'
  <2>1. write[w] \in CacheEffects
    BY <1>13 DEF WriteSetVersion, TypeOK, NoWrite
  <2>2. write' \in [Writes -> {NoWrite} \cup CacheEffects]
    BY <1>13, <2>1 DEF WriteSetVersion, CacheEffects, TypeOK
  <2>3. /\ pvCache' \in [Users -> 0..MaxVersion] /\ regressed' \subseteq Users
        /\ published' \in [Users -> 0..(MaxVersion + 1)]
    BY <1>13, <2>1, AccountsAssumption DEF WriteSetVersion, PutVersion, CacheEffects, TypeOK
  <2>4. QED
    BY <1>13, <2>2, <2>3 DEF WriteSetVersion, TypeOK, AccountsTypeOK, accounts
<1>14. ASSUME NEW w \in Writes, NEW part \in {"info", "records"}, WriteClean(w, part)
       PROVE  TypeOK'
  <2>1. write[w] \in CacheEffects
    BY <1>14 DEF WriteClean, TypeOK, NoWrite
  <2>2. write' \in [Writes -> {NoWrite} \cup CacheEffects]
    BY <1>14, <2>1 DEF WriteClean, CacheEffects, TypeOK
  <2>3. info' \in [Users -> {"none", "enabled", "disabled"}] /\ records' \subseteq Ids
    BY <1>14 DEF WriteClean, TypeOK
  <2>4. QED
    BY <1>14, <2>2, <2>3 DEF WriteClean, TypeOK, AccountsTypeOK, accounts, history
<1>15. ASSUME \/ \E w \in Writes : WriteFails(w)
              \/ \E t \in held : Expire(t)
              \/ \E i \in expired : KeysExpire(i)
              \/ \E u \in Users : InfoExpires(u)
       PROVE  TypeOK'
  BY <1>15 DEF WriteFails, Expire, KeysExpire, InfoExpires, TypeOK, AccountsTypeOK,
               accounts, redis, history, Jwt
<1>16. QED
  BY <1>1, <1>2, <1>3, <1>4, <1>5, <1>6, <1>7, <1>8, <1>9, <1>10, <1>11, <1>12, <1>13,
     <1>14, <1>15, NextActions

\* Every variable stays in its type.
THEOREM TypeCorrect == Spec => []TypeOK
BY InitTyped, StepTyped, PTL DEF Spec

-----------------------------------------------------------------------------
(* Logouts: the blacklist covers a logged-out JWT until it expires.        *)

Covered == loggedOut \subseteq blacklist \cup expired

\* A request that came in after the logout.
LateFlow(r) ==
    /\ req[r].pc \in GuardSteps /\ req[r].late => req[r].jwt.id \in loggedOut
    /\ req[r].pc \in {"version", "accepted"} /\ req[r].late => req[r].jwt.id \in expired

Logouts == Covered /\ \A r \in Requests : LateFlow(r)

LEMMA InitLogouts == Init => Logouts
BY DEF Init, Logouts, Covered, LateFlow, Idle, GuardSteps

\* A step that may only change one request: the others stay as they are.
LEMMA RequestLogouts ==
    ASSUME TypeOK, Logouts, NEW r \in Requests, NEW next, req' = [req EXCEPT ![r] = next],
           UNCHANGED <<blacklist, loggedOut, expired>>, LateFlow(r)'
    PROVE  Logouts'
<1>1. \A q \in Requests \ {r} : req'[q] = req[q]
  BY DEF TypeOK
<1>2. QED
  BY <1>1 DEF Logouts, Covered, LateFlow

LEMMA EndLogouts ==
    ASSUME TypeOK, Logouts, NEW r \in Requests, End(r), UNCHANGED <<blacklist, loggedOut, expired>>
    PROVE  Logouts'
<1>1. LateFlow(r)'
  BY DEF End, Idle, LateFlow, GuardSteps, TypeOK
<1>2. QED
  BY <1>1, RequestLogouts DEF End

\* Goto as an update of the whole flow.
LEMMA GotoUpdate ==
    ASSUME TypeOK, NEW r \in Requests, NEW step, req[r].pc \in GuardSteps, Goto(r, step)
    PROVE  /\ req'[r].pc = step
           /\ req'[r].jwt = req[r].jwt /\ req'[r].late = req[r].late /\ req'[r].floor = req[r].floor
           /\ req' = [req EXCEPT ![r] = req'[r]]
<1>1. req[r] \in Guarded
  BY FlowKinds
<1>2. QED
  BY <1>1 DEF Goto, Guarded, TypeOK

LEMMA StepLogouts ==
    ASSUME TypeOK, Logouts, [Next]_vars
    PROVE  Logouts'
<1>1. CASE UNCHANGED vars
  BY <1>1 DEF vars, Logouts, Covered, LateFlow
<1>2. ASSUME NEW r \in Requests,
             \/ \E u \in Users, op \in {"login", "refresh"} : SignIn(r, u, op)
             \/ Mint(r) \/ LoginSetVersion(r)
      PROVE  Logouts'
  <2>1. /\ req'[r].pc \in {"mint", "setVersion", "respond"}
        /\ UNCHANGED <<blacklist, loggedOut, expired>>
        /\ req' = [req EXCEPT ![r] = req'[r]]
    <3>1. CASE \E u \in Users, op \in {"login", "refresh"} : SignIn(r, u, op)
      BY <3>1 DEF SignIn, redis, history, TypeOK
    <3>2. CASE Mint(r)
      <4>1. req[r] \in Minting
        BY <3>2, FlowKinds DEF Mint
      <4>2. QED
        BY <3>2, <4>1 DEF Mint, Minting, history, TypeOK
    <3>3. CASE LoginSetVersion(r)
      <4>1. req[r] \in Minted
        BY <3>3, FlowKinds DEF LoginSetVersion, At
      <4>2. QED
        BY <3>3, <4>1 DEF LoginSetVersion, Goto, Minted, TypeOK
    <3>4. QED
      BY <1>2, <3>1, <3>2, <3>3
  <2>2. LateFlow(r)'
    BY <2>1 DEF LateFlow, GuardSteps
  <2>3. QED
    BY <2>1, <2>2, RequestLogouts
<1>3. ASSUME NEW r \in Requests, NEW t \in held, NEW op \in {"access", "logout"},
             Arrive(r, t, op)
      PROVE  Logouts'
  <2>1. /\ req' = [req EXCEPT ![r] = req'[r]]
        /\ req'[r].jwt = t /\ req'[r].late = (t.id \in loggedOut)
        /\ req'[r].pc \in {"loadUser", "blacklist"}
        /\ UNCHANGED <<blacklist, loggedOut, expired>>
    BY <1>3 DEF Arrive, redis, history, TypeOK
  <2>2. LateFlow(r)'
    BY <2>1 DEF LateFlow
  <2>3. QED
    BY <2>1, <2>2, RequestLogouts
<1>4. ASSUME NEW r \in Requests, LoadUser(r)
      PROVE  Logouts'
  <2>1. req[r] \in Guarded /\ req[r].pc \in GuardSteps /\ UNCHANGED <<blacklist, loggedOut, expired>>
    BY <1>4, FlowKinds DEF LoadUser, At, GuardSteps, redis, history
  <2>2. CASE req' = [req EXCEPT ![r] = [req[r] EXCEPT !.pc = "fillUser", !.seen = status[req[r].jwt.uid]]]
    <3>1. /\ req' = [req EXCEPT ![r] = req'[r]] /\ req'[r].pc = "fillUser"
          /\ req'[r].jwt = req[r].jwt /\ req'[r].late = req[r].late
      BY <2>1, <2>2 DEF Guarded, TypeOK
    <3>2. LateFlow(r)'
      BY <2>1, <3>1 DEF Logouts, LateFlow
    <3>3. QED
      BY <2>1, <3>1, <3>2, RequestLogouts
  <2>3. QED
    BY <1>4, <2>1, <2>2, EndLogouts DEF LoadUser
<1>5. ASSUME NEW r \in Requests, FillUser(r)
      PROVE  Logouts'
  <2>1. req[r].pc \in GuardSteps /\ UNCHANGED <<blacklist, loggedOut, expired>>
    BY <1>5 DEF FillUser, At, GuardSteps, history
  <2>2. CASE Goto(r, "blacklist")
    <3>1. LateFlow(r)'
      BY <2>1, <2>2, GotoUpdate DEF Logouts, LateFlow
    <3>2. QED
      BY <2>1, <2>2, <3>1, GotoUpdate, RequestLogouts
  <2>3. QED
    BY <1>5, <2>1, <2>2, EndLogouts DEF FillUser
<1>6. ASSUME NEW r \in Requests, CheckBlacklist(r)
      PROVE  Logouts'
  <2>1. req[r].pc \in GuardSteps /\ UNCHANGED <<blacklist, loggedOut, expired>>
    BY <1>6 DEF CheckBlacklist, At, GuardSteps, redis, history
  <2>2. CASE req[r].jwt.id \notin blacklist
    <3>1. Goto(r, "version")
      BY <1>6, <2>2 DEF CheckBlacklist
    <3>2. req[r].late => req[r].jwt.id \in expired
      BY <2>1, <2>2 DEF Logouts, Covered, LateFlow
    <3>3. LateFlow(r)'
      BY <2>1, <3>1, <3>2, GotoUpdate DEF Logouts, LateFlow
    <3>4. QED
      BY <2>1, <3>1, <3>3, GotoUpdate, RequestLogouts
  <2>3. QED
    BY <1>6, <2>1, <2>2, EndLogouts DEF CheckBlacklist
<1>7. ASSUME NEW r \in Requests, CheckVersion(r)
      PROVE  Logouts'
  <2>1. /\ req[r].pc \in GuardSteps /\ req[r].pc = "version"
        /\ UNCHANGED <<blacklist, loggedOut, expired>>
    BY <1>7 DEF CheckVersion, At, GuardSteps, redis, history
  <2>2. CASE Goto(r, "accepted")
    <3>1. LateFlow(r)'
      BY <2>1, <2>2, GotoUpdate DEF Logouts, LateFlow
    <3>2. QED
      BY <2>1, <2>2, <3>1, GotoUpdate, RequestLogouts
  <2>3. QED
    BY <1>7, <2>1, <2>2, EndLogouts DEF CheckVersion
<1>8. ASSUME NEW r \in Requests, LogoutBlacklist(r)
      PROVE  Logouts'
  <2>1. /\ req[r].pc \in GuardSteps /\ UNCHANGED expired
    BY <1>8 DEF LogoutBlacklist, At, GuardSteps
  <2>2. CASE req[r].jwt.id \in expired
    BY <1>8, <2>1, <2>2, EndLogouts DEF LogoutBlacklist
  <2>3. CASE req[r].jwt.id \notin expired
    <3>1. /\ blacklist' = blacklist \cup {req[r].jwt.id}
          /\ loggedOut' = loggedOut \cup {req[r].jwt.id}
          /\ Goto(r, "revoke")
      BY <1>8, <2>3 DEF LogoutBlacklist
    <3>2. \A q \in Requests \ {r} : req'[q] = req[q]
      BY <3>1 DEF Goto, TypeOK
    <3>3. LateFlow(r)'
      BY <2>1, <3>1, GotoUpdate DEF Logouts, LateFlow
    <3>4. \A q \in Requests \ {r} : LateFlow(q)'
      BY <2>1, <3>1, <3>2 DEF Logouts, LateFlow
    <3>5. QED
      BY <2>1, <3>1, <3>3, <3>4 DEF Logouts, Covered
  <2>4. QED
    BY <2>2, <2>3
<1>9. ASSUME NEW r \in Requests, Respond(r) \/ Serve(r) \/ LogoutRecord(r) \/ RequestFails(r)
      PROVE  Logouts'
  BY <1>9, EndLogouts DEF Respond, Serve, LogoutRecord, RequestFails, redis, history
<1>10. ASSUME \/ \E w \in Writes :
                   \/ \E u \in Users, kind \in Kinds : WriteCommit(w, u, kind)
                   \/ WriteSetVersion(w)
                   \/ \E part \in {"info", "records"} : WriteClean(w, part)
                   \/ WriteFails(w)
              \/ \E u \in Users : InfoExpires(u)
       PROVE  Logouts'
  <2>1. UNCHANGED <<req, blacklist, loggedOut, expired>>
    BY <1>10 DEF WriteCommit, WriteSetVersion, WriteClean, WriteFails, InfoExpires, redis, history
  <2>2. QED
    BY <2>1 DEF Logouts, Covered, LateFlow
<1>11. ASSUME (\E t \in held : Expire(t)) \/ (\E i \in expired : KeysExpire(i))
       PROVE  Logouts'
  <2>1. /\ UNCHANGED <<req, loggedOut>> /\ expired \subseteq expired'
        /\ blacklist \subseteq blacklist' \cup expired
    BY <1>11 DEF Expire, KeysExpire, redis, history
  <2>2. QED
    BY <2>1 DEF Logouts, Covered, LateFlow
<1>12. QED
  BY <1>1, <1>2, <1>3, <1>4, <1>5, <1>6, <1>7, <1>8, <1>9, <1>10, <1>11, NextActions

\* A request sent after its JWT was logged out is not accepted for the rest of
\* the JWT's life.
THEOREM LogoutHolds == Spec => []LoggedOutStaysOut
<1>1. TypeOK /\ Logouts => LoggedOutStaysOut
  BY DEF Logouts, LateFlow, LoggedOutStaysOut, At
<1>2. QED
  BY <1>1, InitTyped, StepTyped, InitLogouts, StepLogouts, PTL DEF Spec

-----------------------------------------------------------------------------
(* Versions: what the cached version lets through.                         *)

\* Until it is put back, the cached version is absent or one a revocation left valid.
CacheCurrent ==
    \A u \in Users \ regressed : pvCache[u] = 0 \/ pvCache[u] >= published[u]

FloorFlow(r) ==
    LET x == req[r] IN
    /\ x.pc \in GuardSteps => x.floor <= published[x.jwt.uid]
    /\ At(r, "accepted") /\ x.jwt.uid \notin regressed => x.jwt.pv >= x.floor

Floors == CacheCurrent /\ \A r \in Requests : FloorFlow(r)

LEMMA InitFloors == Init => Floors
BY DEF Init, Floors, CacheCurrent, FloorFlow, Idle, GuardSteps, At

LEMMA RequestFloors ==
    ASSUME TypeOK, Floors, NEW r \in Requests, NEW next, req' = [req EXCEPT ![r] = next],
           UNCHANGED <<pvCache, published, regressed>>, FloorFlow(r)'
    PROVE  Floors'
<1>1. \A q \in Requests \ {r} : req'[q] = req[q]
  BY DEF TypeOK
<1>2. QED
  BY <1>1 DEF Floors, CacheCurrent, FloorFlow, At

LEMMA EndFloors ==
    ASSUME TypeOK, Floors, NEW r \in Requests, End(r), UNCHANGED <<pvCache, published, regressed>>
    PROVE  Floors'
<1>1. FloorFlow(r)'
  BY DEF End, Idle, FloorFlow, GuardSteps, At, TypeOK
<1>2. QED
  BY <1>1, RequestFloors DEF End

\* A version put into the cache, by a login or a write.
LEMMA PutVersionFloors ==
    ASSUME TypeOK, Floors, NEW u \in Users, NEW v \in 0..MaxVersion, PutVersion(u, v),
           published' \in [Users -> Nat],
           \A x \in Users : published'[x] >= published[x],
           \A x \in Users \ {u} : published'[x] = published[x],
           v = 0 \/ published'[u] = published[u] \/ published'[u] <= v
    PROVE  CacheCurrent' /\ regressed \subseteq regressed'
<1>1. /\ pvCache' = [pvCache EXCEPT ![u] = v] /\ regressed \subseteq regressed'
      /\ u \notin regressed' => v = 0 \/ ~(v < published[u])
  BY DEF PutVersion
<1>2. /\ published \in [Users -> 0..(MaxVersion + 1)]
      /\ pvCache \in [Users -> 0..MaxVersion] /\ v \in Nat
  BY AccountsAssumption DEF TypeOK
<1>3. \A x \in Users : published[x] \in Nat
  BY <1>2, AccountsAssumption
<1>4. u \notin regressed' => pvCache'[u] = 0 \/ pvCache'[u] >= published'[u]
  BY <1>1, <1>2, <1>3
<1>5. \A x \in Users \ {u} : x \notin regressed' => pvCache'[x] = 0 \/ pvCache'[x] >= published'[x]
  BY <1>1, <1>2 DEF Floors, CacheCurrent
<1>6. QED
  BY <1>1, <1>4, <1>5 DEF CacheCurrent

LEMMA StepFloors ==
    ASSUME TypeOK, Floors, [Next]_vars
    PROVE  Floors'
<1>1. CASE UNCHANGED vars
  BY <1>1 DEF vars, Floors, CacheCurrent, FloorFlow, At
<1>2. ASSUME NEW r \in Requests,
             (\E u \in Users, op \in {"login", "refresh"} : SignIn(r, u, op)) \/ Mint(r)
      PROVE  Floors'
  <2>1. /\ req'[r].pc \in {"mint", "setVersion", "respond"}
        /\ UNCHANGED <<pvCache, published, regressed>>
        /\ req' = [req EXCEPT ![r] = req'[r]]
    <3>1. CASE \E u \in Users, op \in {"login", "refresh"} : SignIn(r, u, op)
      BY <3>1 DEF SignIn, redis, history, TypeOK
    <3>2. CASE Mint(r)
      <4>1. req[r] \in Minting
        BY <3>2, FlowKinds DEF Mint
      <4>2. QED
        BY <3>2, <4>1 DEF Mint, Minting, history, TypeOK
    <3>3. QED
      BY <1>2, <3>1, <3>2
  <2>2. FloorFlow(r)'
    BY <2>1 DEF FloorFlow, GuardSteps, At
  <2>3. QED
    BY <2>1, <2>2, RequestFloors
<1>3. ASSUME NEW r \in Requests, LoginSetVersion(r)
      PROVE  Floors'
  <2>1. req[r] \in Minted /\ UNCHANGED published
    BY <1>3, FlowKinds DEF LoginSetVersion, At
  <2>2. CacheCurrent' /\ regressed \subseteq regressed'
    <3>1. published \in [Users -> Nat]
      BY AccountsAssumption DEF TypeOK
    <3>2. req[r].jwt.uid \in Users /\ req[r].jwt.pv \in 0..MaxVersion
      BY <2>1, AccountsAssumption DEF Minted, Jwt, Versions
    <3>3. QED
      BY <1>3, <2>1, <3>1, <3>2, PutVersionFloors DEF LoginSetVersion
  <2>3. /\ req'[r].pc = "respond" /\ \A q \in Requests \ {r} : req'[q] = req[q]
    BY <1>3, <2>1 DEF LoginSetVersion, Goto, Minted, TypeOK
  <2>4. \A q \in Requests : FloorFlow(q)'
    BY <2>1, <2>2, <2>3 DEF Floors, FloorFlow, GuardSteps, At
  <2>5. QED
    BY <2>2, <2>4 DEF Floors
<1>4. ASSUME NEW r \in Requests, NEW t \in held, NEW op \in {"access", "logout"},
             Arrive(r, t, op)
      PROVE  Floors'
  <2>1. /\ req' = [req EXCEPT ![r] = req'[r]]
        /\ req'[r].jwt = t /\ req'[r].floor = published[t.uid]
        /\ req'[r].pc \in {"loadUser", "blacklist"}
        /\ UNCHANGED <<pvCache, published, regressed>>
    BY <1>4 DEF Arrive, redis, history, TypeOK
  <2>2. published[t.uid] \in Nat
    BY AccountsAssumption DEF TypeOK, Jwt
  <2>3. FloorFlow(r)'
    BY <2>1, <2>2 DEF FloorFlow, At
  <2>4. QED
    BY <2>1, <2>3, RequestFloors
<1>5. ASSUME NEW r \in Requests, LoadUser(r)
      PROVE  Floors'
  <2>1. /\ req[r] \in Guarded /\ req[r].pc \in GuardSteps
        /\ UNCHANGED <<pvCache, published, regressed>>
    BY <1>5, FlowKinds DEF LoadUser, At, GuardSteps, redis, history
  <2>2. CASE req' = [req EXCEPT ![r] = [req[r] EXCEPT !.pc = "fillUser", !.seen = status[req[r].jwt.uid]]]
    <3>1. /\ req' = [req EXCEPT ![r] = req'[r]] /\ req'[r].pc = "fillUser"
          /\ req'[r].jwt = req[r].jwt /\ req'[r].floor = req[r].floor
      BY <2>1, <2>2 DEF Guarded, TypeOK
    <3>2. FloorFlow(r)'
      BY <2>1, <3>1 DEF Floors, FloorFlow, At
    <3>3. QED
      BY <2>1, <3>1, <3>2, RequestFloors
  <2>3. QED
    BY <1>5, <2>1, <2>2, EndFloors DEF LoadUser
\* Goto between two steps of the guard other than its last check.
<1>6. ASSUME NEW r \in Requests, req[r].pc \in GuardSteps, NEW step, Goto(r, step),
             step # "accepted", UNCHANGED <<pvCache, published, regressed>>
      PROVE  Floors'
  <2>1. FloorFlow(r)'
    BY <1>6, GotoUpdate DEF Floors, FloorFlow, At
  <2>2. QED
    BY <1>6, <2>1, GotoUpdate, RequestFloors
<1>7. ASSUME NEW r \in Requests, FillUser(r) \/ CheckBlacklist(r) \/ LogoutBlacklist(r)
      PROVE  Floors'
  <2>1. req[r].pc \in GuardSteps /\ UNCHANGED <<pvCache, published, regressed>>
    BY <1>7 DEF FillUser, CheckBlacklist, LogoutBlacklist, At, GuardSteps, redis, history
  <2>2. End(r) \/ \E step \in {"blacklist", "version", "revoke"} : Goto(r, step)
    BY <1>7 DEF FillUser, CheckBlacklist, LogoutBlacklist
  <2>3. QED
    BY <1>6, <2>1, <2>2, EndFloors
<1>8. ASSUME NEW r \in Requests, CheckVersion(r)
      PROVE  Floors'
  <2>1. /\ req[r] \in Guarded /\ req[r].pc \in GuardSteps
        /\ UNCHANGED <<pvCache, published, regressed>>
    BY <1>8, FlowKinds DEF CheckVersion, At, GuardSteps, redis, history
  <2>2. CASE pvCache[req[r].jwt.uid] = req[r].jwt.pv
    <3> DEFINE t == req[r].jwt
    <3>1. /\ t.uid \in Users /\ t.pv \in Nat \ {0} /\ req[r].floor \in Nat
          /\ published[t.uid] \in Nat
      BY <2>1, AccountsAssumption DEF Guarded, Jwt, Versions, TypeOK
    <3>2. t.uid \notin regressed => t.pv >= published[t.uid]
      BY <2>2, <3>1 DEF Floors, CacheCurrent
    <3>3. req[r].floor <= published[t.uid]
      BY <2>1 DEF Floors, FloorFlow
    <3>4. t.uid \notin regressed => t.pv >= req[r].floor
      BY <3>1, <3>2, <3>3
    <3>5. Goto(r, "accepted")
      BY <1>8, <2>2 DEF CheckVersion
    <3>6. FloorFlow(r)'
      BY <2>1, <3>3, <3>4, <3>5, GotoUpdate DEF FloorFlow, At
    <3>7. QED
      BY <2>1, <3>5, <3>6, GotoUpdate, RequestFloors
  <2>3. QED
    BY <1>8, <2>1, <2>2, EndFloors DEF CheckVersion
<1>9. ASSUME NEW r \in Requests, Respond(r) \/ Serve(r) \/ LogoutRecord(r) \/ RequestFails(r)
      PROVE  Floors'
  BY <1>9, EndFloors DEF Respond, Serve, LogoutRecord, RequestFails, redis, history
<1>10. ASSUME NEW w \in Writes, WriteSetVersion(w)
       PROVE  Floors'
  <2> DEFINE x == write[w]
             floor == IF x.version = 0 THEN MaxVersion + 1 ELSE x.version
  <2>1. x \in CacheEffects
    BY <1>10 DEF WriteSetVersion, TypeOK, NoWrite
  <2>2. /\ PutVersion(x.uid, x.version) /\ UNCHANGED req
        /\ published' = [published EXCEPT ![x.uid] = IF floor > @ THEN floor ELSE @]
    BY <1>10 DEF WriteSetVersion
  <2>3. x.uid \in Users /\ x.version \in 0..MaxVersion /\ floor \in Nat
    BY <2>1, AccountsAssumption DEF CacheEffects
  <2>4. published \in [Users -> Nat]
    BY AccountsAssumption DEF TypeOK
  <2>5. /\ published' \in [Users -> Nat]
        /\ \A u \in Users : published'[u] >= published[u]
        /\ \A u \in Users \ {x.uid} : published'[u] = published[u]
        /\ x.version = 0 \/ published'[x.uid] = published[x.uid] \/ published'[x.uid] <= x.version
    BY <2>2, <2>3, <2>4
  <2>6. CacheCurrent' /\ regressed \subseteq regressed'
    BY <2>2, <2>3, <2>5, PutVersionFloors
  <2>7. ASSUME NEW r \in Requests PROVE FloorFlow(r)'
    <3>1. CASE req[r].pc \in GuardSteps
      <4>1. req[r] \in Guarded
        BY <3>1, FlowKinds
      <4>2. req[r].jwt.uid \in Users /\ req[r].floor \in Nat
        BY <4>1, AccountsAssumption DEF Guarded, Jwt
      <4>3. req[r].floor <= published'[req[r].jwt.uid]
        BY <2>4, <2>5, <3>1, <4>2 DEF Floors, FloorFlow
      <4>4. QED
        BY <2>2, <2>6, <4>3 DEF Floors, FloorFlow, At
    <3>2. CASE req[r].pc \notin GuardSteps
      BY <2>2, <3>2 DEF FloorFlow, At, GuardSteps
    <3>3. QED
      BY <3>1, <3>2
  <2>8. QED
    BY <2>6, <2>7 DEF Floors
<1>11. ASSUME \/ \E w \in Writes :
                   \/ \E u \in Users, kind \in Kinds : WriteCommit(w, u, kind)
                   \/ \E part \in {"info", "records"} : WriteClean(w, part)
                   \/ WriteFails(w)
              \/ \E t \in held : Expire(t)
              \/ \E i \in expired : KeysExpire(i)
              \/ \E u \in Users : InfoExpires(u)
       PROVE  Floors'
  <2>1. UNCHANGED <<req, pvCache, published, regressed>>
    BY <1>11 DEF WriteCommit, WriteClean, WriteFails, Expire, KeysExpire, InfoExpires, redis, history
  <2>2. QED
    BY <2>1 DEF Floors, CacheCurrent, FloorFlow, At
<1>12. QED
  BY <1>1, <1>2, <1>3, <1>4, <1>5, <1>7, <1>8, <1>9, <1>10, <1>11, NextActions

\* Once the version of a revocation is in Redis, an older JWT gets through only
\* if a later write puts the version back.
THEOREM OnlyRegressionReadmits == Spec => []OldJwtNeedsRegression
<1>1. TypeOK /\ Floors => OldJwtNeedsRegression
  BY DEF Floors, FloorFlow, OldJwtNeedsRegression, At
<1>2. QED
  BY <1>1, InitTyped, StepTyped, InitFloors, StepFloors, PTL DEF Spec

=============================================================================
