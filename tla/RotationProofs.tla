--------------------------- MODULE RotationProofs ---------------------------
(***************************************************************************)
(* Proofs about module Rotation, for any number of users, requests, writes *)
(* and tokens.                                                             *)
(***************************************************************************)
EXTENDS Rotation, TLAPS

-----------------------------------------------------------------------------
(* Types.                                                                  *)

\* What an open transaction has checked of the user row it locked.
WriteOK ==
    \A w \in Writes :
        write[w].pc = "tx" =>
            /\ Bumps(write[w].kind) => write[w].sv < MaxVersion
            /\ write[w].kind = "enable" => write[w].was = "disabled"
            /\ write[w].kind = "disable" => write[w].was = "enabled"
            /\ write[w].was # "deleted"

Typed == TypeOK /\ WriteOK

LEMMA InitTyped == Init => Typed
BY AccountsAssumption
DEF Init, Typed, WriteOK, TypeOK, AccountsInit, AccountsTypeOK, Versions, Statuses, Idle, NoWrite

\* Next with its disjuncts named, so that a step is proved action by action.
LEMMA NextActions ==
    ASSUME Next
    PROVE  \/ \E r \in Requests :
                \/ \E u \in Users : Login(r, u)
                \/ InsertRow(r) \/ SetKey(r) \/ Respond(r)
                \/ \E t \in held : RefreshStart(r, t)
                \/ FindRow(r) \/ SessionState(r) \/ Consume(r) \/ DelKey(r)
                \/ \E t \in held : LogoutStart(r, t)
                \/ RevokeRow(r) \/ RevokeKey(r) \/ RequestFails(r)
           \/ \E w \in Writes :
                \/ \E u \in Users, kind \in Kinds : WriteBegin(w, u, kind)
                \/ WriteCommit(w) \/ WriteConflict(w) \/ ScanKeys(w) \/ WriteFails(w)
BY DEF Next, RequestStep, WriteStep

\* Past its INSERT, and in a refresh or logout from the start, a flow carries a
\* signed token.
LEMMA CarriesToken ==
    ASSUME TypeOK, NEW r \in Requests, req[r].pc \in Steps
    PROVE  req[r] \in [pc: Steps, jwt: Token, floor: Nat]
BY DEF TypeOK, Flow, Idle, Steps

LEMMA GotoTyped ==
    ASSUME TypeOK, NEW r \in Requests, NEW step \in Steps, req[r].pc \in Steps, Goto(r, step)
    PROVE  req' \in [Requests -> {Idle} \cup Flow]
<1>1. [req[r] EXCEPT !.pc = step] \in [pc: Steps, jwt: Token, floor: Nat]
  BY CarriesToken
<1>2. QED
  BY <1>1 DEF TypeOK, Goto, Flow

LEMMA EndTyped ==
    ASSUME TypeOK, NEW r \in Requests, End(r)
    PROVE  req' \in [Requests -> {Idle} \cup Flow]
BY DEF TypeOK, End

\* The steps of a request change neither the accounts nor the writes.
LEMMA RequestTyped ==
    ASSUME Typed, NEW r \in Requests, UNCHANGED <<accounts, write>>,
           rows' \subseteq rows \cup Token, issued' \subseteq issued \cup Token,
           held' \subseteq held \cup Token, revoked' \subseteq revoked \cup Token,
           missed' = missed, rtKeys' \subseteq rtKeys \cup Ids,
           req' \in [Requests -> {Idle} \cup Flow]
    PROVE  Typed'
BY DEF Typed, TypeOK, AccountsTypeOK, accounts, WriteOK

\* The steps of a write change no request and mint no token.
LEMMA WriteTyped ==
    ASSUME Typed, NEW w \in Writes, UNCHANGED <<accounts, req, rows, issued, held, revoked, missed>>,
           rtKeys' \subseteq rtKeys,
           write' \in {write, [write EXCEPT ![w] = NoWrite]}
    PROVE  Typed'
BY DEF Typed, TypeOK, AccountsTypeOK, accounts, WriteOK, NoWrite

LEMMA StepTyped ==
    ASSUME Typed, [Next]_vars
    PROVE  Typed'
<1> USE DEF Typed
<1>1. CASE UNCHANGED vars
  BY <1>1 DEF vars, TypeOK, AccountsTypeOK, WriteOK
<1>2. ASSUME NEW r \in Requests, NEW u \in Users, Login(r, u)
      PROVE  Typed'
  <2>1. req' \in [Requests -> {Idle} \cup Flow]
    BY <1>2 DEF Login, Flow, Payload, TypeOK, AccountsTypeOK
  <2>2. QED
    BY <1>2, <2>1, RequestTyped DEF Login
<1>3. ASSUME NEW r \in Requests, InsertRow(r)
      PROVE  Typed'
  <2>1. req[r] \in [pc: {"insert"}, jwt: Payload, floor: Nat]
    BY <1>3 DEF InsertRow, At, Idle, TypeOK, Flow, Steps
  <2>2. PICK i \in Fresh :
          LET t == [id |-> i, uid |-> req[r].jwt.uid, pv |-> req[r].jwt.pv,
                    from |-> req[r].jwt.id]
          IN  /\ rows' = rows \cup {t}
              /\ issued' = issued \cup {t}
              /\ req' = [req EXCEPT ![r] = [req[r] EXCEPT !.pc = "setKey", !.jwt = t]]
    BY <1>3 DEF InsertRow
  <2> DEFINE t == [id |-> i, uid |-> req[r].jwt.uid, pv |-> req[r].jwt.pv,
                   from |-> req[r].jwt.id]
  <2>3. t \in Token
    BY <2>1 DEF Payload, Token, Fresh
  <2>4. req' \in [Requests -> {Idle} \cup Flow]
    BY <2>1, <2>2, <2>3 DEF Flow, Steps, TypeOK
  <2>5. QED
    BY <1>3, <2>2, <2>3, <2>4, RequestTyped DEF InsertRow
<1>4. ASSUME NEW r \in Requests, SetKey(r)
      PROVE  Typed'
  BY <1>4, CarriesToken, GotoTyped, RequestTyped DEF SetKey, At, Steps, Token
<1>5. ASSUME NEW r \in Requests, Respond(r)
      PROVE  Typed'
  BY <1>5, CarriesToken, EndTyped, RequestTyped DEF Respond, At, Steps
<1>6. ASSUME NEW r \in Requests, NEW t \in held, RefreshStart(r, t) \/ LogoutStart(r, t)
      PROVE  Typed'
  <2>1. Floor(t.uid) \in Nat
    BY AccountsAssumption DEF Floor, TypeOK, AccountsTypeOK, Versions, Token
  <2>2. req' \in [Requests -> {Idle} \cup Flow]
    BY <1>6, <2>1 DEF RefreshStart, LogoutStart, Flow, Steps, TypeOK
  <2>3. QED
    BY <1>6, <2>2, RequestTyped DEF RefreshStart, LogoutStart
<1>7. ASSUME NEW r \in Requests, FindRow(r) \/ SessionState(r) \/ Consume(r)
      PROVE  Typed'
  <2>1. req' \in [Requests -> {Idle} \cup Flow]
    BY <1>7, GotoTyped, EndTyped DEF FindRow, SessionState, Consume, At, Steps
  <2>2. QED
    BY <1>7, <2>1, RequestTyped DEF FindRow, SessionState, Consume
<1>8. ASSUME NEW r \in Requests, DelKey(r)
      PROVE  Typed'
  <2>1. req' \in [Requests -> {Idle} \cup Flow]
    <3>1. req[r] \in [pc: Steps, jwt: Token, floor: Nat]
      BY <1>8, CarriesToken DEF DelKey, At, Steps
    <3>2. [req[r] EXCEPT !.pc = "insert"] \in Flow
      BY <3>1 DEF Flow, Payload, Token
    <3>3. QED
      BY <1>8, <3>2 DEF DelKey, Goto, TypeOK
  <2>2. QED
    BY <1>8, <2>1, RequestTyped DEF DelKey
<1>9. ASSUME NEW r \in Requests, RevokeRow(r)
      PROVE  Typed'
  BY <1>9, CarriesToken, GotoTyped, RequestTyped DEF RevokeRow, At, Steps
<1>10. ASSUME NEW r \in Requests, RevokeKey(r) \/ RequestFails(r)
       PROVE  Typed'
  BY <1>10, EndTyped, RequestTyped DEF RevokeKey, RequestFails
<1>11. ASSUME NEW w \in Writes, NEW u \in Users, NEW kind \in Kinds, WriteBegin(w, u, kind)
       PROVE  Typed'
  <2>1. [pc |-> "tx", kind |-> kind, uid |-> u, sv |-> sv[u], was |-> status[u],
         snap |-> RowsOf(u)] \in AccountWrite
    BY DEF AccountWrite, TypeOK, AccountsTypeOK, RowsOf
  <2>2. QED
    BY <1>11, <2>1 DEF WriteBegin, Writable, TypeOK, AccountsTypeOK, accounts, WriteOK
<1>12. ASSUME NEW w \in Writes, WriteCommit(w)
       PROVE  Typed'
  <2> DEFINE x == write[w]
  <2>1. x \in [pc: {"tx"}, kind: Kinds, uid: Users, sv: Versions, was: Statuses,
               snap: SUBSET Token]
    BY <1>12 DEF WriteCommit, TypeOK, AccountWrite, NoWrite
  <2>2. sv[x.uid] = x.sv
    BY <1>12 DEF WriteCommit, Conflict
  <2>3. AccountsTypeOK'
    <3>1. sv' \in [Users -> Versions]
      BY <1>12, <2>1, <2>2, AccountsAssumption
      DEF WriteCommit, ApplyWrite, TypeOK, AccountsTypeOK, Versions, WriteOK
    <3>2. status' \in [Users -> Statuses]
      BY <1>12, <2>1, AccountsAssumption
      DEF WriteCommit, ApplyWrite, TypeOK, AccountsTypeOK, Statuses, AccountKinds
    <3>3. QED
      BY <3>1, <3>2 DEF AccountsTypeOK
  <2>4. /\ rows' \subseteq Token /\ revoked' \subseteq Token /\ missed' \subseteq Token
        /\ UNCHANGED <<rtKeys, req, issued, held>>
    BY <1>12, <2>1 DEF WriteCommit, RowsOf, TypeOK
  <2>5. \/ write' = [write EXCEPT ![w] = [pc |-> "scan", uid |-> x.uid]]
        \/ write' = [write EXCEPT ![w] = NoWrite]
    BY <1>12 DEF WriteCommit
  <2>6. write' \in [Writes -> {NoWrite} \cup AccountWrite] /\ WriteOK'
    BY <2>1, <2>5 DEF TypeOK, AccountWrite, WriteOK, NoWrite
  <2>7. QED
    BY <2>3, <2>4, <2>6 DEF TypeOK
<1>13. ASSUME NEW w \in Writes, WriteConflict(w) \/ ScanKeys(w) \/ WriteFails(w)
       PROVE  Typed'
  <2>1. CASE WriteConflict(w) \/ WriteFails(w)
    BY <2>1, WriteTyped DEF WriteConflict, WriteFails
  <2>2. CASE ScanKeys(w)
    BY <2>2, WriteTyped DEF ScanKeys
  <2>3. QED
    BY <1>13, <2>1, <2>2
<1>14. QED
  BY <1>1, <1>2, <1>3, <1>4, <1>5, <1>6, <1>7, <1>8, <1>9, <1>10, <1>11, <1>12, <1>13,
     NextActions

\* Every variable stays in its type.
THEOREM TypeCorrect == Spec => []TypeOK
<1>1. Typed => TypeOK
  BY DEF Typed
<1>2. QED
  BY <1>1, InitTyped, StepTyped, PTL DEF Spec

-----------------------------------------------------------------------------
(* Lineage: a consumed token is in the hands of one request.               *)

\* A refresh between its consuming DELETE and the INSERT of the successor.
Spent(r) == At(r, "delKey") \/ (At(r, "insert") /\ req[r].jwt.id # NoId)

\* Every token in use is a signed one; only a login's first is yet to be.
Known ==
    /\ rows \subseteq issued /\ held \subseteq issued /\ revoked \subseteq issued
    /\ \A r \in Requests :
        \/ At(r, "idle")
        \/ At(r, "insert") /\ req[r].jwt.id = NoId
        \/ req[r].jwt \in issued

Unique == \A s, t \in issued : s.id = t.id => s = t

Parents == \A s \in issued : s.from = NoId \/ \E t \in issued : t.id = s.from

\* A row has neither been rotated nor revoked.
Live == \A t \in rows : t \notin revoked /\ \A s \in issued : s.from # t.id

SpentOnce ==
    \A r \in Requests : Spent(r) =>
        /\ req[r].jwt \notin rows \cup revoked
        /\ \A s \in issued : s.from # req[r].jwt.id
        /\ \A q \in Requests : Spent(q) /\ req[q].jwt = req[r].jwt => q = r

Lineage ==
    Known /\ Unique /\ Parents /\ Live /\ SpentOnce /\ OneSuccessor /\ RevokedHasNoSuccessor

LEMMA InitLineage == Init => Lineage
BY DEF Init, Lineage, Known, Unique, Parents, Live, SpentOnce, Spent, OneSuccessor,
       RevokedHasNoSuccessor, At, Idle

\* A step that signs, consumes and revokes nothing.
LEMMA QuietLineage ==
    ASSUME Lineage, UNCHANGED <<rows, issued, revoked>>, Known',
           \A q \in Requests : Spent(q)' => Spent(q) /\ req'[q].jwt = req[q].jwt
    PROVE  Lineage'
BY DEF Lineage, Unique, Parents, Live, SpentOnce, OneSuccessor, RevokedHasNoSuccessor

\* A quiet step of one request: what it carries next is known, and not spent
\* unless it was.
LEMMA QuietRequest ==
    ASSUME Typed, Lineage, UNCHANGED <<rows, issued, revoked>>, held' \subseteq issued,
           NEW r \in Requests, NEW next, req' = [req EXCEPT ![r] = next],
           \/ next.pc = "idle"
           \/ next.pc = "insert" /\ next.jwt.id = NoId
           \/ next.pc = "insert" /\ Spent(r) /\ next.jwt = req[r].jwt
           \/ next.pc \notin {"delKey", "insert"} /\ next.jwt \in issued
    PROVE  Lineage'
<1>1. req'[r] = next /\ \A q \in Requests \ {r} : req'[q] = req[q]
  BY DEF Typed, TypeOK
<1>2. Known'
  BY <1>1 DEF Lineage, Known, At, Spent
<1>3. \A q \in Requests : Spent(q)' => Spent(q) /\ req'[q].jwt = req[q].jwt
  BY <1>1 DEF Spent, At
<1>4. QED
  BY <1>2, <1>3, QuietLineage

\* Goto and End as updates of the whole flow.
LEMMA GotoUpdate ==
    ASSUME Typed, Lineage, NEW r \in Requests, NEW step, Goto(r, step), req[r].pc \in Steps
    PROVE  \E next : /\ req' = [req EXCEPT ![r] = next]
                     /\ next.pc = step /\ next.jwt = req[r].jwt /\ next.floor = req[r].floor
                     /\ req[r].jwt \in issued
<1>1. req[r] \in [pc: Steps, jwt: Token, floor: Nat]
  BY CarriesToken DEF Typed
<1>2. req[r].jwt \in issued
  BY DEF Lineage, Known, At, Steps
<1>3. /\ [req[r] EXCEPT !.pc = step].pc = step
      /\ [req[r] EXCEPT !.pc = step].jwt = req[r].jwt
      /\ [req[r] EXCEPT !.pc = step].floor = req[r].floor
  BY <1>1
<1>4. req' = [req EXCEPT ![r] = [req[r] EXCEPT !.pc = step]]
  BY DEF Goto
<1>5. QED
  BY <1>2, <1>3, <1>4

LEMMA QuietGoto ==
    ASSUME Typed, Lineage, UNCHANGED <<rows, issued, held, revoked>>,
           NEW r \in Requests, NEW step, Goto(r, step), req[r].pc \in Steps,
           \/ step \notin {"delKey", "insert", "idle"}
           \/ step = "insert" /\ Spent(r)
    PROVE  Lineage'
<1>1. PICK next : /\ req' = [req EXCEPT ![r] = next]
                  /\ next.pc = step /\ next.jwt = req[r].jwt
                  /\ req[r].jwt \in issued
  BY GotoUpdate
<1>2. held' \subseteq issued
  BY DEF Lineage, Known
<1>3. QED
  BY <1>1, <1>2, QuietRequest

LEMMA QuietEnd ==
    ASSUME Typed, Lineage, UNCHANGED <<rows, issued, revoked>>, held' \subseteq issued,
           NEW r \in Requests, End(r)
    PROVE  Lineage'
<1>1. Idle.pc = "idle"
  BY DEF Idle
<1>2. QED
  BY <1>1, QuietRequest DEF End

LEMMA InsertLineage ==
    ASSUME Typed, Lineage, NEW r \in Requests, InsertRow(r)
    PROVE  Lineage'
<1>1. PICK i \in Fresh :
        LET t == [id |-> i, uid |-> req[r].jwt.uid, pv |-> req[r].jwt.pv,
                  from |-> req[r].jwt.id]
        IN  /\ rows' = rows \cup {t}
            /\ issued' = issued \cup {t}
            /\ req' = [req EXCEPT ![r] = [req[r] EXCEPT !.pc = "setKey", !.jwt = t]]
  BY DEF InsertRow
<1> DEFINE t == [id |-> i, uid |-> req[r].jwt.uid, pv |-> req[r].jwt.pv,
                 from |-> req[r].jwt.id]
<1>2. /\ i \in Ids /\ i # NoId
      /\ \A s \in issued : s.id # i
  BY RotationAssumption DEF Fresh
<1>3. t.id = i /\ t.from = req[r].jwt.id /\ t \notin issued
  BY <1>2
<1>4. req[r] \in [pc: {"insert"}, jwt: Payload, floor: Nat]
  BY DEF InsertRow, At, Idle, Typed, TypeOK, Flow, Steps
<1>5. /\ req'[r].pc = "setKey" /\ req'[r].jwt = t
      /\ \A q \in Requests \ {r} : req'[q] = req[q]
  BY <1>1, <1>4 DEF Typed, TypeOK
<1>6. UNCHANGED <<held, revoked>>
  BY DEF InsertRow
<1>7. t.from # NoId => Spent(r) /\ req[r].jwt \in issued
  BY <1>3, <1>4 DEF Lineage, Known, Spent, At
<1>8. t.from # i /\ \A s \in issued : s.from # i
  BY <1>2, <1>3, <1>7 DEF Lineage, Parents
<1>9. \A s \in issued : t.from = s.id => s = req[r].jwt /\ Spent(r)
  <2>1. \A s \in issued : s.id # NoId
    BY RotationAssumption DEF Typed, TypeOK, Token
  <2>2. QED
    BY <1>3, <1>7, <2>1 DEF Lineage, Unique
<1>10. rows' = rows \cup {t} /\ issued' = issued \cup {t}
  BY <1>1
<1> HIDE DEF t
<1>11. Known'
  BY <1>10, <1>5, <1>6 DEF Lineage, Known, At
<1>12. Unique'
  BY <1>10, <1>2, <1>3 DEF Lineage, Unique
<1>13. Parents'
  BY <1>10, <1>3, <1>7 DEF Lineage, Parents
<1>14. Live'
  <2>1. \A s \in rows : s \in issued /\ s \notin revoked /\ t.from # s.id
    BY <1>9 DEF Lineage, Known, Live, SpentOnce
  <2>2. t \notin revoked
    BY <1>3 DEF Lineage, Known
  <2>3. QED
    BY <1>10, <1>3, <1>6, <1>8, <2>1, <2>2 DEF Lineage, Live
<1>15. SpentOnce'
  <2>1. \A q \in Requests : Spent(q)' => q # r /\ Spent(q) /\ req'[q] = req[q]
    BY <1>5 DEF Spent, At
  <2>2. \A q \in Requests : Spent(q) => req[q].jwt \in issued
    BY DEF Lineage, Known, Spent, At
  <2>3. \A q \in Requests \ {r} : Spent(q) => t.from # req[q].jwt.id
    BY <1>9, <2>2 DEF Lineage, SpentOnce
  <2>4. QED
    BY <1>10, <1>3, <1>6, <2>1, <2>2, <2>3 DEF Lineage, SpentOnce
<1>16. OneSuccessor'
  <2>1. t.from # NoId => \A s \in issued : s.from # t.from
    BY <1>3, <1>7 DEF Lineage, SpentOnce
  <2>2. QED
    BY <1>10, <2>1 DEF Lineage, OneSuccessor
<1>17. RevokedHasNoSuccessor'
  <2>1. \A s \in revoked : s \in issued /\ t.from # s.id
    BY <1>9 DEF Lineage, Known, SpentOnce
  <2>2. QED
    BY <1>10, <1>6, <2>1 DEF Lineage, RevokedHasNoSuccessor
<1>18. QED
  BY <1>11, <1>12, <1>13, <1>14, <1>15, <1>16, <1>17 DEF Lineage

\* Rows that go, whether consumed, revoked by a logout or by an account write:
\* what remains to be shown is that the spent tokens stay apart.
LEMMA DeleteLineage ==
    ASSUME Lineage, Known', SpentOnce', UNCHANGED issued,
           rows' \subseteq rows, revoked' \subseteq revoked \cup (rows \ rows')
    PROVE  Lineage'
BY DEF Lineage, Known, Unique, Parents, Live, OneSuccessor, RevokedHasNoSuccessor

LEMMA StepLineage ==
    ASSUME Typed, Lineage, [Next]_vars
    PROVE  Lineage'
<1> USE DEF Lineage
<1>1. CASE UNCHANGED vars
  BY <1>1 DEF vars, Known, Unique, Parents, Live, SpentOnce, Spent, OneSuccessor,
              RevokedHasNoSuccessor, At
<1>2. ASSUME NEW r \in Requests, NEW u \in Users, Login(r, u)
      PROVE  Lineage'
  BY <1>2, QuietRequest DEF Login, Known
<1>3. ASSUME NEW r \in Requests, InsertRow(r)
      PROVE  Lineage'
  BY <1>3, InsertLineage
<1>4. ASSUME NEW r \in Requests, SetKey(r)
      PROVE  Lineage'
  BY <1>4, QuietGoto DEF SetKey, At, Steps
<1>5. ASSUME NEW r \in Requests, Respond(r)
      PROVE  Lineage'
  BY <1>5, QuietEnd DEF Respond, At, Known
<1>6. ASSUME NEW r \in Requests, NEW t \in held, RefreshStart(r, t) \/ LogoutStart(r, t)
      PROVE  Lineage'
  BY <1>6, QuietRequest DEF RefreshStart, LogoutStart, Known
<1>7. ASSUME NEW r \in Requests, FindRow(r) \/ SessionState(r)
      PROVE  Lineage'
  BY <1>7, QuietGoto, QuietEnd DEF FindRow, SessionState, At, Steps, Known
<1>8. ASSUME NEW r \in Requests, DelKey(r)
       PROVE  Lineage'
  BY <1>8, QuietGoto DEF DelKey, At, Steps, Spent
<1>9. ASSUME NEW r \in Requests, RevokeKey(r) \/ RequestFails(r)
       PROVE  Lineage'
  BY <1>9, QuietEnd DEF RevokeKey, RequestFails, Known
<1>10. ASSUME NEW r \in Requests, RevokeRow(r)
       PROVE  Lineage'
  <2>1. PICK next : /\ req' = [req EXCEPT ![r] = next]
                    /\ next.pc = "revokeKey" /\ next.jwt = req[r].jwt
                    /\ req[r].jwt \in issued
    BY <1>10, GotoUpdate DEF RevokeRow, At, Steps
  <2>2. req'[r] = next /\ \A q \in Requests \ {r} : req'[q] = req[q]
    BY <2>1 DEF Typed, TypeOK
  <2>3. /\ rows' = rows \ {req[r].jwt} /\ revoked' = revoked \cup (rows \cap {req[r].jwt})
        /\ UNCHANGED <<issued, held>>
    BY <1>10 DEF RevokeRow
  <2>4. Known'
    BY <2>1, <2>2, <2>3 DEF Known, At
  <2>5. SpentOnce'
    <3>1. \A q \in Requests : Spent(q)' => Spent(q) /\ req'[q] = req[q]
      BY <2>1, <2>2 DEF Spent, At
    <3>2. QED
      BY <2>3, <3>1 DEF SpentOnce
  <2>6. QED
    BY <2>3, <2>4, <2>5, DeleteLineage
<1>11. ASSUME NEW r \in Requests, Consume(r)
       PROVE  Lineage'
  <2>1. CASE req[r].jwt \notin rows
    BY <1>11, <2>1, QuietEnd DEF Consume, Known
  <2>2. CASE req[r].jwt \in rows
    <3>1. PICK next : /\ req' = [req EXCEPT ![r] = next]
                      /\ next.pc = "delKey" /\ next.jwt = req[r].jwt
                      /\ req[r].jwt \in issued
      BY <1>11, <2>2, GotoUpdate DEF Consume, At, Steps
    <3>2. req'[r] = next /\ \A q \in Requests \ {r} : req'[q] = req[q]
      BY <3>1 DEF Typed, TypeOK
    <3>3. rows' = rows \ {req[r].jwt} /\ UNCHANGED <<issued, held, revoked>>
      BY <1>11 DEF Consume
    <3>4. Known'
      BY <3>1, <3>2, <3>3 DEF Known, At
    <3>5. SpentOnce'
      <4>1. \A q \in Requests \ {r} : Spent(q)' => Spent(q) /\ req'[q] = req[q]
        BY <3>2 DEF Spent, At
      <4>2. \A q \in Requests : Spent(q) => req[q].jwt # req[r].jwt
        BY <2>2 DEF SpentOnce
      <4>3. req[r].jwt \notin revoked /\ \A s \in issued : s.from # req[r].jwt.id
        BY <2>2 DEF Live
      <4>4. QED
        BY <3>1, <3>2, <3>3, <4>1, <4>2, <4>3 DEF SpentOnce
    <3>6. QED
      BY <3>3, <3>4, <3>5, DeleteLineage
  <2>3. QED
    BY <2>1, <2>2
<1>12. ASSUME NEW w \in Writes, WriteCommit(w)
       PROVE  Lineage'
  <2>1. /\ UNCHANGED <<req, issued, held>>
        /\ \/ UNCHANGED <<rows, revoked>>
           \/ /\ write[w].snap \subseteq rows
              /\ rows' = rows \ write[w].snap
              /\ revoked' = revoked \cup write[w].snap
    BY <1>12 DEF WriteCommit, Conflict
  <2>2. Known' /\ SpentOnce'
    BY <2>1 DEF Known, SpentOnce, Spent, At
  <2>3. QED
    BY <2>1, <2>2, DeleteLineage
<1>13. ASSUME NEW w \in Writes,
              \/ \E u \in Users, kind \in Kinds : WriteBegin(w, u, kind)
              \/ WriteConflict(w) \/ ScanKeys(w) \/ WriteFails(w)
       PROVE  Lineage'
  <2>1. UNCHANGED <<rows, req, issued, held, revoked>>
    BY <1>13 DEF WriteBegin, WriteConflict, ScanKeys, WriteFails
  <2>2. QED
    BY <2>1, QuietLineage DEF Known, Spent, At
<1>14. QED
  BY <1>1, <1>2, <1>3, <1>4, <1>5, <1>6, <1>7, <1>8, <1>9, <1>10, <1>11, <1>12, <1>13,
     NextActions

\* Concurrent or replayed refreshes of one token never yield two successors.
THEOREM RotatesOnce == Spec => []OneSuccessor
<1>1. Typed /\ Lineage => OneSuccessor
  BY DEF Lineage
<1>2. QED
  BY <1>1, InitTyped, StepTyped, InitLineage, StepLineage, PTL DEF Spec

\* A row deleted by a logout or an account write is never rotated.
THEOREM RevocationIsFinal == Spec => []RevokedHasNoSuccessor
<1>1. Typed /\ Lineage => RevokedHasNoSuccessor
  BY DEF Lineage
<1>2. QED
  BY <1>1, InitTyped, StepTyped, InitLineage, StepLineage, PTL DEF Spec

-----------------------------------------------------------------------------
(* Currency: what an account write leaves of a session.                    *)

\* A token carries the version of an account that was enabled.
Old(t) == t.pv <= sv[t.uid] /\ (status[t.uid] = "disabled" => t.pv < sv[t.uid])

\* A write has ended the session, for good.
Stale(t) == t.pv < sv[t.uid] \/ status[t.uid] = "deleted"

FlowCurrent(r) ==
    /\ At(r, "insert") => Old(req[r].jwt)
    /\ req[r].pc \in {"findRow", "sessionState"} =>
         req[r].floor <= sv[req[r].jwt.uid] \/ Stale(req[r].jwt)
    /\ req[r].pc \in {"consume", "delKey"} => req[r].jwt.pv >= req[r].floor
    /\ At(r, "consume") /\ req[r].jwt \in rows \ missed => SessionCurrent(req[r].jwt)

Currency == (\A t \in issued : Old(t)) /\ (\A r \in Requests : FlowCurrent(r))

LEMMA InitCurrency == Init => Currency
BY DEF Init, Currency, FlowCurrent, At, Idle

\* A step of one request that signs nothing: only that request can be disturbed.
LEMMA RequestCurrency ==
    ASSUME Typed, Currency, UNCHANGED <<accounts, issued, missed>>, rows' \subseteq rows,
           NEW r \in Requests, NEW next, req' = [req EXCEPT ![r] = next], FlowCurrent(r)'
    PROVE  Currency'
<1>1. \A q \in Requests \ {r} : req'[q] = req[q]
  BY DEF Typed, TypeOK
<1>2. \A t : Old(t)' <=> Old(t)
  BY DEF Old, accounts
<1>3. \A q \in Requests \ {r} : FlowCurrent(q)'
  BY <1>1, <1>2 DEF Currency, FlowCurrent, At, Stale, SessionCurrent, accounts
<1>4. QED
  BY <1>2, <1>3 DEF Currency

LEMMA EndCurrency ==
    ASSUME Typed, Currency, UNCHANGED <<accounts, issued, missed>>, rows' \subseteq rows,
           NEW r \in Requests, End(r)
    PROVE  Currency'
<1>1. req'[r].pc = "idle"
  BY DEF End, Idle, Typed, TypeOK
<1>2. FlowCurrent(r)'
  BY <1>1 DEF FlowCurrent, At
<1>3. QED
  BY <1>2, RequestCurrency DEF End

\* What an account write may do to an account.
LEMMA CommitMonotone ==
    ASSUME Typed, NEW w \in Writes, WriteCommit(w), NEW u \in Users
    PROVE  /\ sv'[u] >= sv[u]
           /\ status[u] = "deleted" => status'[u] = "deleted"
           /\ status'[u] = "disabled" => status[u] = "disabled" \/ sv'[u] > sv[u]
           /\ status[u] = "enabled" =>
                \/ sv'[u] = sv[u] /\ status'[u] = "enabled"
                \/ u = write[w].uid /\ Revokes(write[w].kind)
<1> DEFINE x == write[w]
<1>1. /\ x \in [pc: {"tx"}, kind: Kinds, uid: Users, sv: Versions, was: Statuses,
                 snap: SUBSET Token]
      /\ sv[x.uid] = x.sv /\ status[x.uid] = x.was
      /\ ApplyWrite(x.uid, x.kind)
  BY DEF WriteCommit, Conflict, Typed, TypeOK, AccountWrite, NoWrite
<1>2. /\ x.kind = "enable" => x.was = "disabled"
      /\ x.kind = "disable" => x.was = "enabled"
      /\ x.was # "deleted"
  BY <1>1 DEF Typed, WriteOK
<1>3. x.kind \in AccountKinds /\ x.uid \in Users
  BY <1>1, AccountsAssumption
<1>4. /\ sv \in [Users -> Nat] /\ status \in [Users -> Statuses]
  BY DEF Typed, TypeOK, AccountsTypeOK, Versions
<1> HIDE DEF x
<1>5. CASE u # x.uid
  <2>1. sv'[u] = sv[u] /\ status'[u] = status[u]
    BY <1>1, <1>3, <1>4, <1>5 DEF ApplyWrite, AccountKinds
  <2>2. QED
    BY <2>1, <1>4 DEF x
<1>6. CASE u = x.uid
  <2>1. CASE x.kind = "reset"
    BY <1>1, <1>4, <1>6, <2>1 DEF ApplyWrite, Bumps, Revokes, x
  <2>2. CASE x.kind = "disable"
    BY <1>1, <1>2, <1>4, <1>6, <2>2 DEF ApplyWrite, Bumps, Revokes, x
  <2>3. CASE x.kind = "enable"
    BY <1>1, <1>2, <1>4, <1>6, <2>3 DEF ApplyWrite, Bumps, x
  <2>4. CASE x.kind = "reinstate"
    BY <1>1, <1>2, <1>4, <1>6, <2>4 DEF ApplyWrite, Bumps, Revokes, x
  <2>5. CASE x.kind = "delete"
    BY <1>1, <1>4, <1>6, <2>5 DEF ApplyWrite, Bumps, Revokes, x
  <2>6. QED
    BY <1>3, <2>1, <2>2, <2>3, <2>4, <2>5 DEF AccountKinds
<1>7. QED
  BY <1>5, <1>6

LEMMA InsertCurrency ==
    ASSUME Typed, Lineage, Currency, NEW r \in Requests, InsertRow(r)
    PROVE  Currency'
<1>1. PICK i \in Fresh :
        LET t == [id |-> i, uid |-> req[r].jwt.uid, pv |-> req[r].jwt.pv,
                  from |-> req[r].jwt.id]
        IN  /\ rows' = rows \cup {t}
            /\ issued' = issued \cup {t}
            /\ req' = [req EXCEPT ![r] = [req[r] EXCEPT !.pc = "setKey", !.jwt = t]]
  BY DEF InsertRow
<1> DEFINE t == [id |-> i, uid |-> req[r].jwt.uid, pv |-> req[r].jwt.pv,
                 from |-> req[r].jwt.id]
<1>2. At(r, "insert") /\ UNCHANGED <<accounts, missed>>
  BY DEF InsertRow
<1>3. Old(t) /\ t \notin issued
  BY <1>2 DEF Currency, FlowCurrent, Old, Fresh
<1>4. rows' = rows \cup {t} /\ issued' = issued \cup {t}
  BY <1>1
<1>5. req'[r].pc = "setKey" /\ \A q \in Requests \ {r} : req'[q] = req[q]
  BY <1>1, <1>2 DEF At, Typed, TypeOK, Flow, Idle, Steps
<1> HIDE DEF t
<1>6. \A s : Old(s)' <=> Old(s)
  BY <1>2 DEF Old, accounts
<1>7. ASSUME NEW q \in Requests PROVE FlowCurrent(q)'
  <2>1. CASE q = r
    BY <1>5, <2>1 DEF FlowCurrent, At
  <2>2. CASE q # r
    <3>1. At(q, "consume") => req[q].jwt # t
      BY <1>3 DEF Lineage, Known, At
    <3>2. QED
      BY <1>2, <1>4, <1>5, <1>6, <2>2, <3>1
      DEF Currency, FlowCurrent, At, Stale, SessionCurrent, accounts
  <2>3. QED
    BY <2>1, <2>2
<1>8. QED
  BY <1>3, <1>4, <1>6, <1>7 DEF Currency

LEMMA CommitCurrency ==
    ASSUME Typed, Lineage, Currency, NEW w \in Writes, WriteCommit(w)
    PROVE  Currency'
<1>1. UNCHANGED <<req, issued>>
  BY DEF WriteCommit
<1>2. /\ sv \in [Users -> Nat] /\ sv' \in [Users -> Nat]
      /\ status' \in [Users -> Statuses]
  BY StepTyped DEF Typed, TypeOK, AccountsTypeOK, Versions, Next, WriteStep
<1>3. \A t : t.uid \in Users /\ t.pv \in Nat =>
        (Old(t) => Old(t)') /\ (Stale(t) => Stale(t)')
  BY <1>2, CommitMonotone DEF Old, Stale
<1>4. \A t \in issued : Old(t)'
  BY <1>3 DEF Currency, Typed, TypeOK, Token, Versions
<1>5. ASSUME NEW r \in Requests, ~At(r, "idle")
      PROVE  FlowCurrent(r)'
  <2> DEFINE t == req[r].jwt
  <2>1. t.uid \in Users /\ t.pv \in Nat /\ req[r].floor \in Nat
    BY <1>5 DEF Typed, TypeOK, Flow, Idle, At, Token, Payload, Versions
  <2>2. At(r, "insert") => Old(t)'
    BY <1>1, <1>3, <2>1 DEF Currency, FlowCurrent
  <2>3. req[r].pc \in {"findRow", "sessionState"} => req[r].floor <= sv'[t.uid] \/ Stale(t)'
    BY <1>1, <1>2, <1>3, <2>1, CommitMonotone DEF Currency, FlowCurrent
  <2>4. req[r].pc \in {"consume", "delKey"} => t.pv >= req[r].floor
    BY DEF Currency, FlowCurrent
  <2>5. At(r, "consume") /\ t \in rows' \ missed' => SessionCurrent(t)'
    <3>1. SUFFICES ASSUME At(r, "consume"), t \in rows' \ missed'
                   PROVE  SessionCurrent(t)'
      OBVIOUS
    <3>2. t \in rows \ missed
      BY <3>1 DEF WriteCommit
    <3>3. SessionCurrent(t)
      BY <3>1, <3>2 DEF Currency, FlowCurrent
    <3>4. ~(t.uid = write[w].uid /\ Revokes(write[w].kind))
      BY <3>1, <3>2 DEF WriteCommit, RowsOf
    <3>5. QED
      BY <1>1, <2>1, <3>3, <3>4, CommitMonotone DEF SessionCurrent
  <2>6. QED
    BY <1>1, <2>2, <2>3, <2>4, <2>5 DEF FlowCurrent, At, Old, Stale, SessionCurrent
<1>6. ASSUME NEW r \in Requests, At(r, "idle")
      PROVE  FlowCurrent(r)'
  BY <1>1, <1>6 DEF FlowCurrent, At
<1>7. QED
  BY <1>1, <1>4, <1>5, <1>6 DEF Currency

LEMMA StepCurrency ==
    ASSUME Typed, Lineage, Currency, [Next]_vars
    PROVE  Currency'
<1>1. CASE UNCHANGED vars
  BY <1>1 DEF vars, Currency, FlowCurrent, Old, Stale, SessionCurrent, At
<1>2. ASSUME NEW r \in Requests, NEW u \in Users, Login(r, u)
      PROVE  Currency'
  <2> DEFINE next == [pc |-> "insert", floor |-> 0,
                      jwt |-> [id |-> NoId, uid |-> u, pv |-> sv[u], from |-> NoId]]
  <2>1. req'[r] = next /\ UNCHANGED <<accounts, rows, issued, missed>>
    BY <1>2 DEF Login, Typed, TypeOK
  <2>2. FlowCurrent(r)'
    BY <1>2, <2>1 DEF Login, FlowCurrent, At, Old, accounts, Typed, TypeOK, AccountsTypeOK, Versions
  <2>3. QED
    BY <1>2, <2>1, <2>2, RequestCurrency DEF Login
<1>3. ASSUME NEW r \in Requests, InsertRow(r)
      PROVE  Currency'
  BY <1>3, InsertCurrency
\* Goto keeps the token and the floor of a flow.
<1>4. ASSUME NEW r \in Requests, NEW step, Goto(r, step), req[r].pc \in Steps
      PROVE  /\ req'[r].pc = step /\ req'[r].jwt = req[r].jwt /\ req'[r].floor = req[r].floor
             /\ req' = [req EXCEPT ![r] = req'[r]]
             /\ req[r].jwt \in issued
  BY <1>4, GotoUpdate DEF Typed, TypeOK
<1>5. ASSUME NEW r \in Requests, SetKey(r)
      PROVE  Currency'
  <2>1. req[r].pc \in Steps /\ Goto(r, "respond") /\ UNCHANGED <<accounts, rows, issued, missed>>
    BY <1>5 DEF SetKey, At, Steps
  <2>2. FlowCurrent(r)'
    BY <1>4, <2>1 DEF FlowCurrent, At
  <2>3. QED
    BY <1>4, <2>1, <2>2, RequestCurrency
<1>6. ASSUME NEW r \in Requests, Respond(r) \/ RevokeKey(r) \/ RequestFails(r)
      PROVE  Currency'
  BY <1>6, EndCurrency DEF Respond, RevokeKey, RequestFails
<1>7. ASSUME NEW r \in Requests, NEW t \in held, RefreshStart(r, t)
      PROVE  Currency'
  <2>1. /\ req'[r] = [pc |-> "findRow", jwt |-> t, floor |-> Floor(t.uid)]
        /\ UNCHANGED <<accounts, rows, issued, missed>>
    BY <1>7 DEF RefreshStart, Typed, TypeOK
  <2>2. t \in issued /\ t.uid \in Users /\ Old(t)
    BY DEF Lineage, Known, Currency, Typed, TypeOK, Token
  <2>3. Floor(t.uid) <= sv[t.uid] \/ Stale(t)
    BY <2>2 DEF Floor, Stale, Old, Typed, TypeOK, AccountsTypeOK, Versions, Statuses
  <2>4. FlowCurrent(r)'
    BY <2>1, <2>3 DEF FlowCurrent, At, Stale, accounts
  <2>5. QED
    BY <1>7, <2>1, <2>4, RequestCurrency DEF RefreshStart
<1>8. ASSUME NEW r \in Requests, NEW t \in held, LogoutStart(r, t)
      PROVE  Currency'
  <2>1. /\ req'[r] = [pc |-> "revokeRow", jwt |-> t, floor |-> 0]
        /\ UNCHANGED <<accounts, rows, issued, missed>>
    BY <1>8 DEF LogoutStart, Typed, TypeOK
  <2>2. FlowCurrent(r)'
    BY <2>1 DEF FlowCurrent, At
  <2>3. QED
    BY <1>8, <2>1, <2>2, RequestCurrency DEF LogoutStart
<1>9. ASSUME NEW r \in Requests, FindRow(r)
      PROVE  Currency'
  <2>1. req[r].pc = "findRow" /\ UNCHANGED <<accounts, rows, issued, missed>>
    BY <1>9 DEF FindRow, At
  <2>2. CASE Goto(r, "sessionState")
    <3>1. FlowCurrent(r)'
      BY <1>4, <2>1, <2>2 DEF Currency, FlowCurrent, At, Stale, accounts, Steps
    <3>2. QED
      BY <1>4, <2>1, <2>2, <3>1, RequestCurrency DEF Steps
  <2>3. QED
    BY <1>9, <2>1, <2>2, EndCurrency DEF FindRow
<1>10. ASSUME NEW r \in Requests, SessionState(r)
       PROVE  Currency'
  <2>1. req[r].pc = "sessionState" /\ UNCHANGED <<accounts, rows, issued, missed>>
    BY <1>10 DEF SessionState, At
  <2>2. CASE SessionCurrent(req[r].jwt)
    <3>1. Goto(r, "consume")
      BY <1>10, <2>2 DEF SessionState
    <3>2. req[r].jwt.pv >= req[r].floor
      <4>1. req[r].jwt.uid \in Users /\ req[r].jwt.pv \in Nat /\ req[r].floor \in Nat
        BY <2>1, CarriesToken DEF Typed, Token, Versions, Steps
      <4>2. req[r].floor <= sv[req[r].jwt.uid]
        BY <2>1, <2>2, <4>1 DEF Currency, FlowCurrent, Stale, SessionCurrent
      <4>3. QED
        BY <2>2, <4>1, <4>2 DEF SessionCurrent
    <3>3. FlowCurrent(r)'
      BY <1>4, <2>1, <2>2, <3>1, <3>2 DEF FlowCurrent, At, SessionCurrent, accounts, Steps
    <3>4. QED
      BY <1>4, <2>1, <3>1, <3>3, RequestCurrency DEF Steps
  <2>3. CASE ~SessionCurrent(req[r].jwt)
    BY <1>10, <2>1, <2>3, EndCurrency DEF SessionState
  <2>4. QED
    BY <2>2, <2>3
<1>11. ASSUME NEW r \in Requests, Consume(r)
       PROVE  Currency'
  <2>1. /\ req[r].pc = "consume" /\ rows' \subseteq rows
        /\ UNCHANGED <<accounts, issued, missed>>
    BY <1>11 DEF Consume, At
  <2>2. CASE Goto(r, "delKey")
    <3>1. FlowCurrent(r)'
      BY <1>4, <2>1, <2>2 DEF Currency, FlowCurrent, At, Steps
    <3>2. QED
      BY <1>4, <2>1, <2>2, <3>1, RequestCurrency DEF Steps
  <2>3. QED
    BY <1>11, <2>1, <2>2, EndCurrency DEF Consume
<1>12. ASSUME NEW r \in Requests, DelKey(r)
       PROVE  Currency'
  <2>1. /\ req[r].pc \in Steps /\ Goto(r, "insert")
        /\ UNCHANGED <<accounts, rows, issued, missed>>
    BY <1>12 DEF DelKey, At, Steps
  <2>2. FlowCurrent(r)'
    BY <1>4, <2>1 DEF Currency, FlowCurrent, At, Old, accounts
  <2>3. QED
    BY <1>4, <2>1, <2>2, RequestCurrency
<1>13. ASSUME NEW r \in Requests, RevokeRow(r)
       PROVE  Currency'
  <2>1. /\ req[r].pc \in Steps /\ Goto(r, "revokeKey") /\ rows' \subseteq rows
        /\ UNCHANGED <<accounts, issued, missed>>
    BY <1>13 DEF RevokeRow, At, Steps
  <2>2. FlowCurrent(r)'
    BY <1>4, <2>1 DEF FlowCurrent, At
  <2>3. QED
    BY <1>4, <2>1, <2>2, RequestCurrency
<1>14. ASSUME NEW w \in Writes, WriteCommit(w)
       PROVE  Currency'
  BY <1>14, CommitCurrency
<1>15. ASSUME NEW w \in Writes,
              \/ \E u \in Users, kind \in Kinds : WriteBegin(w, u, kind)
              \/ WriteConflict(w) \/ ScanKeys(w) \/ WriteFails(w)
       PROVE  Currency'
  <2>1. UNCHANGED <<accounts, rows, req, issued, missed>>
    BY <1>15 DEF WriteBegin, WriteConflict, ScanKeys, WriteFails
  <2>2. QED
    BY <2>1 DEF Currency, FlowCurrent, Old, Stale, SessionCurrent, At, accounts
<1>16. QED
  BY <1>1, <1>2, <1>3, <1>5, <1>6, <1>7, <1>8, <1>9, <1>10, <1>11, <1>12, <1>13, <1>14, <1>15,
     NextActions

\* Between the session check and the consuming DELETE no account write takes the
\* session away and leaves the row.
THEOREM ConsumesCurrent == Spec => []RotationStillCurrent
<1>1. Typed /\ Lineage /\ Currency => RotationStillCurrent
  BY DEF Currency, FlowCurrent, RotationStillCurrent
<1>2. QED
  BY <1>1, InitTyped, StepTyped, InitLineage, StepLineage, InitCurrency, StepCurrency, PTL
  DEF Spec

\* A refresh that arrives after an account write never consumes a token of before it.
THEOREM RefusesSuperseded == Spec => []SupersededRefused
<1>1. Typed /\ Lineage /\ Currency => SupersededRefused
  BY DEF Currency, FlowCurrent, SupersededRefused
<1>2. QED
  BY <1>1, InitTyped, StepTyped, InitLineage, StepLineage, InitCurrency, StepCurrency, PTL
  DEF Spec

=============================================================================
