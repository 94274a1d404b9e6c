-------------------------- MODULE AttachmentsProofs --------------------------
(***************************************************************************)
(* Proofs about Attachments, for any number of users, requests, cleaners   *)
(* and attachments. The invariant says what each flow may rely on at each  *)
(* of its steps: an upload that still writes, a removal that has looked at *)
(* the row under its lock, a removal past its mark, an open download, an   *)
(* avatar transaction past its checks.                                     *)
(***************************************************************************)
EXTENDS Attachments, TLAPS

\* What a flow relies on.
JobFits(x) ==
    /\ x.pc \notin {"idle", "next"} => x.id \in Ids /\ Exists(x.id)
    /\ x.pc \in {"idle", "next"} => x.by = "none"
    /\ \A a \in x.todo : Exists(a)
    /\ x.pc \in Uploading => x.by = "upload"
    /\ x.pc \in Writing =>
         row[x.id].status # "ready" /\ (InLease(x.id) \/ x.id \in outlived)
    /\ x.pc = "complete" /\ row[x.id].status = "pending" => "object" \in files[x.id]
    /\ x.pc \in {"mark", "claim"} => ~Referenced(x.id)
    /\ x.pc = "claim" \/ (x.pc = "mark" /\ x.by # "upload") => ~InLease(x.id)
    /\ x.pc \in {"unlink", "finish"} => row[x.id].status \in {"deleting", "deleted"}
    /\ x.pc = "finish" => files[x.id] = {} \/ x.id \in outlived
    /\ x.pc = "read" => row[x.id].status = "ready"

JobsFit == \A j \in Jobs : JobFits(job[j])

\* Two flows in each other's way.
Clash(x, y) ==
    /\ x.id = y.id
    /\ \/ x.by = "upload" /\ y.by = "upload"
       \/ x.pc \in Exclusive /\ y.pc = "read"
       \/ x.pc = "read" /\ y.pc \in Exclusive

JobsApart == \A i, j \in Jobs : i # j => ~Clash(job[i], job[j])

LockedOut(x) == x.pc \in Exclusive => \A u \in Users : tx[u] # NoTx => x.id \notin tx[u].locked

TxExcludes == \A j \in Jobs : LockedOut(job[j])

TxFits(u) ==
    tx[u] # NoTx =>
        /\ u \notin gone
        /\ tx[u].kind = "delete" => tx[u].target = {}
        /\ tx[u].target \subseteq tx[u].needed
        /\ tx[u].pc = "commit" =>
             /\ tx[u].target \subseteq tx[u].locked
             /\ \A a \in tx[u].target : a \in owned[u] /\ row[a].status = "ready"

TxsFit == \A u \in Users : TxFits(u)

RowsFit ==
    \A a \in Ids :
        /\ row[a].status = "ready" => "object" \in files[a]
        /\ row[a].status = "deleted" /\ a \notin outlived => files[a] = {}

RefsFit ==
    \A u \in Users : \A a \in refs[u] :
        a \in owned[u] /\ row[a] = [status |-> "ready", expires |-> "never"]

Inv ==
    /\ TypeOK /\ JobsFit /\ JobsApart /\ TxExcludes /\ TxsFit /\ RowsFit /\ RefsFit
    /\ AvatarAgrees

-----------------------------------------------------------------------------
LEMMA InitInv == Init => Inv
<1> SUFFICES ASSUME Init PROVE Inv
  OBVIOUS
<1> USE DEF Init
<1>1. TypeOK
  BY AttachmentsAssumption DEF TypeOK, Row, NoRow, Statuses, Objects, NoTx, Job, Idle, Flow
<1>2. JobsFit
  BY DEF JobsFit, JobFits, Idle, Flow, Uploading, Writing
<1>3. JobsApart /\ TxExcludes
  BY DEF JobsApart, Clash, TxExcludes, LockedOut, Idle, Flow, Exclusive
<1>4. TxsFit /\ RowsFit /\ RefsFit /\ AvatarAgrees
  BY DEF TxsFit, TxFits, RowsFit, RefsFit, AvatarAgrees, NoRow, NoTx
<1> QED
  BY <1>1, <1>2, <1>3, <1>4 DEF Inv

\* A flow that lets a lock go, keeps the one it has, or takes one nobody is in
\* the way of.
Clear(j, x) ==
    \/ x.pc \in {"idle", "next"} /\ x.by = "none"
    \/ /\ x.by = "upload" => job[j].by = "upload" /\ x.id = job[j].id
       /\ \/ x.pc \notin Exclusive \cup {"read"}
          \/ x.id = job[j].id /\ x.pc \in Exclusive /\ job[j].pc \in Exclusive
          \/ x.pc \in Exclusive /\ Unlocked(x.id)
          \/ x.pc = "read" /\ ~Written(x.id)

\* Flows stay apart when one of them moves so.
LEMMA Apart ==
  ASSUME Inv, NEW j \in Jobs, NEW x \in Job, Clear(j, x),
         job' = [job EXCEPT ![j] = x], UNCHANGED tx
  PROVE  JobsApart' /\ TxExcludes'
<1> job \in [Jobs -> Job] /\ JobsApart /\ TxExcludes
  BY DEF Inv, TypeOK
<1>1. JobsApart'
  <2> SUFFICES ASSUME NEW i \in Jobs, NEW k \in Jobs, i # k, Clash(job'[i], job'[k])
               PROVE  FALSE
    BY DEF JobsApart, Clash
  <2>1. CASE i # j /\ k # j
    BY <2>1 DEF JobsApart
  <2>2. CASE i = j
    BY <2>2 DEF JobsApart, Clash, Clear, Unlocked, Written, At, Exclusive
  <2>3. CASE k = j
    BY <2>3 DEF JobsApart, Clash, Clear, Unlocked, Written, At, Exclusive
  <2> QED
    BY <2>1, <2>2, <2>3
<1>2. TxExcludes'
  <2> SUFFICES ASSUME NEW i \in Jobs PROVE LockedOut(job[i])'
    BY DEF TxExcludes
  <2>1. CASE i # j
    BY <2>1 DEF TxExcludes, LockedOut
  <2>2. CASE i = j
    BY <2>2 DEF TxExcludes, LockedOut, Clear, Unlocked, Written, Exclusive
  <2> QED
    BY <2>1, <2>2
<1> QED
  BY <1>1, <1>2

\* A step that moves one flow and touches nothing else.
LEMMA Move ==
  ASSUME Inv, NEW j \in Jobs, NEW x \in Job, Clear(j, x), JobFits(x),
         job' = [job EXCEPT ![j] = x], UNCHANGED <<row, owned, files, users, outlived>>
  PROVE  Inv'
<1> USE DEF users
<1>1. JobsApart' /\ TxExcludes'
  BY Apart
<1>2. TypeOK'
  BY DEF Inv, TypeOK
<1>3. JobsFit'
  BY DEF Inv, TypeOK, JobsFit, JobFits, Exists, InLease, Referenced
<1>4. TxsFit' /\ RowsFit' /\ RefsFit' /\ AvatarAgrees'
  BY DEF Inv, TxsFit, TxFits, RowsFit, RefsFit, AvatarAgrees
<1> QED
  BY <1>1, <1>2, <1>3, <1>4 DEF Inv

\* A goto, and the end of a flow, are moves within the type of job.
LEMMA Moves ==
  ASSUME Inv, NEW j \in Jobs
  PROVE  /\ job[j] \in Job /\ JobFits(job[j])
         /\ \A step : Goto(j, step) <=> job' = [job EXCEPT ![j] = [job[j] EXCEPT !.pc = step]]
         /\ Idle \in Job /\ Clear(j, Idle) /\ JobFits(Idle)
         /\ LET next == Sweep(job[j].todo)
            IN  next \in Job /\ Clear(j, next) /\ JobFits(next)
<1> job \in [Jobs -> Job] /\ job[j] \in Job /\ JobFits(job[j])
  BY DEF Inv, TypeOK, JobsFit
<1>1. \A step : Goto(j, step) <=> job' = [job EXCEPT ![j] = [job[j] EXCEPT !.pc = step]]
  BY DEF Goto
<1>2. Idle \in Job /\ Clear(j, Idle) /\ JobFits(Idle)
  BY AttachmentsAssumption DEF Idle, Flow, Job, Clear, JobFits, Uploading, Writing
<1>3. LET next == Sweep(job[j].todo)
      IN  next \in Job /\ Clear(j, next) /\ JobFits(next)
  BY AttachmentsAssumption DEF Sweep, Job, Clear, JobFits, Uploading, Writing
<1> QED
  BY <1>1, <1>2, <1>3

LEMMA LeaveInv ==
  ASSUME Inv, NEW j \in Jobs, Leave(j), UNCHANGED <<row, owned, files, users, outlived>>
  PROVE  Inv'
<1>1. CASE End(j)
  BY <1>1, Moves, Move DEF End
<1>2. CASE ~End(j)
  <2> DEFINE next == Sweep(job[j].todo)
  <2>1. job' = [job EXCEPT ![j] = next]
    BY <1>2 DEF Leave
  <2>2. next \in Job /\ Clear(j, next) /\ JobFits(next)
    BY Moves
  <2> HIDE DEF next
  <2> QED
    BY <2>1, <2>2, Move
<1> QED
  BY <1>1, <1>2

\* A goto within an upload or a removal, what it needs being known.
LEMMA GotoInv ==
  ASSUME Inv, NEW j \in Jobs, NEW step \in Uploading \cup Removing \cup {"claim"}, Goto(j, step),
         Clear(j, [job[j] EXCEPT !.pc = step]), JobFits([job[j] EXCEPT !.pc = step]),
         UNCHANGED <<row, owned, files, users, outlived>>
  PROVE  Inv'
<1> DEFINE x == [job[j] EXCEPT !.pc = step]
<1>1. x \in Job
  BY Moves DEF Job
<1>2. job' = [job EXCEPT ![j] = x]
  BY Moves
<1> HIDE DEF x
<1> QED
  BY <1>1, <1>2, Move DEF x

\* The steps of an upload that only move it.
LEMMA UploadMoves ==
  ASSUME Inv, NEW r \in Requests, Stream(r) \/ Inspect(r) \/ Respond(r) \/ Digest(r)
  PROVE  Inv'
<1> r \in Jobs
  BY DEF Jobs
<1> job[r] \in Job /\ JobFits(job[r])
  BY Moves
<1>1. CASE Respond(r)
  BY <1>1, Moves, Move DEF Respond, End
<1>2. ASSUME NEW from \in {"stream", "inspect", "digest"}, NEW step \in {"inspect", "digest", "complete"},
             At(r, from), Goto(r, step), "object" \in files[job[r].id] \/ step # "complete",
             UNCHANGED <<row, owned, files, users, outlived>>
      PROVE  Inv'
  <2>1. Clear(r, [job[r] EXCEPT !.pc = step])
    BY DEF Clear, Job, Exclusive
  <2>2. JobFits([job[r] EXCEPT !.pc = step])
    BY <1>2 DEF JobFits, Job, At, Uploading, Writing
  <2> QED
    BY <1>2, <2>1, <2>2, GotoInv DEF Uploading, Writing
<1> QED
  BY <1>1, <1>2 DEF Stream, Inspect, Digest

\* The steps of a removal and of a cleanup that only move it.
LEMMA RemovalMoves ==
  ASSUME Inv, NEW j \in Jobs, RemoveLock(j) \/ Check(j) \/ Recheck(j) \/ RemoveFails(j) \/ Dies(j)
  PROVE  Inv'
<1> job[j] \in Job /\ JobFits(job[j])
  BY Moves
<1>1. CASE RemoveLock(j)
  <2>1. Clear(j, [job[j] EXCEPT !.pc = "check"])
    BY <1>1 DEF RemoveLock, Clear, Job, Exclusive
  <2>2. JobFits([job[j] EXCEPT !.pc = "check"])
    BY <1>1 DEF RemoveLock, At, JobFits, Job, Uploading, Writing
  <2> QED
    BY <1>1, <2>1, <2>2, GotoInv DEF RemoveLock, Removing
<1>2. CASE Check(j) \/ Recheck(j)
  <2>1. CASE Leave(j)
    BY <1>2, <2>1, LeaveInv DEF Check, Recheck
  <2>2. CASE ~Leave(j) /\ Check(j)
    <3>1. Clear(j, [job[j] EXCEPT !.pc = "mark"])
      BY <2>2 DEF Check, At, Clear, Job, Exclusive
    <3>2. JobFits([job[j] EXCEPT !.pc = "mark"])
      BY <2>2 DEF Check, At, JobFits, Job, Uploading, Writing
    <3> QED
      BY <2>2, <3>1, <3>2, GotoInv DEF Check, Removing
  <2>3. CASE ~Leave(j) /\ Recheck(j)
    <3>1. Clear(j, [job[j] EXCEPT !.pc = "claim"])
      BY <2>3 DEF Recheck, At, Clear, Job, Exclusive
    <3>2. JobFits([job[j] EXCEPT !.pc = "claim"])
      BY <2>3 DEF Recheck, At, JobFits, Job, Uploading, Writing, InLease, Candidates
    <3> QED
      BY <2>3, <3>1, <3>2, GotoInv DEF Recheck, Removing
  <2> QED
    BY <1>2, <2>1, <2>2, <2>3
<1>3. CASE Dies(j)
  BY <1>3, Moves, Move DEF Dies, End
<1>4. CASE RemoveFails(j)
  BY <1>4, LeaveInv DEF RemoveFails
<1> QED
  BY <1>1, <1>2, <1>3, <1>4

\* The steps that start a flow, and those of the loop of a cleanup.
LEMMA StartMoves ==
  ASSUME Inv, NEW j \in Jobs, NEW a \in Ids,
         RemoveStart(j, a) \/ Download(j, a) \/ Read(j) \/ Scan(j) \/ TakeLock(j, a) \/ SkipLocked(j, a)
  PROVE  Inv'
<1> job[j] \in Job /\ JobFits(job[j]) /\ Ids \subseteq 0..MaxId
  BY Moves, AttachmentsAssumption DEF Ids
<1>1. CASE RemoveStart(j, a)
  <2> DEFINE x == Flow("lock", "request", a)
  <2>1. x \in Job /\ Clear(j, x) /\ JobFits(x)
    BY <1>1 DEF RemoveStart, Flow, Job, Clear, JobFits, Uploading, Writing, Removing, Exclusive
  <2> QED
    BY <1>1, <2>1, Move DEF RemoveStart
<1>2. CASE Download(j, a)
  <2> DEFINE x == Flow("read", "request", a)
  <2>1. x \in Job /\ Clear(j, x) /\ JobFits(x)
    BY <1>2 DEF Download, Flow, Job, Clear, JobFits, Uploading, Writing, Exclusive, Readable, Exists
  <2> QED
    BY <1>2, <2>1, Move DEF Download
<1>3. CASE Read(j)
  BY <1>3, Moves, Move DEF Read, End
<1>4. CASE Scan(j)
  <2>1. Sweep(Candidates) \in Job /\ Clear(j, Sweep(Candidates)) /\ JobFits(Sweep(Candidates))
    BY AttachmentsAssumption
    DEF Sweep, Job, Clear, JobFits, Uploading, Writing, Candidates, Exists
  <2> QED
    BY <1>4, <2>1, Move DEF Scan
<1>5. CASE TakeLock(j, a)
  <2> DEFINE x == [pc |-> "recheck", by |-> "cleanup", id |-> a, todo |-> job[j].todo \ {a}]
  <2>1. x \in Job
    BY DEF Job
  <2>2. Clear(j, x) /\ JobFits(x)
    BY <1>5 DEF TakeLock, Clear, JobFits, Uploading, Writing, Exclusive
  <2> HIDE DEF x
  <2>3. job' = [job EXCEPT ![j] = x]
    BY <1>5 DEF TakeLock, x
  <2> QED
    BY <1>5, <2>1, <2>2, <2>3, Move DEF TakeLock
<1>6. CASE SkipLocked(j, a)
  <2>1. CASE End(j)
    BY <1>6, <2>1, Moves, Move DEF SkipLocked, End
  <2>2. CASE ~End(j)
    <3> DEFINE x == [job[j] EXCEPT !.todo = @ \ {a}]
    <3>1. x \in Job /\ Clear(j, x) /\ JobFits(x)
      BY <1>6 DEF SkipLocked, At, Job, Clear, JobFits, Uploading, Writing
    <3>2. job' = [job EXCEPT ![j] = x]
      BY <1>6, <2>2 DEF SkipLocked, Inv, TypeOK
    <3> HIDE DEF x
    <3> QED
      BY <1>6, <3>1, <3>2, Move DEF SkipLocked
  <2> QED
    BY <2>1, <2>2
<1> QED
  BY <1>1, <1>2, <1>3, <1>4, <1>5, <1>6

-----------------------------------------------------------------------------
LEMMA PendingInv ==
  ASSUME Inv, NEW r \in Requests, NEW u \in Users, NEW a \in Ids, Pending(r, u, a)
  PROVE  Inv'
<1> r \in Jobs
  BY DEF Jobs
<1> USE DEF users
<1> DEFINE x == Flow("open", "upload", a)
<1>1. /\ job' = [job EXCEPT ![r] = x]
      /\ row' = [row EXCEPT ![a] = [status |-> "pending", expires |-> "later"]]
      /\ owned' = [owned EXCEPT ![u] = @ \cup {a}]
      /\ UNCHANGED <<files, refs, avatar, gone, tx, outlived>>
  BY DEF Pending
<1>2. row[a].status = "none" /\ x \in Job
  BY AttachmentsAssumption DEF Pending, Exists, Flow, Job, Uploading, Writing, Ids
<1>3. TypeOK'
  BY <1>1, <1>2 DEF Inv, TypeOK, Row, Statuses
<1>4. JobsFit'
  <2> SUFFICES ASSUME NEW i \in Jobs PROVE JobFits(job[i])'
    BY DEF JobsFit
  <2> JobFits(job[i]) /\ job[i] \in Job
    BY Moves
  <2>1. CASE i # r
    BY <1>1, <1>2, <2>1 DEF Inv, TypeOK, Job, JobFits, Exists, InLease, Referenced, Uploading, Writing
  <2>2. CASE i = r
    BY <1>1, <2>2 DEF Inv, TypeOK, Flow, JobFits, Exists, InLease, Uploading, Writing
  <2> QED
    BY <2>1, <2>2
<1>5. JobsApart'
  <2> SUFFICES ASSUME NEW i \in Jobs, NEW k \in Jobs, i # k, Clash(job'[i], job'[k])
               PROVE  FALSE
    BY DEF JobsApart, Clash
  <2> JobFits(job[i]) /\ JobFits(job[k]) /\ job \in [Jobs -> Job]
    BY Moves DEF Inv, TypeOK
  <2>1. CASE i # r /\ k # r
    BY <1>1, <2>1 DEF Inv, JobsApart
  <2>2. CASE i = r
    BY <1>1, <1>2, <2>2 DEF Clash, Flow, JobFits, Exists, Exclusive
  <2>3. CASE k = r
    BY <1>1, <1>2, <2>3 DEF Clash, Flow, JobFits, Exists, Exclusive
  <2> QED
    BY <2>1, <2>2, <2>3
<1>6. TxExcludes'
  BY <1>1 DEF Inv, TypeOK, TxExcludes, LockedOut, Flow, Exclusive
<1>7. TxsFit'
  <2> SUFFICES ASSUME NEW v \in Users PROVE TxFits(v)'
    BY DEF TxsFit
  <2> QED
    BY <1>1, <1>2 DEF Inv, TypeOK, Tx, TxsFit, TxFits
<1>8. RowsFit'
  BY <1>1, <1>2 DEF Inv, TypeOK, RowsFit
<1>9. RefsFit' /\ AvatarAgrees'
  BY <1>1, <1>2 DEF Inv, TypeOK, RefsFit, AvatarAgrees
<1> QED
  BY <1>3, <1>4, <1>5, <1>6, <1>7, <1>8, <1>9 DEF Inv

\* What the invariant says of users and their transactions does not depend on the
\* disk, and of a row it depends on as long as it is ready.
LEMMA UsersInv ==
  ASSUME Inv, UNCHANGED <<owned, users>>,
         \A a \in Ids : \/ row'[a] = row[a]
                        \/ /\ row[a] # [status |-> "ready", expires |-> "never"]
                           /\ row'[a].status = row[a].status \/ row[a].status # "ready"
                        \/ ~Referenced(a) /\ \A u \in Users : tx[u] # NoTx => a \notin tx[u].locked
  PROVE  TxsFit' /\ RefsFit' /\ AvatarAgrees'
<1> USE DEF users
<1>1. TxsFit'
  <2> SUFFICES ASSUME NEW v \in Users PROVE TxFits(v)'
    BY DEF TxsFit
  <2> QED
    BY DEF Inv, TypeOK, Tx, TxsFit, TxFits
<1>2. RefsFit' /\ AvatarAgrees'
  BY DEF Inv, TypeOK, RefsFit, AvatarAgrees, Referenced
<1> QED
  BY <1>1, <1>2

\* An upload that writes to the disk.
LEMMA WriteInv ==
  ASSUME Inv, NEW r \in Requests, Open(r) \/ Normalise(r) \/ Rename(r)
  PROVE  Inv'
<1> r \in Jobs
  BY DEF Jobs
<1> DEFINE a == job[r].id
<1>0. /\ job[r] \in Job /\ JobFits(job[r]) /\ a \in Ids /\ job[r].pc \in Writing
      /\ row[a].status # "ready" /\ (InLease(a) \/ a \in outlived)
      /\ job \in [Jobs -> Job] /\ files \in [Ids -> SUBSET Objects] /\ row \in [Ids -> Row]
  BY Moves DEF Inv, TypeOK, JobFits, Open, Normalise, Rename, At, Writing
<1>1. PICK step \in {"stream", "rename", "digest"} :
        /\ Goto(r, step)
        /\ \E f \in SUBSET Objects : "object" \in f /\ files' = [files EXCEPT ![a] = f]
        /\ UNCHANGED <<row, owned, users, outlived>>
  BY <1>0 DEF Open, Normalise, Rename, Objects, Inv, TypeOK
<1>2. PICK f \in SUBSET Objects : "object" \in f /\ files' = [files EXCEPT ![a] = f]
  BY <1>1
<1> DEFINE x == [job[r] EXCEPT !.pc = step]
<1>3. x \in Job /\ Clear(r, x) /\ job' = [job EXCEPT ![r] = x]
  BY <1>0, <1>1 DEF Job, Clear, Exclusive, Goto, Uploading, Writing
<1>4. x.pc = step /\ x.id = a /\ x.todo = job[r].todo /\ x.by = job[r].by
  BY <1>0 DEF Job
<1> HIDE DEF x
<1>5. JobsApart' /\ TxExcludes'
  BY <1>1, <1>3, Apart DEF users
<1>6. TypeOK'
  BY <1>1, <1>2, <1>3 DEF Inv, TypeOK, users
<1>7. JobsFit'
  <2> SUFFICES ASSUME NEW i \in Jobs PROVE JobFits(job[i])'
    BY DEF JobsFit
  <2> JobFits(job[i]) /\ job[i] \in Job
    BY Moves
  <2>1. CASE i # r
    BY <1>0, <1>1, <1>2, <1>3, <2>1
    DEF Job, JobFits, Exists, InLease, Referenced, users, Uploading, Writing
  <2>2. CASE i = r
    BY <1>0, <1>1, <1>2, <1>3, <1>4, <2>2
    DEF JobFits, Exists, InLease, Referenced, users, Uploading, Writing
  <2> QED
    BY <2>1, <2>2
<1>8. TxsFit' /\ RefsFit' /\ AvatarAgrees'
  BY <1>1, UsersInv
<1>9. RowsFit'
  BY <1>0, <1>1, <1>2 DEF Inv, RowsFit, InLease
<1> QED
  BY <1>5, <1>6, <1>7, <1>8, <1>9 DEF Inv

LEMMA CompleteInv ==
  ASSUME Inv, NEW r \in Requests, Complete(r)
  PROVE  Inv'
<1> r \in Jobs
  BY DEF Jobs
<1> DEFINE a == job[r].id
           ready == [status |-> "ready", expires |-> "later"]
<1>0. /\ job[r] \in Job /\ JobFits(job[r]) /\ a \in Ids /\ job[r].pc = "complete"
      /\ job[r].by = "upload"
      /\ job \in [Jobs -> Job] /\ files \in [Ids -> SUBSET Objects] /\ row \in [Ids -> Row]
  BY Moves DEF Inv, TypeOK, JobFits, Complete, At, Uploading, Writing
<1>1. CASE row[a].status # "pending"
  <2>1. Clear(r, [job[r] EXCEPT !.pc = "lock"]) /\ JobFits([job[r] EXCEPT !.pc = "lock"])
    BY <1>0 DEF Job, Clear, JobFits, Exclusive, Uploading, Writing
  <2> QED
    BY <1>1, <2>1, GotoInv DEF Complete, Removing
<1>2. CASE row[a].status = "pending"
  <2> DEFINE x == [job[r] EXCEPT !.pc = "respond"]
  <2>1. Goto(r, "respond") /\ row' = [row EXCEPT ![a] = ready]
        /\ UNCHANGED <<owned, files, users, outlived>>
    BY <1>2 DEF Complete
  <2>2. x \in Job /\ Clear(r, x) /\ job' = [job EXCEPT ![r] = x]
    BY <1>0, <2>1 DEF Job, Clear, Exclusive, Goto, Uploading
  <2>3. x.pc = "respond" /\ x.id = a /\ x.todo = job[r].todo /\ x.by = "upload"
    BY <1>0 DEF Job
  <2> HIDE DEF x
  <2>4. JobsApart' /\ TxExcludes'
    BY <2>1, <2>2, Apart DEF users
  <2>5. TypeOK'
    BY <1>0, <2>1, <2>2 DEF Inv, TypeOK, users, Row, Statuses
  <2>6. JobsFit'
    <3> SUFFICES ASSUME NEW i \in Jobs PROVE JobFits(job[i])'
      BY DEF JobsFit
    <3> JobFits(job[i]) /\ job[i] \in Job
      BY Moves
    <3>1. CASE i # r
      <4>1. job[i].id = a => job[i].by # "upload"
        BY <1>0, <3>1 DEF Inv, JobsApart, Clash
      <4> QED
        BY <1>0, <1>2, <2>1, <2>2, <3>1, <4>1
        DEF Job, JobFits, Exists, InLease, Referenced, users, Uploading, Writing
    <3>2. CASE i = r
      BY <1>0, <2>1, <2>2, <2>3, <3>2
      DEF JobFits, Exists, InLease, Referenced, users, Uploading, Writing
    <3> QED
      BY <3>1, <3>2
  <2>7. TxsFit' /\ RefsFit' /\ AvatarAgrees'
    BY <1>0, <1>2, <2>1, UsersInv
  <2>8. RowsFit'
    BY <1>0, <1>2, <2>1 DEF Inv, RowsFit, JobFits
  <2> QED
    BY <2>4, <2>5, <2>6, <2>7, <2>8 DEF Inv
<1> QED
  BY <1>1, <1>2

\* A removal past its mark, and a failing upload: the disk loses files of an
\* attachment that is not ready, or nothing.
LEMMA LosesFiles ==
  ASSUME Inv, NEW j \in Jobs, NEW x \in Job, Clear(j, x), job' = [job EXCEPT ![j] = x],
         NEW a \in Ids, NEW f \in SUBSET Objects, f \subseteq files[a],
         files' = [files EXCEPT ![a] = f], UNCHANGED <<row, owned, users, outlived>>,
         f = files[a] \/ row[a].status # "ready",
         f = files[a] \/ row[a].status # "pending" \/ (job[j].by = "upload" /\ job[j].id = a),
         x.pc \in {"lock", "finish", "idle", "next"}, JobFits(job[j])'
  PROVE  Inv'
<1>0. /\ job \in [Jobs -> Job] /\ files \in [Ids -> SUBSET Objects] /\ row \in [Ids -> Row]
  BY DEF Inv, TypeOK
<1>1. JobsApart' /\ TxExcludes'
  BY Apart DEF users
<1>2. TypeOK'
  BY DEF Inv, TypeOK, users
<1>3. JobsFit'
  <2> SUFFICES ASSUME NEW i \in Jobs PROVE JobFits(job[i])'
    BY DEF JobsFit
  <2>1. CASE i # j
    <3> JobFits(job[i]) /\ job[i] \in Job
      BY Moves
    <3>1. job[i].id = a /\ job[i].pc = "complete" => job[j].by # "upload" \/ job[j].id # a
      BY <2>1 DEF Inv, JobsApart, Clash, JobFits, Uploading, Writing
    <3> QED
      BY <1>0, <2>1, <3>1
      DEF Job, JobFits, Exists, InLease, Referenced, users
  <2>2. CASE i = j
    BY <2>2
  <2> QED
    BY <2>1, <2>2
<1>4. TxsFit' /\ RefsFit' /\ AvatarAgrees'
  BY UsersInv
<1>5. RowsFit'
  BY <1>0 DEF Inv, RowsFit
<1> QED
  BY <1>1, <1>2, <1>3, <1>4, <1>5 DEF Inv

LEMMA UploadFailsInv ==
  ASSUME Inv, NEW r \in Requests, UploadFails(r)
  PROVE  Inv'
<1> r \in Jobs
  BY DEF Jobs
<1> DEFINE a == job[r].id
           x == [job[r] EXCEPT !.pc = "lock"]
<1>1. /\ job[r] \in Job /\ JobFits(job[r]) /\ a \in Ids /\ job[r].by = "upload"
      /\ job[r].pc = "respond" \/ row[a].status # "ready"
      /\ files[a] \in SUBSET Objects
  BY Moves DEF Inv, TypeOK, JobFits, UploadFails, Uploading, Writing
<1>2. PICK f : /\ f \in {files[a], files[a] \ TakenBack(job[r].pc)}
               /\ files' = [files EXCEPT ![a] = f]
  BY DEF UploadFails
<1>3. f \in SUBSET Objects /\ f \subseteq files[a] /\ (f = files[a] \/ job[r].pc # "respond")
  BY <1>1, <1>2 DEF TakenBack
<1>4. x \in Job /\ Clear(r, x) /\ job' = [job EXCEPT ![r] = x]
  BY <1>1 DEF Job, Clear, Exclusive, Goto, UploadFails, Removing
<1>5. x.pc = "lock" /\ x.id = a /\ x.todo = job[r].todo /\ UNCHANGED <<row, owned, users, outlived>>
  BY <1>1 DEF Job, UploadFails
<1>6. JobFits(job[r])'
  <2>1. job'[r].pc = "lock" /\ job'[r].id = a /\ job'[r].todo = job[r].todo /\ row' = row
    BY <1>4, <1>5 DEF Inv, TypeOK
  <2> HIDE DEF x, a
  <2> QED
    BY <1>1, <2>1 DEF JobFits, Exists, UploadFails, Uploading, Writing, a
<1> HIDE DEF x
<1> QED
  BY <1>1, <1>2, <1>3, <1>4, <1>5, <1>6, LosesFiles

\* What ends a removal leaves nothing behind in its flow.
LEMMA Leaves ==
  ASSUME Inv, NEW j \in Jobs, Leave(j), \A a \in Ids : Exists(a) => Exists(a)'
  PROVE  \E x \in Job : /\ x.pc \in {"idle", "next"} /\ Clear(j, x)
                        /\ job' = [job EXCEPT ![j] = x] /\ JobFits(job[j])'
<1> job \in [Jobs -> Job] /\ job[j] \in Job
  BY DEF Inv, TypeOK
<1>1. CASE End(j)
  BY <1>1, Moves DEF End, Idle, Flow, JobFits, Uploading, Writing
<1>2. CASE ~End(j)
  <2> DEFINE next == Sweep(job[j].todo)
  <2>1. next \in Job /\ Clear(j, next) /\ JobFits(next)
    BY Moves
  <2>2. next.pc = "next" /\ next.todo = job[j].todo /\ next.by = "none"
    BY DEF Sweep
  <2> HIDE DEF next
  <2>3. job' = [job EXCEPT ![j] = next]
    BY <1>2 DEF Leave, next
  <2>4. \A a \in next.todo : Exists(a)'
    BY <2>1, <2>2 DEF JobFits, Job
  <2>5. JobFits(job[j])'
    <3>1. job'[j].pc = "next" /\ job'[j].by = "none" /\ job'[j].todo = next.todo
      BY <2>2, <2>3
    <3> QED
      BY <2>4, <3>1 DEF JobFits, Uploading, Writing
  <2> QED
    BY <2>1, <2>2, <2>3, <2>5
<1> QED
  BY <1>1, <1>2

\* The row leaves the statuses a business or an upload can build on.
LEMMA Retires ==
  ASSUME Inv, NEW j \in Jobs, NEW x \in Job, Clear(j, x), job' = [job EXCEPT ![j] = x],
         NEW a \in Ids, NEW status \in {"deleting", "deleted"}, SetStatus(a, status),
         UNCHANGED <<owned, files, users, outlived>>,
         row[a].status # "none",
         \/ row[a].status # "ready"
         \/ ~Referenced(a) /\ \A u \in Users : tx[u] # NoTx => a \notin tx[u].locked,
         ~InLease(a) \/ (job[j].by = "upload" /\ job[j].id = a),
         \A i \in Jobs : i # j /\ job[i].pc = "read" => job[i].id # a,
         status = "deleted" => files[a] = {} \/ a \in outlived,
         JobFits(job[j])'
  PROVE  Inv'
<1>0. /\ job \in [Jobs -> Job] /\ row \in [Ids -> Row]
      /\ row' = [row EXCEPT ![a] = [row[a] EXCEPT !.status = status]]
      /\ row'[a].status = status
  BY DEF Inv, TypeOK, SetStatus, Row
<1>1. JobsApart' /\ TxExcludes'
  BY Apart DEF users
<1>2. TypeOK'
  BY <1>0 DEF Inv, TypeOK, users, Row, Statuses
<1>3. JobsFit'
  <2> SUFFICES ASSUME NEW i \in Jobs PROVE JobFits(job[i])'
    BY DEF JobsFit
  <2>1. CASE i # j
    <3> JobFits(job[i]) /\ job[i] \in Job
      BY Moves
    <3>1. job[i].id = a /\ job[i].pc \in Writing => ~InLease(a)
      BY <2>1 DEF Inv, JobsApart, Clash, JobFits, Uploading
    <3> QED
      BY <1>0, <2>1, <3>1
      DEF Job, JobFits, Exists, InLease, Referenced, users, Writing
  <2>2. CASE i = j
    BY <2>2
  <2> QED
    BY <2>1, <2>2
<1>4. TxsFit' /\ RefsFit' /\ AvatarAgrees'
  BY <1>0, UsersInv
<1>5. RowsFit'
  BY <1>0 DEF Inv, RowsFit
<1> QED
  BY <1>1, <1>2, <1>3, <1>4, <1>5 DEF Inv

LEMMA UnlinkInv ==
  ASSUME Inv, NEW j \in Jobs, Unlink(j) \/ UnlinkFails(j)
  PROVE  Inv'
<1> DEFINE a == job[j].id
<1>0. /\ job[j] \in Job /\ JobFits(job[j]) /\ a \in Ids /\ job[j].pc = "unlink"
      /\ row[a].status \in {"deleting", "deleted"} /\ files \in [Ids -> SUBSET Objects]
  BY Moves DEF Inv, TypeOK, JobFits, Unlink, UnlinkFails, At
<1>1. CASE Unlink(j)
  <2> DEFINE x == [job[j] EXCEPT !.pc = "finish"]
  <2>1. x \in Job /\ Clear(j, x) /\ job' = [job EXCEPT ![j] = x]
    BY <1>0, <1>1 DEF Job, Clear, Exclusive, Goto, Unlink, Removing
  <2>2. x.pc = "finish" /\ x.id = a /\ x.todo = job[j].todo
    BY <1>0 DEF Job
  <2>3. files' = [files EXCEPT ![a] = {}] /\ UNCHANGED <<row, owned, users, outlived>>
    BY <1>1 DEF Unlink
  <2>4. JobFits(job[j])'
    <3>1. job'[j].pc = "finish" /\ job'[j].id = a /\ job'[j].todo = job[j].todo /\ files'[a] = {}
      BY <1>0, <2>1, <2>2, <2>3 DEF Inv, TypeOK
    <3> HIDE DEF x, a
    <3> QED
      BY <1>0, <2>3, <3>1 DEF JobFits, Exists, Uploading, Writing, a
  <2>5. PICK f \in SUBSET Objects : f = {}
    OBVIOUS
  <2>6. f \subseteq files[a] /\ files' = [files EXCEPT ![a] = f]
    BY <2>3, <2>5
  <2> HIDE DEF x
  <2> QED
    BY <1>0, <2>1, <2>2, <2>3, <2>4, <2>6, LosesFiles
<1>2. CASE UnlinkFails(j)
  <2>1. PICK f \in {files[a], files[a] \ {"object"}} : files' = [files EXCEPT ![a] = f]
    BY <1>2 DEF UnlinkFails
  <2>2. PICK x \in Job : /\ x.pc \in {"idle", "next"} /\ Clear(j, x)
                         /\ job' = [job EXCEPT ![j] = x] /\ JobFits(job[j])'
    BY <1>2, Leaves DEF UnlinkFails, Exists
  <2>3. f \in SUBSET Objects /\ f \subseteq files[a]
    BY <1>0, <2>1
  <2> QED
    BY <1>0, <1>2, <2>1, <2>2, <2>3, LosesFiles DEF UnlinkFails
<1> QED
  BY <1>1, <1>2

LEMMA MarkInv ==
  ASSUME Inv, NEW j \in Jobs, Mark(j) \/ Claim(j)
  PROVE  Inv'
<1> DEFINE a == job[j].id
<1>0. /\ job[j] \in Job /\ JobFits(job[j]) /\ a \in Ids /\ job[j].pc \in {"mark", "claim"}
      /\ row \in [Ids -> Row] /\ job \in [Jobs -> Job]
  BY Moves DEF Inv, TypeOK, JobFits, Mark, Claim, At
<1>1. PICK step \in {"unlink", "lock"} : Goto(j, step) /\ SetStatus(a, "deleting")
  BY DEF Mark, Claim
<1> DEFINE x == [job[j] EXCEPT !.pc = step]
<1>2. x \in Job /\ Clear(j, x) /\ job' = [job EXCEPT ![j] = x]
  BY <1>0, <1>1 DEF Job, Clear, Exclusive, Goto, Removing
<1>3. x.pc = step /\ x.id = a /\ x.todo = job[j].todo
  BY <1>0 DEF Job
<1>4. JobFits(job[j])'
  <2>1. job'[j].pc = step /\ job'[j].id = a /\ job'[j].todo = job[j].todo
    BY <1>0, <1>2, <1>3
  <2>2. row'[a].status = "deleting" /\ \A b \in Ids : Exists(b) => Exists(b)'
    BY <1>0, <1>1 DEF SetStatus, Row, Exists
  <2> HIDE DEF x, a
  <2> QED
    BY <1>0, <2>1, <2>2 DEF Job, JobFits, Exists, Uploading, Writing, a
<1>5. ~Referenced(a) /\ \A u \in Users : tx[u] # NoTx => a \notin tx[u].locked
  BY <1>0 DEF JobFits, Inv, TxExcludes, LockedOut, Exclusive
<1>6. \A i \in Jobs : i # j /\ job[i].pc = "read" => job[i].id # a
  BY <1>0 DEF Inv, JobsApart, Clash, Exclusive
<1>7. row[a].status # "none" /\ (~InLease(a) \/ (job[j].by = "upload" /\ job[j].id = a))
  BY <1>0 DEF JobFits, Exists
<1>8. UNCHANGED <<owned, files, users, outlived>>
  BY DEF Mark, Claim
<1>9. PICK status \in {"deleting", "deleted"} : status = "deleting"
  OBVIOUS
<1> HIDE DEF x, a
<1> QED
  BY <1>0, <1>1, <1>2, <1>4, <1>5, <1>6, <1>7, <1>8, <1>9, Retires

LEMMA FinishInv ==
  ASSUME Inv, NEW j \in Jobs, Finish(j)
  PROVE  Inv'
<1> DEFINE a == job[j].id
<1>0. /\ job[j] \in Job /\ JobFits(job[j]) /\ a \in Ids /\ job[j].pc = "finish"
      /\ row \in [Ids -> Row] /\ job \in [Jobs -> Job] /\ (files[a] = {} \/ a \in outlived)
  BY Moves DEF Inv, TypeOK, JobFits, Finish, At
<1>1. CASE row[a].status # "deleting"
  BY <1>1, LeaveInv DEF Finish
<1>2. CASE row[a].status = "deleting"
  <2>1. SetStatus(a, "deleted") /\ Leave(j) /\ UNCHANGED <<owned, files, users, outlived>>
    BY <1>2 DEF Finish
  <2>2. \A b \in Ids : Exists(b) => Exists(b)'
    BY <1>0, <2>1 DEF SetStatus, Exists, Row
  <2>3. PICK x \in Job : /\ x.pc \in {"idle", "next"} /\ Clear(j, x)
                         /\ job' = [job EXCEPT ![j] = x] /\ JobFits(job[j])'
    BY <2>1, <2>2, Leaves
  <2>4. \A i \in Jobs : i # j /\ job[i].pc = "read" => job[i].id # a
    BY <1>2 DEF Inv, JobsFit, JobFits
  <2>5. ~InLease(a) /\ row[a].status # "none" /\ row[a].status # "ready"
    BY <1>2 DEF InLease
  <2>6. PICK status \in {"deleting", "deleted"} : status = "deleted"
    OBVIOUS
  <2>7. /\ SetStatus(a, status) /\ UNCHANGED <<owned, files, users, outlived>> /\ a \in Ids
        /\ status = "deleted" => files[a] = {} \/ a \in outlived
    BY <1>0, <2>1, <2>6
  <2> HIDE DEF a
  <2> QED
    BY <2>3, <2>4, <2>5, <2>6, <2>7, Retires, ZenonT(30)
<1> QED
  BY <1>1, <1>2

LEMMA ExpireInv ==
  ASSUME Inv, NEW a \in Ids, Expire(a)
  PROVE  Inv'
<1>0. /\ job \in [Jobs -> Job] /\ row \in [Ids -> Row] /\ UNCHANGED <<owned, files, users, job>>
      /\ row' = [row EXCEPT ![a] = [row[a] EXCEPT !.expires = "past"]]
      /\ row[a].status \in {"pending", "ready"} /\ row[a].expires = "later"
  BY DEF Inv, TypeOK, Expire
<1>1. /\ row'[a].status = row[a].status /\ row'[a].expires = "past" /\ row'[a] \in Row
      /\ outlived \subseteq outlived' /\ outlived' \subseteq Ids
      /\ \A j \in Jobs : job[j].pc \in Writing /\ job[j].id = a => a \in outlived'
  BY <1>0 DEF Row, Expire, Inv, TypeOK
<1>2. JobsApart' /\ TxExcludes'
  BY <1>0 DEF users, Inv, JobsApart, Clash, TxExcludes, LockedOut
<1>3. TypeOK'
  BY <1>0, <1>1 DEF Inv, TypeOK, users
<1>4. JobsFit'
  <2> SUFFICES ASSUME NEW i \in Jobs PROVE JobFits(job[i])'
    BY DEF JobsFit
  <2> JobFits(job[i]) /\ job[i] \in Job
    BY Moves
  <2> QED
    BY <1>0, <1>1 DEF Job, JobFits, Exists, InLease, Referenced, users, Writing
<1>5. TxsFit' /\ RefsFit' /\ AvatarAgrees'
  BY <1>0, <1>1, UsersInv
<1>6. RowsFit'
  BY <1>0, <1>1 DEF Inv, RowsFit
<1> QED
  BY <1>2, <1>3, <1>4, <1>5, <1>6 DEF Inv

\* A step of an avatar transaction that commits nothing.
LEMMA TxInv ==
  ASSUME Inv, NEW u \in Users, NEW t \in {NoTx} \cup Tx, tx' = [tx EXCEPT ![u] = t],
         UNCHANGED <<row, owned, files, refs, avatar, gone, job, outlived>>,
         TxFits(u)',
         t # NoTx => \A a \in t.locked : Unlocked(a) \/ (tx[u] # NoTx /\ a \in tx[u].locked)
  PROVE  Inv'
<1> tx \in [Users -> {NoTx} \cup Tx]
  BY DEF Inv, TypeOK
<1>1. TypeOK' /\ JobsApart' /\ RowsFit' /\ RefsFit' /\ AvatarAgrees'
  BY DEF Inv, TypeOK, JobsApart, Clash, RowsFit, RefsFit, AvatarAgrees
<1>2. JobsFit'
  BY DEF Inv, JobsFit, JobFits, Exists, InLease, Referenced
<1>3. TxsFit'
  <2> SUFFICES ASSUME NEW v \in Users, v # u PROVE TxFits(v)'
    BY DEF TxsFit
  <2> QED
    BY DEF Inv, TxsFit, TxFits
<1>4. TxExcludes'
  <2> SUFFICES ASSUME NEW j \in Jobs, job[j].pc \in Exclusive, NEW v \in Users, tx'[v] # NoTx
               PROVE  job[j].id \notin tx'[v].locked
    BY DEF TxExcludes, LockedOut
  <2> QED
    BY DEF Inv, TxExcludes, LockedOut, Unlocked, Written
<1> QED
  BY <1>1, <1>2, <1>3, <1>4 DEF Inv

LEMMA AvatarMoves ==
  ASSUME Inv, NEW u \in Users, NEW kind \in {"set", "delete"}, NEW target \in SUBSET Ids,
         kind = "delete" => target = {},
         \/ AvatarBegin(u, kind, target) \/ AvatarLock(u) \/ AvatarCheck(u) \/ AvatarRollback(u)
  PROVE  Inv'
<1>0. /\ tx \in [Users -> {NoTx} \cup Tx] /\ row \in [Ids -> Row] /\ refs[u] \subseteq Ids
      /\ TxFits(u) /\ UNCHANGED <<row, owned, files, refs, avatar, gone, job, outlived>>
  BY DEF Inv, TypeOK, TxsFit, AvatarBegin, AvatarLock, AvatarCheck, AvatarRollback
<1>1. CASE tx' = [tx EXCEPT ![u] = NoTx]
  BY <1>0, <1>1, TxInv DEF TxFits
<1>2. CASE AvatarBegin(u, kind, target)
  <2> DEFINE needed == refs[u] \cup target
             seen == [a \in Ids |-> IF a \in needed THEN row[a].status ELSE "none"]
             t == [pc |-> "lock", kind |-> kind, target |-> target, needed |-> needed,
                   locked |-> {}, seen |-> seen]
  <2>1. seen \in [Ids -> Statuses]
    BY <1>0 DEF Row, Statuses
  <2> HIDE DEF seen
  <2>2. t \in Tx
    BY <1>0, <2>1 DEF Tx
  <2>3. tx' = [tx EXCEPT ![u] = t] /\ u \notin gone
    BY <1>2 DEF AvatarBegin, seen
  <2>4. TxFits(u)'
    BY <1>0, <2>3 DEF TxFits
  <2> QED
    BY <1>0, <2>2, <2>3, <2>4, TxInv
<1>3. CASE AvatarLock(u) /\ ~(tx' = [tx EXCEPT ![u] = NoTx])
  <2>1. PICK a \in Left(u) :
          /\ Unlocked(a)
          /\ tx' = [tx EXCEPT ![u] = [tx[u] EXCEPT !.locked = tx[u].locked \cup {a}]]
    BY <1>0, <1>3 DEF AvatarLock
  <2> DEFINE t == [tx[u] EXCEPT !.locked = tx[u].locked \cup {a}]
  <2>2. tx[u] \in Tx /\ tx[u] # NoTx /\ tx[u].pc = "lock"
    BY <1>0, <1>3 DEF AvatarLock, NoTx
  <2>3. t \in Tx /\ t.pc = "lock" /\ t.kind = tx[u].kind /\ t.target = tx[u].target
        /\ t.needed = tx[u].needed /\ t.locked = tx[u].locked \cup {a}
    BY <2>2 DEF Tx, Left
  <2>4. tx' = [tx EXCEPT ![u] = t]
    BY <2>1
  <2> HIDE DEF t
  <2>5. TxFits(u)'
    BY <1>0, <2>2, <2>3, <2>4 DEF TxFits
  <2> QED
    BY <1>0, <2>1, <2>2, <2>3, <2>4, <2>5, TxInv
<1>4. CASE AvatarCheck(u) /\ ~(tx' = [tx EXCEPT ![u] = NoTx])
  <2> DEFINE t == [tx[u] EXCEPT !.pc = "commit"]
  <2>1. tx' = [tx EXCEPT ![u] = t] /\ \A a \in tx[u].target : Bindable(u, a)
    BY <1>0, <1>4 DEF AvatarCheck
  <2>2. tx[u] \in Tx /\ tx[u] # NoTx /\ Left(u) = {}
    BY <1>0, <1>4 DEF AvatarCheck, NoTx
  <2>3. t \in Tx /\ t.pc = "commit" /\ t.kind = tx[u].kind /\ t.target = tx[u].target
        /\ t.needed = tx[u].needed /\ t.locked = tx[u].locked /\ t.target \subseteq t.locked
    BY <1>0, <2>2 DEF Tx, Left, TxFits
  <2> HIDE DEF t
  <2>4. TxFits(u)'
    BY <1>0, <2>1, <2>2, <2>3 DEF TxFits, Bindable, Readable
  <2> QED
    BY <1>0, <2>1, <2>2, <2>3, <2>4, TxInv
<1> QED
  BY <1>1, <1>2, <1>3, <1>4 DEF AvatarRollback

LEMMA CommitInv ==
  ASSUME Inv, NEW u \in Users, AvatarCommit(u)
  PROVE  Inv'
<1> DEFINE target == tx[u].target
<1>0. /\ tx \in [Users -> {NoTx} \cup Tx] /\ row \in [Ids -> Row] /\ refs \in [Users -> SUBSET Ids]
      /\ tx[u] \in Tx /\ tx[u] # NoTx /\ target \subseteq Ids
      /\ u \notin gone /\ (tx[u].kind = "delete" => target = {})
      /\ \A a \in target : a \in owned[u] /\ row[a].status = "ready" /\ a \in tx[u].locked
  BY DEF Inv, TypeOK, TxsFit, TxFits, AvatarCommit, NoTx, Tx
<1>1. /\ refs' = [refs EXCEPT ![u] = target]
      /\ tx' = [tx EXCEPT ![u] = NoTx]
      /\ UNCHANGED <<owned, files, job, outlived>>
  BY DEF AvatarCommit, Rebind
<1>2. ASSUME NEW a \in Ids
      PROVE  /\ row'[a] \in Row /\ row'[a].status = row[a].status
             /\ row'[a] = row[a] \/ row[a].status = "ready"
             /\ a \in target => row'[a].expires = "never"
             /\ \A v \in Users \ {u} : a \in refs[v] => row'[a] = row[a] \/ a \in target
  <2>1. row'[a] = CASE a \in target -> [row[a] EXCEPT !.expires = "never"]
                    [] a \in refs[u] \ target /\ ~(\E v \in Users \ {u} : a \in refs[v]) ->
                         [row[a] EXCEPT !.expires = "past"]
                    [] OTHER -> row[a]
    BY DEF AvatarCommit, Rebind
  <2>2. row[a] \in Row /\ (a \in refs[u] \cup target => row[a].status = "ready")
    BY <1>0 DEF Inv, RefsFit
  <2>3. CASE a \in target
    BY <2>1, <2>2, <2>3 DEF Row
  <2>4. CASE a \in refs[u] \ target /\ ~(\E v \in Users \ {u} : a \in refs[v])
    BY <2>1, <2>2, <2>4 DEF Row
  <2>5. CASE a \notin target /\ ~(a \in refs[u] \ target /\ ~(\E v \in Users \ {u} : a \in refs[v]))
    BY <2>1, <2>2, <2>5
  <2> QED
    BY <2>3, <2>4, <2>5
<1>3. TypeOK'
  <2>1. row' \in [Ids -> Row]
    BY <1>2 DEF AvatarCommit, Rebind
  <2>2. gone' \subseteq Users /\ avatar' \in [Users -> SUBSET Ids]
    BY <1>0 DEF AvatarCommit, Inv, TypeOK
  <2> QED
    BY <1>0, <1>1, <2>1, <2>2 DEF Inv, TypeOK
<1>4. JobsFit'
  <2> SUFFICES ASSUME NEW i \in Jobs PROVE JobFits(job[i])'
    BY DEF JobsFit
  <2> JobFits(job[i]) /\ job[i] \in Job
    BY Moves
  <2>1. \A a \in Ids : (Exists(a) => Exists(a)') /\ (InLease(a) <=> InLease(a)')
    BY <1>2 DEF Exists, InLease
  <2>2. job[i].pc \in {"mark", "claim"} => ~Referenced(job[i].id)'
    <3>1. job[i].pc \in {"mark", "claim"} => job[i].id \notin target
      BY <1>0 DEF Inv, TxExcludes, LockedOut, Exclusive
    <3> QED
      BY <1>0, <1>1, <3>1 DEF Referenced, JobFits
  <2>3. job' = job /\ files' = files /\ outlived' = outlived /\ job[i].todo \subseteq Ids
    BY <1>1 DEF Job
  <2> QED
    BY <1>2, <2>1, <2>2, <2>3 DEF JobFits, Uploading, Writing
<1>5. JobsApart' /\ TxExcludes'
  BY <1>0, <1>1 DEF Inv, JobsApart, Clash, TxExcludes, LockedOut
<1>6. TxsFit'
  <2> SUFFICES ASSUME NEW v \in Users PROVE TxFits(v)'
    BY DEF TxsFit
  <2>1. CASE v = u
    BY <1>0, <1>1, <2>1 DEF TxFits
  <2>2. CASE v # u
    <3>1. tx'[v] = tx[v] /\ owned' = owned /\ (v \in gone' => v \in gone)
      BY <1>0, <1>1, <2>2 DEF AvatarCommit
    <3>2. TxFits(v) /\ (tx[v] # NoTx => tx[v].target \subseteq Ids)
      BY <1>0 DEF Inv, TxsFit, Tx
    <3> QED
      BY <1>2, <3>1, <3>2 DEF TxFits
  <2> QED
    BY <2>1, <2>2
<1>7. RowsFit'
  BY <1>1, <1>2 DEF Inv, RowsFit
<1>8. RefsFit'
  <2> SUFFICES ASSUME NEW v \in Users, NEW a \in refs'[v]
               PROVE  a \in owned'[v] /\ row'[a] = [status |-> "ready", expires |-> "never"]
    BY DEF RefsFit
  <2>1. a \in Ids
    BY <1>0, <1>1
  <2>2. CASE a \in target /\ v = u
    BY <1>0, <1>1, <1>2, <2>1, <2>2 DEF Row
  <2>3. CASE v # u
    <3>1. a \in refs[v] /\ a \in owned[v] /\ row[a] = [status |-> "ready", expires |-> "never"]
      BY <1>0, <1>1, <2>3 DEF Inv, RefsFit
    <3> QED
      BY <1>1, <1>2, <2>1, <2>3, <3>1 DEF Row
  <2> QED
    BY <1>0, <1>1, <2>2, <2>3
<1>9. AvatarAgrees'
  <2>1. CASE tx[u].kind = "delete"
    BY <1>0, <1>1, <2>1 DEF AvatarCommit, Inv, TypeOK, AvatarAgrees
  <2>2. CASE tx[u].kind # "delete"
    BY <1>0, <1>1, <2>2 DEF AvatarCommit, Inv, TypeOK, AvatarAgrees
  <2> QED
    BY <2>1, <2>2
<1> QED
  BY <1>3, <1>4, <1>5, <1>6, <1>7, <1>8, <1>9 DEF Inv

-----------------------------------------------------------------------------
LEMMA StepInv == Inv /\ [Next]_vars => Inv'
<1> SUFFICES ASSUME Inv, [Next]_vars PROVE Inv'
  OBVIOUS
<1>1. ASSUME NEW r \in Requests, RequestStep(r) PROVE Inv'
  <2> r \in Jobs
    BY DEF Jobs
  <2>1. ASSUME NEW a \in Ids, NEW u \in Users, Pending(r, u, a) PROVE Inv'
    BY <2>1, PendingInv
  <2>2. ASSUME NEW a \in Ids, RemoveStart(r, a) \/ Download(r, a) \/ Read(r) PROVE Inv'
    BY <2>2, StartMoves
  <2>3. CASE Open(r) \/ Normalise(r) \/ Rename(r)
    BY <2>3, WriteInv
  <2>4. CASE Stream(r) \/ Inspect(r) \/ Digest(r) \/ Respond(r)
    BY <2>4, UploadMoves
  <2>5. CASE Complete(r)
    BY <2>5, CompleteInv
  <2>6. CASE UploadFails(r)
    BY <2>6, UploadFailsInv
  <2>7. 1 \in Ids
    BY AttachmentsAssumption DEF Ids
  <2> QED
    BY <1>1, <2>1, <2>2, <2>3, <2>4, <2>5, <2>6, <2>7 DEF RequestStep
<1>2. ASSUME NEW c \in Cleaners, CleanerStep(c) PROVE Inv'
  <2> c \in Jobs
    BY DEF Jobs
  <2>1. ASSUME NEW a \in Ids, Scan(c) \/ TakeLock(c, a) \/ SkipLocked(c, a) PROVE Inv'
    BY <2>1, StartMoves
  <2>2. CASE Recheck(c)
    BY <2>2, RemovalMoves
  <2>3. CASE Claim(c)
    BY <2>3, MarkInv
  <2>4. 1 \in Ids
    BY AttachmentsAssumption DEF Ids
  <2> QED
    BY <1>2, <2>1, <2>2, <2>3, <2>4 DEF CleanerStep
<1>3. ASSUME NEW j \in Jobs, Removal(j) PROVE Inv'
  BY <1>3, RemovalMoves, MarkInv, UnlinkInv, FinishInv DEF Removal
<1>4. ASSUME NEW u \in Users, AvatarStep(u) PROVE Inv'
  <2>1. ASSUME NEW target \in {{}} \cup {{a} : a \in Ids}, AvatarBegin(u, "set", target) PROVE Inv'
    BY <2>1, AvatarMoves
  <2>2. CASE AvatarBegin(u, "delete", {})
    BY <2>2, AvatarMoves
  <2>3. CASE AvatarLock(u) \/ AvatarCheck(u) \/ AvatarRollback(u)
    BY <2>3, AvatarMoves
  <2>4. CASE AvatarCommit(u)
    BY <2>4, CommitInv
  <2> QED
    BY <1>4, <2>1, <2>2, <2>3, <2>4 DEF AvatarStep
<1>5. ASSUME NEW a \in Ids, Expire(a) PROVE Inv'
  BY <1>5, ExpireInv
<1>6. CASE UNCHANGED vars
  BY <1>6 DEF vars, Inv, TypeOK, JobsFit, JobFits, Exists, InLease, Referenced, JobsApart, Clash,
     TxExcludes, LockedOut, TxsFit, TxFits, RowsFit, RefsFit, AvatarAgrees
<1> QED
  BY <1>1, <1>2, <1>3, <1>4, <1>5, <1>6 DEF Next

\* The invariant holds in every reachable state.
THEOREM Invariance == Spec => []Inv
<1>1. Init => Inv
  BY InitInv
<1>2. Inv /\ [Next]_vars => Inv'
  BY StepInv
<1> QED
  BY <1>1, <1>2, PTL DEF Spec

\* Every variable of Attachments stays in its type.
THEOREM TypeCorrect == Spec => []TypeOK
<1>1. Inv => TypeOK
  BY DEF Inv
<1> QED
  BY <1>1, Invariance, PTL

\* An attachment that a user shows keeps its row, its owner and its object, however
\* uploads, removals, cleanups and avatar changes overlap, fail or die.
THEOREM KeepsReferenced == Spec => []ReferencedReadable
<1>1. Inv => ReferencedReadable
  BY DEF Inv, TypeOK, RefsFit, RowsFit, ReferencedReadable
<1> QED
  BY <1>1, Invariance, PTL

\* The avatar column and the reference rows agree after every transaction.
THEOREM AvatarStaysTrue == Spec => []AvatarAgrees
<1>1. Inv => AvatarAgrees
  BY DEF Inv
<1> QED
  BY <1>1, Invariance, PTL

\* A row ends as deleted with nothing left on disk, unless its upload outlived the
\* lease.
THEOREM LeavesNoFile == Spec => []DeletedHasNoFile
<1>1. Inv => DeletedHasNoFile
  BY DEF Inv, RowsFit, DeletedHasNoFile
<1> QED
  BY <1>1, Invariance, PTL

\* The lock of the row keeps the object for a download that has passed the check.
THEOREM DownloadsFind == Spec => []DownloadFinds
<1>1. Inv => DownloadFinds
  BY DEF Inv, JobsFit, JobFits, RowsFit, DownloadFinds, At, Jobs
<1> QED
  BY <1>1, Invariance, PTL

-----------------------------------------------------------------------------
shelf == [a \in Ids |-> OnShelf(row[a].status)]
pinned == UNION {refs[u] : u \in Users}

\* The four ways in which a step can show in ShelfView.
Shows ==
    \/ refs' = refs /\ \A a \in Ids : OnShelf(row'[a].status) = OnShelf(row[a].status)
    \/ refs' = refs /\ \E a \in Ids : /\ row[a].status = "pending"
                                      /\ row' = [row EXCEPT ![a] = [status |-> "ready", expires |-> "later"]]
    \/ refs' = refs /\ \E a \in Ids : SetStatus(a, "deleting") /\ ~Referenced(a)
    \/ \A a \in Ids : row'[a].status = row[a].status

LEMMA StepShows == Inv /\ [Next]_vars => Shows
<1> SUFFICES ASSUME Inv, [Next]_vars PROVE Shows
  OBVIOUS
<1> row \in [Ids -> Row] /\ \A j \in Jobs : job[j] \in Job /\ JobFits(job[j])
  BY Moves DEF Inv, TypeOK
<1> USE DEF users
<1>1. ASSUME NEW r \in Requests, RequestStep(r) PROVE Shows
  <2> r \in Jobs
    BY DEF Jobs
  <2>1. ASSUME NEW u \in Users, NEW a \in Ids, Pending(r, u, a) PROVE Shows
    BY <2>1 DEF Pending, Exists, Shows, OnShelf
  <2>2. CASE Complete(r)
    BY <2>2 DEF Complete, At, JobFits, Shows
  <2>3. CASE row' = row
    BY <2>3 DEF Shows
  <2> QED
    BY <1>1, <2>1, <2>2, <2>3 DEF RequestStep, RemoveStart, Download, Open, Stream, Normalise, Rename,
       Inspect, Digest, Respond, UploadFails, Read
<1>2. ASSUME NEW j \in Jobs, Mark(j) \/ Claim(j) PROVE Shows
  BY <1>2 DEF Mark, Claim, At, JobFits, Shows
<1>3. ASSUME NEW j \in Jobs, Finish(j) PROVE Shows
  <2>1. CASE row' = row
    BY <2>1, <1>3 DEF Shows, Finish
  <2>2. CASE row[job[j].id].status = "deleting" /\ SetStatus(job[j].id, "deleted")
    BY <2>2, <1>3 DEF Finish, SetStatus, Shows, OnShelf, Row
  <2> QED
    BY <1>3, <2>1, <2>2 DEF Finish
<1>4. ASSUME NEW c \in Cleaners, CleanerStep(c) PROVE Shows
  <2>1. CASE row' = row /\ refs' = refs
    BY <2>1 DEF Shows
  <2> QED
    BY <1>2, <1>4, <2>1 DEF CleanerStep, Jobs, Scan, Recheck, TakeLock, SkipLocked
<1>5. ASSUME NEW j \in Jobs, Removal(j) PROVE Shows
  <2>1. CASE row' = row /\ refs' = refs
    BY <2>1 DEF Shows
  <2> QED
    BY <1>2, <1>3, <1>5, <2>1 DEF Removal, RemoveLock, Check, Unlink, UnlinkFails, RemoveFails, Dies
<1>6. ASSUME NEW u \in Users, AvatarStep(u) PROVE Shows
  <2>1. CASE row' = row
    BY <2>1 DEF Shows
  <2>2. ASSUME AvatarCommit(u), NEW a \in Ids PROVE row'[a].status = row[a].status
    BY <2>2 DEF AvatarCommit, Rebind, Row
  <2> QED
    BY <1>6, <2>1, <2>2 DEF AvatarStep, AvatarBegin, AvatarLock, AvatarCheck, AvatarRollback, Shows
<1>7. ASSUME NEW a \in Ids, Expire(a) PROVE Shows
  BY <1>7 DEF Expire, Shows, Row
<1>8. CASE UNCHANGED vars
  BY <1>8 DEF vars, Shows
<1> QED
  BY <1>1, <1>4, <1>5, <1>6, <1>7, <1>8 DEF Next

LEMMA StepRefines == Inv /\ Inv' /\ Shows => [Shelf!Next]_<<shelf, pinned>>
<1> SUFFICES ASSUME Inv, Inv', Shows PROVE [Shelf!Next]_<<shelf, pinned>>
  OBVIOUS
<1>0. /\ row \in [Ids -> Row] /\ row' \in [Ids -> Row] /\ refs' \in [Users -> SUBSET Ids]
      /\ RefsFit'
  BY DEF Inv, TypeOK
<1>1. CASE refs' = refs /\ \A a \in Ids : OnShelf(row'[a].status) = OnShelf(row[a].status)
  BY <1>1 DEF shelf, pinned
<1>2. ASSUME refs' = refs, NEW a \in Ids, row[a].status = "pending",
             row' = [row EXCEPT ![a] = [status |-> "ready", expires |-> "later"]]
      PROVE  Shelf!Publish(a)
  <2>1. shelf[a] = "absent" /\ shelf' = [shelf EXCEPT ![a] = "readable"]
    BY <1>0, <1>2 DEF shelf, OnShelf
  <2> QED
    BY <1>2, <2>1 DEF Shelf!Publish, shelf, pinned
<1>3. ASSUME refs' = refs, NEW a \in Ids, SetStatus(a, "deleting"), ~Referenced(a)
      PROVE  Shelf!Drop(a) \/ UNCHANGED <<shelf, pinned>>
  <2>1. a \notin pinned /\ pinned' = pinned
    BY <1>3 DEF pinned, Referenced
  <2>2. \A b \in Ids : row'[b].status = IF b = a THEN "deleting" ELSE row[b].status
    BY <1>0, <1>3 DEF SetStatus, Row
  <2>3. shelf' = [shelf EXCEPT ![a] = "gone"]
    BY <2>2 DEF shelf, OnShelf
  <2> HIDE DEF shelf, pinned
  <2>4. shelf[a] = "gone" => shelf' = shelf
    BY <2>3 DEF shelf
  <2> QED
    BY <2>1, <2>3, <2>4 DEF Shelf!Drop, shelf, pinned
<1>4. CASE \A a \in Ids : row'[a].status = row[a].status
  <2>1. shelf' = shelf
    BY <1>4 DEF shelf
  <2>2. pinned' \subseteq {a \in Ids : shelf[a] = "readable"}
    BY <1>0, <1>4 DEF shelf, pinned, RefsFit, OnShelf
  <2> QED
    BY <2>1, <2>2 DEF Shelf!Next, Shelf!Hold, shelf, pinned
<1> QED
  BY <1>1, <1>2, <1>3, <1>4 DEF Shows, Shelf!Next

\* Attachments keep the promise of ShelfView: a file becomes readable once, goes for
\* good, and does not go while it is an avatar.
THEOREM Implements == Spec => ImplementsShelf
<1>1. Init => Shelf!Init
  BY DEF Init, NoRow, OnShelf, Shelf!Init
<1>2. Inv /\ Inv' /\ [Next]_vars => [Shelf!Next]_<<shelf, pinned>>
  BY StepShows, StepRefines
<1> QED
  BY <1>1, <1>2, Invariance, PTL DEF Spec, ImplementsShelf, Shelf!Spec, shelf, pinned

=============================================================================
