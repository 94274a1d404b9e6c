----------------------------- MODULE Attachments -----------------------------
(***************************************************************************)
(* Attachments: a row in PostgreSQL, an object on disk and at most one     *)
(* reference, from the avatar of the owner. Uploads write the object       *)
(* between two states of the row; removals, by a request, by the abort of  *)
(* an upload or by the cleanup timer, mark the row, unlink and mark again. *)
(* All of them, downloads and avatar changes meet at the lock of the row.  *)
(***************************************************************************)
EXTENDS Naturals, FiniteSets

CONSTANTS
    Users,     \* sys_user rows
    Requests,  \* uploads, downloads and removals that may be in flight at once
    Cleaners,  \* processes of the application; each runs one cleanup at a time
    MaxId      \* bound on the attachments ever uploaded

ASSUME AttachmentsAssumption == MaxId \in Nat \ {0} /\ Requests \cap Cleaners = {}

VARIABLES
    row,       \* sys_attachment: status and whether expires_at is past
    owned,     \* sys_attachment.owner_id, as the attachments of each user
    files,     \* what is on disk for an object key
    refs,      \* the live sys_attachment_reference rows of a user's avatar
    avatar,    \* the attachment that sys_user.avatar is the URL of, or {}
    gone,      \* soft-deleted users
    tx,        \* the transaction that holds the lock of a user row
    job,       \* the requests and cleanups in flight
    outlived   \* attachments whose lease ran out under their upload (history)

vars == <<row, owned, files, refs, avatar, gone, tx, job, outlived>>
users == <<refs, avatar, gone, tx>>

Ids == 1..MaxId
Jobs == Requests \cup Cleaners

NoRow == [status |-> "none", expires |-> "never"]
Statuses == {"none", "pending", "ready", "deleting", "deleted"}
Row == [status: Statuses, expires: {"never", "later", "past"}]

\* The object, and the temporary file of an image being re-encoded.
Objects == {"object", "normalized"}

\* An upload, until complete has committed and after.
Writing == {"open", "stream", "inspect", "rename", "digest", "complete"}
Uploading == Writing \cup {"respond"}
Removing == {"lock", "check", "mark", "unlink", "finish"}
Job == [pc: {"idle", "read", "next", "recheck", "claim"} \cup Uploading \cup Removing,
        by: {"none", "upload", "request", "cleanup"}, id: 0..MaxId, todo: SUBSET Ids]
Flow(step, by, a) == [pc |-> step, by |-> by, id |-> a, todo |-> {}]
Sweep(todo) == [pc |-> "next", by |-> "none", id |-> 0, todo |-> todo]
Idle == Flow("idle", "none", 0)

NoTx == [pc |-> "none"]
Tx == [pc: {"lock", "commit"}, kind: {"set", "delete"}, target: SUBSET Ids,
       seen: [Ids -> Statuses], needed: SUBSET Ids, locked: SUBSET Ids]

Init ==
    /\ row = [a \in Ids |-> NoRow]
    /\ owned = [u \in Users |-> {}]
    /\ files = [a \in Ids |-> {}]
    /\ refs = [u \in Users |-> {}] /\ avatar = [u \in Users |-> {}] /\ gone = {}
    /\ tx = [u \in Users |-> NoTx]
    /\ job = [j \in Jobs |-> Idle]
    /\ outlived = {}

-----------------------------------------------------------------------------
At(j, step) == job[j].pc = step
Goto(j, step) == job' = [job EXCEPT ![j].pc = step]
End(j) == job' = [job EXCEPT ![j] = Idle]
Exists(a) == row[a].status # "none"
SetStatus(a, status) == row' = [row EXCEPT ![a].status = status]

\* The end of a removal: a cleanup goes on to its next candidate.
Leave(j) ==
    IF job[j].todo = {} THEN End(j)
    ELSE job' = [job EXCEPT ![j] = Sweep(job[j].todo)]

Referenced(a) == \E u \in Users : a \in refs[u]

\* FOR UPDATE is held by a removal, a claim or an avatar transaction, FOR SHARE
\* by downloads.
Exclusive == {"check", "mark", "recheck", "claim"}

Written(a) ==
    \/ \E j \in Jobs : job[j].pc \in Exclusive /\ job[j].id = a
    \/ \E u \in Users : tx[u] # NoTx /\ a \in tx[u].locked

\* Mutant of Unlocked: a download does not keep the row from being updated.
UnlockedByWriters(a) == ~Written(a)

Unlocked(a) == ~Written(a) /\ \A j \in Jobs : ~(At(j, "read") /\ job[j].id = a)

-----------------------------------------------------------------------------
(* UploadController.upload.                                                *)

\* AttachmentService.pending: a row with a lease of 15 minutes.
Pending(r, u, a) ==
    /\ At(r, "idle")
    /\ ~Exists(a) /\ \A b \in Ids : b < a => Exists(b)
    /\ row' = [row EXCEPT ![a] = [status |-> "pending", expires |-> "later"]]
    /\ owned' = [owned EXCEPT ![u] = @ \cup {a}]
    /\ job' = [job EXCEPT ![r] = Flow("open", "upload", a)]
    /\ UNCHANGED <<files, users, outlived>>

\* LocalUploadStorage.write: the object exists from its open on.
Open(r) ==
    /\ At(r, "open")
    /\ files' = [files EXCEPT ![job[r].id] = @ \cup {"object"}]
    /\ Goto(r, "stream")
    /\ UNCHANGED <<row, owned, users, outlived>>

Stream(r) ==
    /\ At(r, "stream")
    /\ Goto(r, "inspect")
    /\ UNCHANGED <<row, owned, files, users, outlived>>

\* UploadContentValidator.validate: an image is re-encoded beside the object
\* and renamed over it.
Normalise(r) ==
    /\ At(r, "inspect") /\ "object" \in files[job[r].id]
    /\ files' = [files EXCEPT ![job[r].id] = @ \cup {"normalized"}]
    /\ Goto(r, "rename")
    /\ UNCHANGED <<row, owned, users, outlived>>

Rename(r) ==
    /\ At(r, "rename") /\ "normalized" \in files[job[r].id]
    /\ files' = [files EXCEPT ![job[r].id] = {"object"}]
    /\ Goto(r, "digest")
    /\ UNCHANGED <<row, owned, users, outlived>>

Inspect(r) ==
    /\ At(r, "inspect") /\ "object" \in files[job[r].id]
    /\ Goto(r, "digest")
    /\ UNCHANGED <<row, owned, files, users, outlived>>

Digest(r) ==
    /\ At(r, "digest") /\ "object" \in files[job[r].id]
    /\ Goto(r, "complete")
    /\ UNCHANGED <<row, owned, files, users, outlived>>

\* Mutant of Complete: the row is updated whatever its status.
CompleteAnyRow(r) ==
    LET a == job[r].id IN
    /\ At(r, "complete") /\ Unlocked(a)
    /\ row' = [row EXCEPT ![a] = [status |-> "ready", expires |-> "later"]]
    /\ Goto(r, "respond")
    /\ UNCHANGED <<owned, files, users, outlived>>

\* AttachmentService.complete: UPDATE ... WHERE status = 'pending'.
Complete(r) ==
    LET a == job[r].id IN
    /\ At(r, "complete") /\ Unlocked(a)
    /\ IF row[a].status = "pending"
         THEN /\ row' = [row EXCEPT ![a] = [status |-> "ready", expires |-> "later"]]
              /\ Goto(r, "respond")
         ELSE Goto(r, "lock") /\ UNCHANGED row
    /\ UNCHANGED <<owned, files, users, outlived>>

Respond(r) ==
    /\ At(r, "respond")
    /\ End(r)
    /\ UNCHANGED <<row, owned, files, users, outlived>>

\* What a failing step tries to take back itself.
TakenBack(step) ==
    CASE step = "stream" -> {"object"} [] step = "rename" -> {"normalized"} [] OTHER -> {}

\* Any step fails, also after the commit of complete: abort removes what there is.
UploadFails(r) ==
    LET a == job[r].id IN
    /\ job[r].pc \in Uploading
    /\ \E left \in {files[a], files[a] \ TakenBack(job[r].pc)} :
         files' = [files EXCEPT ![a] = left]
    /\ Goto(r, "lock")
    /\ UNCHANGED <<row, owned, users, outlived>>

-----------------------------------------------------------------------------
(* AttachmentService.remove: by its owner or an administrator, by abort,   *)
(* or for the cleanup.                                                     *)

RemoveStart(r, a) ==
    /\ At(r, "idle") /\ Exists(a)
    /\ job' = [job EXCEPT ![r] = Flow("lock", "request", a)]
    /\ UNCHANGED <<row, owned, files, users, outlived>>

RemoveLock(j) ==
    /\ At(j, "lock") /\ Unlocked(job[j].id)
    /\ Goto(j, "check")
    /\ UNCHANGED <<row, owned, files, users, outlived>>

InLease(a) == row[a] = [status |-> "pending", expires |-> "later"]

\* Mutant of Check: references do not keep an attachment.
CheckLease(j) ==
    LET a == job[j].id IN
    /\ At(j, "check")
    /\ IF (InLease(a) /\ job[j].by # "upload") \/ row[a].status = "deleted"
         THEN Leave(j) ELSE Goto(j, "mark")
    /\ UNCHANGED <<row, owned, files, users, outlived>>

\* Under the lock. An upload in progress is only removed by its own abort.
Check(j) ==
    LET a == job[j].id IN
    /\ At(j, "check")
    /\ IF (InLease(a) /\ job[j].by # "upload") \/ Referenced(a) \/ row[a].status = "deleted"
         THEN Leave(j) ELSE Goto(j, "mark")
    /\ UNCHANGED <<row, owned, files, users, outlived>>

\* The transaction commits.
Mark(j) ==
    /\ At(j, "mark")
    /\ SetStatus(job[j].id, "deleting")
    /\ Goto(j, "unlink")
    /\ UNCHANGED <<owned, files, users, outlived>>

\* Mutant of Unlink: the temporary file is forgotten.
UnlinkObject(j) ==
    /\ At(j, "unlink")
    /\ files' = [files EXCEPT ![job[j].id] = @ \ {"object"}]
    /\ Goto(j, "finish")
    /\ UNCHANGED <<row, owned, users, outlived>>

\* LocalUploadStorage.remove
Unlink(j) ==
    /\ At(j, "unlink")
    /\ files' = [files EXCEPT ![job[j].id] = {}]
    /\ Goto(j, "finish")
    /\ UNCHANGED <<row, owned, users, outlived>>

\* Mutant of UnlinkFails: a status of its own, which the table does not allow.
UnlinkFailsForGood(j) ==
    LET a == job[j].id IN
    /\ At(j, "unlink")
    /\ SetStatus(a, "failed")
    /\ Leave(j)
    /\ UNCHANGED <<files, owned, users, outlived>>

\* The row keeps its status for the next cleanup.
UnlinkFails(j) ==
    LET a == job[j].id IN
    /\ At(j, "unlink")
    /\ \E left \in {files[a], files[a] \ {"object"}} : files' = [files EXCEPT ![a] = left]
    /\ Leave(j)
    /\ UNCHANGED <<row, owned, users, outlived>>

\* UPDATE ... WHERE status = 'deleting'
Finish(j) ==
    LET a == job[j].id IN
    /\ At(j, "finish") /\ Unlocked(a)
    /\ IF row[a].status = "deleting" THEN SetStatus(a, "deleted") ELSE UNCHANGED row
    /\ Leave(j)
    /\ UNCHANGED <<owned, files, users, outlived>>

\* An error: a transaction rolls back, a cleanup logs it and goes on.
RemoveFails(j) ==
    /\ job[j].pc \in Removing
    /\ Leave(j)
    /\ UNCHANGED <<row, owned, files, users, outlived>>

-----------------------------------------------------------------------------
(* AttachmentService.cleanup, started by a timer that waits for the last.  *)

\* Mutant of Candidates: a crashed upload is not looked for.
CandidatesUsed ==
    {a \in Ids : \/ row[a].status = "deleting"
                 \/ row[a].status = "ready" /\ row[a].expires = "past"}

Candidates ==
    {a \in Ids : \/ row[a].status = "deleting"
                 \/ row[a].status \in {"pending", "ready"} /\ row[a].expires = "past"}

Scan(c) ==
    /\ At(c, "idle") /\ Candidates # {}
    /\ job' = [job EXCEPT ![c] = Sweep(Candidates)]
    /\ UNCHANGED <<row, owned, files, users, outlived>>

TakeLock(c, a) ==
    /\ At(c, "next") /\ a \in job[c].todo
    /\ Unlocked(a)
    /\ job' = [job EXCEPT ![c] = [pc |-> "recheck", by |-> "cleanup", id |-> a,
                                  todo |-> job[c].todo \ {a}]]
    /\ UNCHANGED <<row, owned, files, users, outlived>>

\* SKIP LOCKED
SkipLocked(c, a) ==
    /\ At(c, "next") /\ a \in job[c].todo
    /\ ~Unlocked(a)
    /\ IF job[c].todo = {a} THEN End(c) ELSE job' = [job EXCEPT ![c].todo = @ \ {a}]
    /\ UNCHANGED <<row, owned, files, users, outlived>>

\* Status, expiry and references once more, under the lock.
Recheck(c) ==
    LET a == job[c].id IN
    /\ At(c, "recheck")
    /\ IF a \in Candidates /\ ~Referenced(a) THEN Goto(c, "claim") ELSE Leave(c)
    /\ UNCHANGED <<row, owned, files, users, outlived>>

\* The transaction commits; the removal follows.
Claim(c) ==
    /\ At(c, "claim")
    /\ SetStatus(job[c].id, "deleting")
    /\ Goto(c, "lock")
    /\ UNCHANGED <<owned, files, users, outlived>>

-----------------------------------------------------------------------------
(* AttachmentService.download.                                             *)

Readable(a) == row[a].status = "ready" /\ row[a].expires # "past"

\* FOR SHARE, then the state of the row; the rest of the transaction decides on
\* the access.
Download(r, a) ==
    /\ At(r, "idle") /\ ~Written(a) /\ Readable(a)
    /\ job' = [job EXCEPT ![r] = Flow("read", "request", a)]
    /\ UNCHANGED <<row, owned, files, users, outlived>>

\* The file is open before the lock is released.
Read(r) ==
    /\ At(r, "read")
    /\ End(r)
    /\ UNCHANGED <<row, owned, files, users, outlived>>

-----------------------------------------------------------------------------
(* setAvatar, and the user writes that release the avatar: SERIALIZABLE,   *)
(* under the lock of the user row.                                         *)

\* The first statement locks the user and fixes the snapshot. The target is an
\* attachment, or {} when the avatar is cleared or becomes an external URL:
\* buildSysUserWriteState refuses the URL of an attachment.
AvatarBegin(u, kind, target) ==
    LET needed == refs[u] \cup target IN
    /\ tx[u] = NoTx /\ u \notin gone
    /\ \A a \in target : Exists(a)
    /\ tx' = [tx EXCEPT ![u] =
                 [pc |-> "lock", kind |-> kind, target |-> target, needed |-> needed, locked |-> {},
                  seen |-> [a \in Ids |-> IF a \in needed THEN row[a].status ELSE "none"]]]
    /\ UNCHANGED <<row, owned, files, refs, avatar, gone, job, outlived>>

\* The rows are locked in the order of their ids; 40001 if one has changed since
\* the snapshot.
Left(u) == tx[u].needed \ tx[u].locked

AvatarLock(u) ==
    /\ tx[u].pc = "lock"
    /\ \E a \in Left(u) :
         /\ \A b \in Left(u) : a <= b
         /\ Unlocked(a)
         /\ tx' = [tx EXCEPT ![u] = IF row[a].status = tx[u].seen[a]
                                      THEN [tx[u] EXCEPT !.locked = tx[u].locked \cup {a}]
                                      ELSE NoTx]
    /\ UNCHANGED <<row, owned, files, refs, avatar, gone, job, outlived>>

\* The checks of AttachmentService.bind; unbind has none that could fail here.
Bindable(u, a) == a \in owned[u] /\ Readable(a)

AvatarCheck(u) ==
    /\ tx[u].pc = "lock" /\ Left(u) = {}
    /\ tx' = [tx EXCEPT ![u] = IF \A a \in tx[u].target : Bindable(u, a)
                                 THEN [tx[u] EXCEPT !.pc = "commit"] ELSE NoTx]
    /\ UNCHANGED <<row, owned, files, refs, avatar, gone, job, outlived>>

\* Mutant of Rebind: the old reference stays.
RebindOnly(u, target) ==
    /\ refs' = [refs EXCEPT ![u] = @ \cup target]
    /\ row' = [a \in Ids |-> IF a \in target THEN [row[a] EXCEPT !.expires = "never"] ELSE row[a]]

\* The target does not expire any more; what nothing refers to now has expired.
Rebind(u, target) ==
    /\ refs' = [refs EXCEPT ![u] = target]
    /\ row' = [a \in Ids |->
                 CASE a \in target -> [row[a] EXCEPT !.expires = "never"]
                   [] a \in refs[u] \ target /\ ~(\E v \in Users \ {u} : a \in refs[v]) ->
                        [row[a] EXCEPT !.expires = "past"]
                   [] OTHER -> row[a]]

\* SysUserService.remove leaves the avatar column as it is.
AvatarCommit(u) ==
    /\ tx[u].pc = "commit"
    /\ Rebind(u, tx[u].target)
    /\ IF tx[u].kind = "delete"
         THEN gone' = gone \cup {u} /\ UNCHANGED avatar
         ELSE avatar' = [avatar EXCEPT ![u] = tx[u].target] /\ UNCHANGED gone
    /\ tx' = [tx EXCEPT ![u] = NoTx]
    /\ UNCHANGED <<owned, files, job, outlived>>

\* A refusal, an error or the end of the process rolls back.
AvatarRollback(u) ==
    /\ tx[u] # NoTx
    /\ tx' = [tx EXCEPT ![u] = NoTx]
    /\ UNCHANGED <<row, owned, files, refs, avatar, gone, job, outlived>>

-----------------------------------------------------------------------------
\* The end of the process, or an error that nothing handles.
Dies(j) ==
    /\ ~At(j, "idle")
    /\ End(j)
    /\ UNCHANGED <<row, owned, files, users, outlived>>

\* expires_at passes.
Expire(a) ==
    /\ row[a].status \in {"pending", "ready"} /\ row[a].expires = "later"
    /\ row' = [row EXCEPT ![a].expires = "past"]
    /\ outlived' = IF \E j \in Jobs : job[j].pc \in Writing /\ job[j].id = a
                     THEN outlived \cup {a} ELSE outlived
    /\ UNCHANGED <<owned, files, users, job>>

Removal(j) ==
    \/ RemoveLock(j) \/ Check(j) \/ Mark(j) \/ Unlink(j) \/ UnlinkFails(j) \/ Finish(j)
    \/ RemoveFails(j) \/ Dies(j)

RequestStep(r) ==
    \/ \E a \in Ids : \/ \E u \in Users : Pending(r, u, a)
                      \/ RemoveStart(r, a) \/ Download(r, a)
    \/ Open(r) \/ Stream(r) \/ Normalise(r) \/ Rename(r) \/ Inspect(r) \/ Digest(r)
    \/ Complete(r) \/ Respond(r) \/ UploadFails(r)
    \/ Read(r)

CleanerStep(c) ==
    \/ Scan(c) \/ Recheck(c) \/ Claim(c)
    \/ \E a \in Ids : TakeLock(c, a) \/ SkipLocked(c, a)

AvatarStep(u) ==
    \/ \E target \in {{}} \cup {{a} : a \in Ids} : AvatarBegin(u, "set", target)
    \/ AvatarBegin(u, "delete", {})
    \/ AvatarLock(u) \/ AvatarCheck(u) \/ AvatarCommit(u) \/ AvatarRollback(u)

Next ==
    \/ \E r \in Requests : RequestStep(r)
    \/ \E c \in Cleaners : CleanerStep(c)
    \/ \E j \in Jobs : Removal(j)
    \/ \E u \in Users : AvatarStep(u)
    \/ \E a \in Ids : Expire(a)

Spec == Init /\ [][Next]_vars

\* A transaction ends.
Progress ==
    /\ \A r \in Requests : WF_vars(Check(r) \/ Mark(r) \/ RemoveFails(r)) /\ WF_vars(Read(r))
    /\ \A u \in Users : WF_vars(AvatarRollback(u) \/ AvatarCommit(u))

\* Time passes, from some time on a process stays up, and what its cleanup tries
\* again every minute is done in the end: the disk does not fail and the rows are
\* not locked every time.
Fairness ==
    /\ Progress
    /\ <>[][\A c \in Cleaners : ~Dies(c)]_vars
    /\ \A a \in Ids : WF_vars(Expire(a))
    /\ \A c \in Cleaners :
         /\ SF_vars(Scan(c) /\ \A a \in Candidates : Unlocked(a))
         /\ SF_vars(\E a \in Ids : TakeLock(c, a)) /\ WF_vars(Recheck(c) \/ Claim(c))
         /\ SF_vars(RemoveLock(c)) /\ SF_vars(Check(c)) /\ SF_vars(Mark(c))
         /\ SF_vars(Unlink(c)) /\ SF_vars(Finish(c))

FairSpec == Spec /\ Fairness

-----------------------------------------------------------------------------
(* Properties.                                                             *)

\* Every variable stays in its type.
TypeOK ==
    /\ row \in [Ids -> Row]
    /\ owned \in [Users -> SUBSET Ids] /\ files \in [Ids -> SUBSET Objects]
    /\ refs \in [Users -> SUBSET Ids] /\ avatar \in [Users -> SUBSET Ids]
    /\ gone \subseteq Users
    /\ tx \in [Users -> {NoTx} \cup Tx]
    /\ job \in [Jobs -> Job]
    /\ outlived \subseteq Ids

\* An attachment in use has its object, is its owner's, is readable and never
\* becomes a candidate of the cleanup, whatever removals and uploads overlap.
ReferencedReadable ==
    \A u \in Users : \A a \in refs[u] :
        /\ a \in owned[u] /\ "object" \in files[a]
        /\ row[a] = [status |-> "ready", expires |-> "never"]

\* The avatar a user shows is the attachment that is referenced for it; a removed
\* user holds none.
AvatarAgrees ==
    \A u \in Users : refs[u] = IF u \in gone THEN {} ELSE avatar[u]

\* A row that says deleted leaves nothing on disk, after crashes, failed steps and
\* several removals too, unless the upload went on past the lease.
DeletedHasNoFile ==
    \A a \in Ids : row[a].status = "deleted" /\ a \notin outlived => files[a] = {}

\* A download that has passed the check of the row finds the object.
DownloadFinds ==
    \A r \in Requests : At(r, "read") => "object" \in files[job[r].id]

\* An upload that never completes, a removal that failed and an unused attachment
\* past its retention are reclaimed in the end.
Reclaimed ==
    \A a \in Ids :
        \/ row[a].status \in {"pending", "deleting"}
        \/ row[a] = [status |-> "ready", expires |-> "past"]
        ~> row[a].status = "deleted" \/ Readable(a)

-----------------------------------------------------------------------------
(* ShelfView is what a business sees of this.                              *)

OnShelf(status) ==
    CASE status \in {"none", "pending"} -> "absent"
      [] status = "ready" -> "readable"
      [] OTHER -> "gone"

Shelf == INSTANCE ShelfView WITH shelf <- [a \in Ids |-> OnShelf(row[a].status)],
                                 pinned <- UNION {refs[u] : u \in Users}

\* Attachments implement that promise.
ImplementsShelf == Shelf!Spec

=============================================================================
