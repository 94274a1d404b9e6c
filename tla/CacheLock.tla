----------------------------- MODULE CacheLock -----------------------------
(***************************************************************************)
(* CacheService.getOrSet, as UserService.getCachedUserById uses it: the    *)
(* sys_user row of a uid is cached in Redis with a TTL, and the calls that *)
(* miss compete for a lock with a lease; the one that gets it loads the    *)
(* row, the others sleep, look again and give up after a few attempts.     *)
(* Writes of the row delete the entry after their commit. `value` is what  *)
(* a call returns, "none" standing for null and for an exception.          *)
(***************************************************************************)
EXTENDS Naturals

CONSTANTS
    Users,      \* sys_user ids
    Callers,    \* the calls made
    None,       \* a free lock
    MaxRetry,   \* attempts to get the lock (options.maxRetry)
    MaxWrites   \* bound on the writes of rows

ASSUME CacheLockAssumption == None \notin Callers /\ MaxRetry \in Nat \ {0} /\ MaxWrites \in Nat

VARIABLES
    row,       \* the status of each user, "none" when deleted
    entry,     \* the cached status, "none" when absent
    lock,      \* the call whose lock is in Redis
    call,      \* the calls
    writes,    \* rows written so far
    pending,   \* users written whose entry is still to be deleted
    lost,      \* users whose deletion was lost                       (history)
    overtaken  \* users whose entry was loaded before a later write   (history)

cacheVars == <<row, entry, lock, call, writes, pending, lost, overtaken>>

Live == {"enabled", "disabled"}
Statuses == Live \cup {"none"}

\* Between the SET NX that gave it the lock and the end of its finally block.
Section == {"double", "load", "store", "release"}
Steps == {"get", "lock", "retry"} \cup Section

\* `lapsed`: its lock expired while it held it. `raced`: a write came after its load.
Call == [pc: Steps \cup {"idle", "done"}, uid: Users, tries: 0..MaxRetry, value: Statuses,
         lapsed: BOOLEAN, raced: BOOLEAN]

CacheInit ==
    /\ row \in [Users -> Live]
    /\ entry = [u \in Users |-> "none"]
    /\ lock = [u \in Users |-> None]
    /\ call \in [Callers -> [pc: {"idle"}, uid: Users, tries: {0}, value: {"none"},
                             lapsed: {FALSE}, raced: {FALSE}]]
    /\ writes = 0 /\ pending = {} /\ lost = {} /\ overtaken = {}

At(c, step) == call[c].pc = step
In(c, steps) == call[c].pc \in steps
Goto(c, step) == call' = [call EXCEPT ![c].pc = step]
Return(c, value) == call' = [call EXCEPT ![c] = [@ EXCEPT !.pc = "done", !.value = value]]
Cached(c) == entry[call[c].uid]

\* The call begins with a read of the entry.
Begin(c) ==
    /\ At(c, "idle")
    /\ Goto(c, "get")
    /\ UNCHANGED <<row, entry, lock, writes, pending, lost, overtaken>>

Get(c) ==
    /\ At(c, "get")
    /\ IF Cached(c) # "none" THEN Return(c, Cached(c)) ELSE Goto(c, "lock")
    /\ UNCHANGED <<row, entry, lock, writes, pending, lost, overtaken>>

\* SET lockKey lockValue EX lockTtl NX.
TryLock(c) ==
    LET u == call[c].uid IN
    /\ At(c, "lock")
    /\ IF lock[u] = None
         THEN lock' = [lock EXCEPT ![u] = c] /\ Goto(c, "double")
         ELSE lock' = lock /\ Goto(c, "retry")
    /\ UNCHANGED <<row, entry, writes, pending, lost, overtaken>>

\* Redis sets the lock and the reply is lost: it is held by a call that has failed.
LockReplyLost(c) ==
    LET u == call[c].uid IN
    /\ At(c, "lock") /\ lock[u] = None
    /\ lock' = [lock EXCEPT ![u] = c]
    /\ Goto(c, "done")
    /\ UNCHANGED <<row, entry, writes, pending, lost, overtaken>>

\* Mutant of Retry: the attempts are not counted.
RetryForever(c) ==
    /\ At(c, "retry")
    /\ IF Cached(c) # "none" THEN Return(c, Cached(c)) ELSE Goto(c, "lock")
    /\ UNCHANGED <<row, entry, lock, writes, pending, lost, overtaken>>

\* After the sleep it looks again; after the last attempt it degrades to null.
Retry(c) ==
    LET n == call[c].tries + 1 IN
    /\ At(c, "retry")
    /\ IF Cached(c) # "none" THEN Return(c, Cached(c))
       ELSE call' = [call EXCEPT ![c] = [@ EXCEPT !.tries = n,
                                                !.pc = IF n < MaxRetry THEN "lock" ELSE "done"]]
    /\ UNCHANGED <<row, entry, lock, writes, pending, lost, overtaken>>

DoubleCheck(c) ==
    /\ At(c, "double")
    /\ call' = [call EXCEPT ![c] = [@ EXCEPT
                    !.pc = IF Cached(c) = "none" THEN "load" ELSE "release",
                    !.value = Cached(c)]]
    /\ UNCHANGED <<row, entry, lock, writes, pending, lost, overtaken>>

\* The loader; getUserById throws when there is no live row, so no null is cached.
LoadRow(c) ==
    LET v == row[call[c].uid] IN
    /\ At(c, "load")
    /\ call' = [call EXCEPT ![c] = [@ EXCEPT !.pc = IF v = "none" THEN "release" ELSE "store",
                                            !.value = v]]
    /\ UNCHANGED <<row, entry, lock, writes, pending, lost, overtaken>>

Store(c) ==
    LET u == call[c].uid IN
    /\ At(c, "store")
    /\ entry' = [entry EXCEPT ![u] = call[c].value]
    /\ lost' = lost \ {u}
    /\ overtaken' = IF call[c].raced THEN overtaken \cup {u} ELSE overtaken \ {u}
    /\ Goto(c, "release")
    /\ UNCHANGED <<row, lock, writes, pending>>

\* Mutant of Freed: DEL of the lock key, whoever holds it.
FreedByAnyone(u, c) == [lock EXCEPT ![u] = None]

\* The Lua script deletes the lock only if it still is the caller's own.
Freed(u, c) == IF lock[u] = c THEN [lock EXCEPT ![u] = None] ELSE lock

Release(c) ==
    /\ At(c, "release")
    /\ lock' = Freed(call[c].uid, c)
    /\ Goto(c, "done")
    /\ UNCHANGED <<row, entry, writes, pending, lost, overtaken>>

\* An error of Redis or PostgreSQL. The finally block still releases the lock, unless
\* that is what fails: it is only logged, and the lease has to run out.
Fails(c) ==
    /\ In(c, Steps)
    /\ IF In(c, Section \ {"release"})
         THEN call' = [call EXCEPT ![c] = [@ EXCEPT !.pc = "release", !.value = "none"]]
         ELSE Goto(c, "done")
    /\ UNCHANGED <<row, entry, lock, writes, pending, lost, overtaken>>

CallStep(c) ==
    \/ Get(c) \/ TryLock(c) \/ LockReplyLost(c) \/ Retry(c) \/ DoubleCheck(c)
    \/ LoadRow(c) \/ Store(c) \/ Release(c)
    \/ Fails(c)

-----------------------------------------------------------------------------
\* The lease ends, whether or not the holder has.
LockExpires(u) ==
    /\ lock[u] # None
    /\ lock' = [lock EXCEPT ![u] = None]
    /\ call' = [call EXCEPT ![lock[u]].lapsed = TRUE]
    /\ UNCHANGED <<row, entry, writes, pending, lost, overtaken>>

Forget(u) ==
    /\ entry' = [entry EXCEPT ![u] = "none"]
    /\ lost' = lost \ {u} /\ overtaken' = overtaken \ {u}

EntryExpires(u) ==
    /\ entry[u] # "none"
    /\ Forget(u)
    /\ UNCHANGED <<row, lock, call, writes, pending>>

\* Mutant of WriteRow: a write that does not delete the entry.
WriteRowOnly(u, v) ==
    /\ writes < MaxWrites /\ row[u] \in Live \ {v}
    /\ row' = [row EXCEPT ![u] = v]
    /\ writes' = writes + 1
    /\ UNCHANGED <<entry, lock, call, pending, lost, overtaken>>

\* A commit that changes the row.
WriteRow(u, v) ==
    /\ writes < MaxWrites /\ row[u] \in Live \ {v}
    /\ row' = [row EXCEPT ![u] = v]
    /\ writes' = writes + 1
    /\ pending' = pending \cup {u}
    /\ call' = [c \in Callers |-> IF At(c, "store") /\ call[c].uid = u
                                  THEN [call[c] EXCEPT !.raced = TRUE] ELSE call[c]]
    /\ UNCHANGED <<entry, lock, lost, overtaken>>

\* delCache of the entry, after the commit.
Invalidate(u) ==
    /\ u \in pending
    /\ pending' = pending \ {u}
    /\ Forget(u)
    /\ UNCHANGED <<row, lock, call, writes>>

InvalidationLost(u) ==
    /\ u \in pending
    /\ pending' = pending \ {u}
    /\ lost' = lost \cup {u}
    /\ UNCHANGED <<row, entry, lock, call, writes, overtaken>>

RedisStep == \E u \in Users :
    \/ LockExpires(u) \/ EntryExpires(u)
    \/ \E v \in Statuses : WriteRow(u, v)
    \/ Invalidate(u) \/ InvalidationLost(u)

-----------------------------------------------------------------------------
(* Properties.                                                             *)

\* A call between lock and release has the lock unless its lease ran out: the release
\* of a call that overstayed never takes the lock from the next one, and two calls
\* load at a time only after a lease was too short.
HolderKeepsLock ==
    \A c \in Callers : In(c, Section) /\ ~call[c].lapsed => lock[call[c].uid] = c

\* A cached row differs from the table only while the deletion is on its way, or after
\* it was lost, or when a load from before the write was stored after the deletion:
\* the lock orders loads, not loads and writes.
StaleNeedsOvertaking ==
    \A u \in Users \ (pending \cup lost \cup overtaken) :
        entry[u] # "none" => entry[u] = row[u]

=============================================================================
