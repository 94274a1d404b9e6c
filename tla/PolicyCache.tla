----------------------------- MODULE PolicyCache -----------------------------
(***************************************************************************)
(* The upload policy of one purpose: a row of sys_upload_policy, cached in *)
(* Redis under a random generation. UploadPolicyCacheService.load refills  *)
(* the cache, invalidate replaces the generation after a change has been   *)
(* committed. Any Redis call may fail, with or without its effect, and     *)
(* Redis may drop either key. Time is relative: a tick brings every        *)
(* deadline nearer.                                                        *)
(***************************************************************************)
EXTENDS Integers, FiniteSets

CONSTANTS
    Procs,        \* the processes of the application; each runs one load at a time
    Writers,      \* PUT requests that may be in flight at once
    Gens,         \* the generations that may ever be drawn
    NoGen,        \* no generation
    MaxRevision,  \* bound on sys_upload_policy.revision
    TTL,          \* UPLOAD_POLICY_CACHE_SECONDS, in ticks
    Attempts      \* of a load and of an invalidation: 3

ASSUME PolicyCacheAssumption ==
    /\ NoGen \notin Gens
    /\ MaxRevision \in Nat /\ TTL \in Nat \ {0} /\ Attempts \in Nat \ {0}

VARIABLES
    row,       \* the stored revision; 0 while the purpose has no policy
    gen,       \* upload:policy:{purpose}:generation
    entry,     \* upload:policy:{purpose}:value
    load,      \* the load of each process
    fallback,  \* ticks until nextFallbackAt, by process
    refill,    \* ticks until refillUnavailableUntil, by process
    put,       \* the PUTs between commit and the end of invalidate
    bound,     \* the revision stored when a generation was drawn, -1 before (history)
    floor      \* the newest revision whose invalidation is done           (history)

vars == <<row, gen, entry, load, fallback, refill, put, bound, floor>>

Backoff == 1  \* one second

Revisions == 0..MaxRevision
NoEntry == [gen |-> NoGen]
Entry == [gen: Gens, rev: Revisions, left: 1..TTL]
Steps == {"idle", "setGen", "getGen", "getValue", "query", "loaded", "fill", "fallback", "answer"}
Load == [pc: Steps, attempt: 1..Attempts, elapsed: 0..TTL,
         gen: Gens \cup {NoGen}, rev: Revisions, floor: Revisions]
Idle == [pc |-> "idle", attempt |-> 1, elapsed |-> 0, gen |-> NoGen, rev |-> 0, floor |-> 0]
NoPut == [pc |-> "idle"]
Put == [pc: {"invalidate"}, rev: Revisions, attempt: 1..Attempts]

Init ==
    /\ row = 0 /\ gen = NoGen /\ entry = NoEntry
    /\ load = [p \in Procs |-> Idle]
    /\ fallback = [p \in Procs |-> 0] /\ refill = [p \in Procs |-> 0]
    /\ put = [w \in Writers |-> NoPut]
    /\ bound = [g \in Gens |-> -1]
    /\ floor = 0

-----------------------------------------------------------------------------
At(p, step) == load[p].pc = step
Goto(p, step) == load' = [load EXCEPT ![p].pc = step]
End(p) == load' = [load EXCEPT ![p] = Idle]
Reply(p, rev) ==
    load' = [load EXCEPT ![p] = [Idle EXCEPT !.pc = "answer", !.rev = rev, !.floor = load[p].floor]]

Fresh == {g \in Gens : bound[g] = -1}
Draw(g) == gen' = g /\ bound' = [bound EXCEPT ![g] = row]

\* The next turn of the loop of load; after the last the get ends in a 503.
Retry(p) ==
    IF load[p].attempt < Attempts
      THEN load' = [load EXCEPT ![p] = [Idle EXCEPT !.pc = "setGen", !.floor = load[p].floor,
                                                    !.attempt = load[p].attempt + 1]]
      ELSE End(p)

-----------------------------------------------------------------------------
(* UploadPolicyCacheService.load. A get that finds a load pending in its   *)
(* process shares the answer.                                              *)

Get(p) ==
    /\ At(p, "idle") /\ refill[p] = 0
    /\ load' = [load EXCEPT ![p] = [Idle EXCEPT !.pc = "setGen", !.floor = floor]]
    /\ UNCHANGED <<row, gen, entry, fallback, refill, put, bound, floor>>

\* SET generation <uuid> NX
SetGen(p) ==
    /\ At(p, "setGen")
    /\ IF gen = NoGen THEN \E g \in Fresh : Draw(g) ELSE UNCHANGED <<gen, bound>>
    /\ Goto(p, "getGen")
    /\ UNCHANGED <<row, entry, fallback, refill, put, floor>>

GetGen(p) ==
    /\ At(p, "getGen")
    /\ IF gen = NoGen
         THEN Retry(p)
         ELSE load' = [load EXCEPT ![p] = [@ EXCEPT !.pc = "getValue", !.gen = gen]]
    /\ UNCHANGED <<row, gen, entry, fallback, refill, put, bound, floor>>

\* Mutant of GetValue: a hit prolongs the snapshot.
GetValueSliding(p) ==
    /\ At(p, "getValue")
    /\ IF entry.gen = load[p].gen
         THEN Reply(p, entry.rev) /\ entry' = [entry EXCEPT !.left = TTL]
         ELSE Goto(p, "query") /\ UNCHANGED entry
    /\ UNCHANGED <<row, gen, fallback, refill, put, bound, floor>>

\* A snapshot of the generation just read is a hit; anything else is a miss.
GetValue(p) ==
    /\ At(p, "getValue")
    /\ IF entry.gen = load[p].gen THEN Reply(p, entry.rev) ELSE Goto(p, "query")
    /\ UNCHANGED <<row, gen, entry, fallback, refill, put, bound, floor>>

\* One of these calls fails: the database is asked instead, but at most once
\* per process and second.
RedisFails(p) ==
    /\ load[p].pc \in {"setGen", "getGen", "getValue"}
    /\ IF fallback[p] > 0
         THEN End(p) /\ UNCHANGED fallback
         ELSE /\ fallback' = [fallback EXCEPT ![p] = Backoff]
              /\ Goto(p, "fallback")
    /\ UNCHANGED <<row, gen, entry, refill, put, bound, floor>>

Fallback(p) ==
    /\ At(p, "fallback")
    /\ Reply(p, row)
    /\ UNCHANGED <<row, gen, entry, fallback, refill, put, bound, floor>>

\* The database evaluates the query; the result is back later.
Query(p) ==
    /\ At(p, "query")
    /\ load' = [load EXCEPT ![p] = [@ EXCEPT !.pc = "loaded", !.rev = row]]
    /\ UNCHANGED <<row, gen, entry, fallback, refill, put, bound, floor>>

\* No database, or no valid row: 503.
QueryFails(p) ==
    /\ load[p].pc \in {"query", "fallback"}
    /\ End(p)
    /\ UNCHANGED <<row, gen, entry, fallback, refill, put, bound, floor>>

\* Mutant of SendFill: the time the query took is not looked at.
SendFillLate(p) ==
    /\ At(p, "loaded")
    /\ Goto(p, "fill")
    /\ UNCHANGED <<row, gen, entry, fallback, refill, put, bound, floor>>

\* Mutant of SendFill: the generation is read after the query.
SendFillReread(p) ==
    /\ At(p, "loaded")
    /\ IF load[p].elapsed < TTL /\ gen # NoGen
         THEN load' = [load EXCEPT ![p] = [@ EXCEPT !.pc = "fill", !.gen = gen]]
         ELSE End(p)
    /\ UNCHANGED <<row, gen, entry, fallback, refill, put, bound, floor>>

\* The snapshot may live for what is left of the TTL since this attempt began.
SendFill(p) ==
    /\ At(p, "loaded")
    /\ IF load[p].elapsed < TTL THEN Goto(p, "fill") ELSE End(p)
    /\ UNCHANGED <<row, gen, entry, fallback, refill, put, bound, floor>>

\* FILL_UPLOAD_POLICY
Store(p) == entry' = [gen |-> load[p].gen, rev |-> load[p].rev, left |-> TTL - load[p].elapsed]

Fill(p) ==
    /\ At(p, "fill")
    /\ IF gen = load[p].gen
         THEN Store(p) /\ Reply(p, load[p].rev)
         ELSE Retry(p) /\ UNCHANGED entry
    /\ UNCHANGED <<row, gen, fallback, refill, put, bound, floor>>

\* The call fails, or only its reply is lost: the snapshot is used all the same
\* and the process stops loading for a second.
FillFails(p) ==
    /\ At(p, "fill")
    /\ (gen = load[p].gen /\ Store(p)) \/ UNCHANGED entry
    /\ refill' = [refill EXCEPT ![p] = Backoff]
    /\ Reply(p, load[p].rev)
    /\ UNCHANGED <<row, gen, fallback, put, bound, floor>>

Return(p) ==
    /\ At(p, "answer")
    /\ End(p)
    /\ UNCHANGED <<row, gen, entry, fallback, refill, put, bound, floor>>

\* A process ends and starts again.
Restart(p) ==
    /\ load[p] # Idle \/ fallback[p] > 0 \/ refill[p] > 0
    /\ End(p)
    /\ fallback' = [fallback EXCEPT ![p] = 0] /\ refill' = [refill EXCEPT ![p] = 0]
    /\ UNCHANGED <<row, gen, entry, put, bound, floor>>

-----------------------------------------------------------------------------
(* UploadPolicyService.put and UploadPolicyCacheService.invalidate.        *)

\* The transaction commits; a PUT that changes nothing leaves the revision.
Commit(w) ==
    /\ put[w] = NoPut
    /\ row' = row + 1 \/ (row > 0 /\ row' = row)
    /\ row' <= MaxRevision
    /\ put' = [put EXCEPT ![w] = [pc |-> "invalidate", rev |-> row', attempt |-> 1]]
    /\ UNCHANGED <<gen, entry, load, fallback, refill, bound, floor>>

\* Mutant of Invalidated: the generation outlives the change.
InvalidatedByDelete(w) ==
    /\ entry' = NoEntry
    /\ floor' = IF put[w].rev > floor THEN put[w].rev ELSE floor
    /\ UNCHANGED <<gen, bound>>

\* INVALIDATE_UPLOAD_POLICY
Invalidated(w) ==
    /\ \E g \in Fresh : Draw(g)
    /\ entry' = NoEntry
    /\ floor' = IF put[w].rev > floor THEN put[w].rev ELSE floor

\* The next attempt; after the last the PUT ends in a 503.
AnotherAttempt(w) ==
    IF put[w].attempt < Attempts
      THEN put' = [put EXCEPT ![w].attempt = @ + 1]
      ELSE put' = [put EXCEPT ![w] = NoPut]

Invalidate(w) ==
    /\ put[w] # NoPut
    /\ Invalidated(w)
    /\ put' = [put EXCEPT ![w] = NoPut]
    /\ UNCHANGED <<row, load, fallback, refill>>

\* The call fails, or only its reply is lost.
InvalidateFails(w) ==
    /\ put[w] # NoPut
    /\ Invalidated(w) \/ UNCHANGED <<gen, bound, entry, floor>>
    /\ AnotherAttempt(w)
    /\ UNCHANGED <<row, load, fallback, refill>>

\* The process ends between the commit and the invalidation.
PutDies(w) ==
    /\ put[w] # NoPut
    /\ put' = [put EXCEPT ![w] = NoPut]
    /\ UNCHANGED <<row, gen, entry, load, fallback, refill, bound, floor>>

-----------------------------------------------------------------------------
(* Redis and time.                                                         *)

\* An eviction or a restart of Redis loses either key, or both.
Evict ==
    /\ gen' \in {gen, NoGen} /\ entry' \in {entry, NoEntry}
    /\ gen' # gen \/ entry' # entry
    /\ UNCHANGED <<row, load, fallback, refill, put, bound, floor>>

\* The elapsed time counts until the snapshot is sent.
Timed == {"setGen", "getGen", "getValue", "query", "loaded"}

Tick ==
    /\ entry' = CASE entry = NoEntry -> NoEntry
                  [] entry # NoEntry /\ entry.left > 1 -> [entry EXCEPT !.left = @ - 1]
                  [] OTHER -> NoEntry
    /\ load' = [p \in Procs |->
                  IF load[p].pc \in Timed /\ load[p].elapsed < TTL
                    THEN [load[p] EXCEPT !.elapsed = @ + 1] ELSE load[p]]
    /\ fallback' = [p \in Procs |-> IF fallback[p] > 0 THEN fallback[p] - 1 ELSE 0]
    /\ refill' = [p \in Procs |-> IF refill[p] > 0 THEN refill[p] - 1 ELSE 0]
    /\ UNCHANGED <<row, gen, put, bound, floor>>

\* What a load does, whatever the outcome of its calls.
LoadStep(p) ==
    \/ SetGen(p) \/ GetGen(p) \/ GetValue(p) \/ RedisFails(p) \/ Fallback(p)
    \/ Query(p) \/ QueryFails(p) \/ SendFill(p) \/ Fill(p) \/ FillFails(p)
    \/ Return(p)

Next ==
    \/ \E p \in Procs : Get(p) \/ LoadStep(p) \/ Restart(p)
    \/ \E w \in Writers : Commit(w) \/ Invalidate(w) \/ InvalidateFails(w) \/ PutDies(w)
    \/ Evict \/ Tick

Spec == Init /\ [][Next]_vars

\* A call to Redis or PostgreSQL ends, one way or the other; time passes.
Fairness == WF_vars(Tick) /\ (\A p \in Procs : WF_vars(LoadStep(p)))

FairSpec == Spec /\ Fairness

-----------------------------------------------------------------------------
(* Properties.                                                             *)

\* Every variable stays in its type.
TypeOK ==
    /\ row \in Revisions /\ floor \in Revisions
    /\ gen \in Gens \cup {NoGen}
    /\ entry \in {NoEntry} \cup Entry
    /\ load \in [Procs -> Load]
    /\ fallback \in [Procs -> 0..Backoff] /\ refill \in [Procs -> 0..Backoff]
    /\ put \in [Writers -> {NoPut} \cup Put]
    /\ bound \in [Gens -> -1..MaxRevision]

\* Once an invalidation is done, no load that begins later answers with a revision
\* of before it: not from a refill in flight, a lost reply, or a dropped key.
LoadFresh ==
    \A p \in Procs : At(p, "answer") => load[p].rev >= load[p].floor

\* A change whose invalidation failed, or was never attempted, is seen in the end:
\* the snapshot cached before it does not outlive its TTL for ever.
Converges == <>[](entry # NoEntry => entry.rev = row)

-----------------------------------------------------------------------------
(* PolicyView is what this cache is to its readers.                        *)

ReaderOf(l) ==
    IF l.pc = "idle" THEN [pc |-> "idle"]
    ELSE IF l.pc = "answer" THEN [pc |-> "answer", rev |-> l.rev]
    ELSE [pc |-> "asked", since |-> l.floor]

View == INSTANCE PolicyView WITH view <- [p \in Procs |-> ReaderOf(load[p])]

\* The cache implements that promise.
ImplementsView == View!Spec

=============================================================================
