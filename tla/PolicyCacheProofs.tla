-------------------------- MODULE PolicyCacheProofs --------------------------
(***************************************************************************)
(* Proofs about PolicyCache, for any number of processes and PUTs, any     *)
(* TTL, any number of attempts: its types, that no load answers with a     *)
(* revision of before an invalidation that was done when it began, and     *)
(* that the cache implements PolicyView.                                   *)
(*                                                                         *)
(* The argument is that of a fence: a generation is drawn when the row     *)
(* already holds bound[generation], so whatever is read under it is at     *)
(* least as new, and an invalidation draws its generation after its commit.*)
(***************************************************************************)
EXTENDS PolicyCache, TLAPS

\* The stored generation was drawn no earlier than the last invalidation.
GenerationFences == gen # NoGen => bound[gen] >= floor

\* A snapshot is no older than the generation it was read under.
EntryFenced ==
    entry # NoEntry => /\ entry.rev >= bound[entry.gen] /\ bound[entry.gen] >= 0
                       /\ entry.rev <= row

\* A load knows a generation no older than the floor it began at, and a revision
\* no older than that generation.
LoadFenced(l) ==
    /\ l.floor <= floor /\ l.rev <= row
    /\ l.pc \in {"getValue", "query", "loaded", "fill"} =>
         l.gen \in Gens /\ bound[l.gen] >= l.floor
    /\ l.pc \in {"loaded", "fill"} => l.rev >= bound[l.gen]
    /\ l.pc = "fill" => l.elapsed < TTL
    /\ l.pc = "answer" => l.rev >= l.floor

LoadsFenced == \A p \in Procs : LoadFenced(load[p])

\* Nothing is newer than the row.
RowIsNewest ==
    /\ floor <= row
    /\ \A g \in Gens : bound[g] <= row
    /\ \A w \in Writers : put[w] # NoPut => put[w].rev <= row

Inv ==
    /\ TypeOK /\ GenerationFences /\ EntryFenced /\ LoadsFenced /\ RowIsNewest

\* History only grows: no generation is drawn twice, no revision is taken back.
Grows ==
    /\ row' >= row /\ row' \in Revisions
    /\ floor' >= floor /\ floor' \in Revisions
    /\ bound' \in [Gens -> -1..MaxRevision]
    /\ \A g \in Gens : bound[g] # -1 => bound'[g] = bound[g]

-----------------------------------------------------------------------------
(* Lemmas.                                                                 *)

LEMMA StillGrows ==
    ASSUME TypeOK, UNCHANGED <<row, floor, bound>> PROVE Grows
BY PolicyCacheAssumption DEF TypeOK, Grows, Revisions

\* A step of one process disturbs no other load.
LEMMA OneLoad ==
    ASSUME TypeOK, LoadsFenced, Grows, NEW p \in Procs, NEW r \in Load,
           load' = [load EXCEPT ![p] = r], LoadFenced(r)'
    PROVE  load' \in [Procs -> Load] /\ LoadsFenced'
<1>1. load \in [Procs -> Load] BY DEF TypeOK
<1>2. load' \in [Procs -> Load] BY <1>1
<1>3. ASSUME NEW q \in Procs PROVE LoadFenced(load[q])'
  <2>1. CASE q = p
    <3>1. load'[q] = r BY <1>1, <2>1
    <3> QED BY <3>1 DEF LoadFenced
  <2>2. CASE q # p
    <3>1. load'[q] = load[q] BY <1>1, <2>2
    <3>2. load[q] \in Load /\ LoadFenced(load[q]) BY <1>1 DEF LoadsFenced
    <3> QED BY <3>1, <3>2, PolicyCacheAssumption
            DEF TypeOK, Grows, LoadFenced, Load, Steps, Revisions
  <2> QED BY <2>1, <2>2
<1> QED BY <1>2, <1>3 DEF LoadsFenced

\* A change of the history disturbs no load.
LEMMA NoLoad ==
    ASSUME TypeOK, LoadsFenced, Grows, UNCHANGED load
    PROVE  load' \in [Procs -> Load] /\ LoadsFenced'
<1>1. load \in [Procs -> Load] BY DEF TypeOK
<1>2. ASSUME NEW q \in Procs PROVE LoadFenced(load[q])'
  <2>1. load[q] \in Load /\ LoadFenced(load[q]) BY <1>1 DEF LoadsFenced
  <2> QED BY <1>1, <2>1, PolicyCacheAssumption
          DEF TypeOK, Grows, LoadFenced, Load, Steps, Revisions
<1> QED BY <1>1, <1>2 DEF LoadsFenced

\* The forms in which a step writes its load.
LEMMA RecordOf ==
    ASSUME TypeOK, NEW p \in Procs PROVE load[p] \in Load
BY DEF TypeOK

LEMMA IdleTyped == Idle \in Load
BY PolicyCacheAssumption DEF Idle, Load, Steps, Revisions

LEMMA EndFenced ==
    ASSUME TypeOK, LoadsFenced, Grows, NEW p \in Procs, End(p)
    PROVE  load' \in [Procs -> Load] /\ LoadsFenced'
<1>1. LoadFenced(Idle)' BY DEF LoadFenced, Idle, Grows, Revisions, TypeOK
<1> QED BY <1>1, IdleTyped, OneLoad DEF End

LEMMA ReplyFenced ==
    ASSUME TypeOK, LoadsFenced, Grows, NEW p \in Procs,
           NEW rev \in Revisions, Reply(p, rev), rev <= row, rev >= load[p].floor
    PROVE  load' \in [Procs -> Load] /\ LoadsFenced'
<1>1. load[p] \in Load /\ LoadFenced(load[p]) BY RecordOf DEF LoadsFenced
<1>2. PICK r \in Load : r = [Idle EXCEPT !.pc = "answer", !.rev = rev, !.floor = load[p].floor]
  <2>1. [Idle EXCEPT !.pc = "answer", !.rev = rev, !.floor = load[p].floor] \in Load
    BY <1>1, IdleTyped DEF Load, Steps
  <2> QED BY <2>1
<1>3. LoadFenced(r)' BY <1>1, <1>2 DEF LoadFenced, Idle, Grows, Revisions, TypeOK, Load
<1>4. load' = [load EXCEPT ![p] = r] BY <1>2 DEF Reply
<1> QED BY <1>2, <1>3, <1>4, OneLoad

LEMMA RetryFenced ==
    ASSUME TypeOK, LoadsFenced, Grows, NEW p \in Procs, Retry(p)
    PROVE  load' \in [Procs -> Load] /\ LoadsFenced'
<1>1. load[p] \in Load /\ LoadFenced(load[p]) BY RecordOf DEF LoadsFenced
<1>2. CASE load[p].attempt < Attempts
  <2>1. PICK r \in Load : r = [Idle EXCEPT !.pc = "setGen", !.floor = load[p].floor,
                                           !.attempt = load[p].attempt + 1]
    <3>1. load[p].attempt + 1 \in 1..Attempts /\ load[p].floor \in Revisions
      BY <1>1, <1>2, PolicyCacheAssumption DEF Load
    <3>2. [Idle EXCEPT !.pc = "setGen", !.floor = load[p].floor,
                       !.attempt = load[p].attempt + 1] \in Load
      BY <3>1, IdleTyped DEF Load, Steps
    <3> QED BY <3>2
  <2>2. LoadFenced(r)' BY <1>1, <2>1 DEF LoadFenced, Idle, Grows, Revisions, TypeOK, Load
  <2>3. load' = [load EXCEPT ![p] = r] BY <1>2, <2>1 DEF Retry
  <2> QED BY <2>1, <2>2, <2>3, OneLoad
<1>3. CASE ~(load[p].attempt < Attempts)
  BY <1>3, EndFenced DEF Retry
<1> QED BY <1>2, <1>3

\* A step to a place that asks nothing new of the load.
LEMMA GotoFenced ==
    ASSUME TypeOK, LoadsFenced, Grows, NEW p \in Procs, NEW step \in Steps, Goto(p, step),
           step \notin {"getValue", "query", "loaded", "fill", "answer"}
    PROVE  load' \in [Procs -> Load] /\ LoadsFenced'
<1>1. load[p] \in Load /\ LoadFenced(load[p]) BY RecordOf DEF LoadsFenced
<1>2. PICK r \in Load : r = [load[p] EXCEPT !.pc = step] BY <1>1 DEF Load
<1>3. LoadFenced(r)' BY <1>1, <1>2 DEF LoadFenced, Grows, Revisions, TypeOK, Load
<1>4. load' = [load EXCEPT ![p] = r] BY <1>2 DEF Goto
<1> QED BY <1>2, <1>3, <1>4, OneLoad

-----------------------------------------------------------------------------
(* The generation and the snapshot.                                        *)

\* A drawn generation fences at the row, and takes nothing from the others.
LEMMA DrawGrows ==
    ASSUME TypeOK, RowIsNewest, NEW g \in Fresh, Draw(g), row' = row,
           floor' >= floor, floor' \in Revisions
    PROVE  /\ Grows /\ bound'[g] = row /\ gen' = g /\ g \in Gens
           /\ \A h \in Gens : bound'[h] <= row
<1>1. g \in Gens /\ bound[g] = -1 BY DEF Fresh
<1>2. bound' = [bound EXCEPT ![g] = row] /\ gen' = g BY DEF Draw
<1> QED BY <1>1, <1>2, PolicyCacheAssumption DEF TypeOK, Grows, Revisions, RowIsNewest

\* A snapshot stays fenced while the history grows.
LEMMA EntryKept ==
    ASSUME TypeOK, EntryFenced, Grows, UNCHANGED entry
    PROVE  EntryFenced'
<1> SUFFICES ASSUME entry # NoEntry
             PROVE  /\ entry.rev >= bound'[entry.gen] /\ bound'[entry.gen] >= 0
                    /\ entry.rev <= row'
  BY DEF EntryFenced
<1>1. entry \in Entry BY DEF TypeOK
<1>2. entry.gen \in Gens /\ entry.rev \in Revisions BY <1>1 DEF Entry
<1>3. bound[entry.gen] >= 0 /\ bound[entry.gen] \in Int /\ entry.rev >= bound[entry.gen] /\ entry.rev <= row
  BY <1>2 DEF EntryFenced, TypeOK
<1>4. bound'[entry.gen] = bound[entry.gen] BY <1>2, <1>3 DEF Grows
<1> QED BY <1>2, <1>3, <1>4, PolicyCacheAssumption DEF Grows, TypeOK, Revisions

\* What a fill stores is typed and fenced.
LEMMA StoreFenced ==
    ASSUME TypeOK, LoadsFenced, NEW p \in Procs, At(p, "fill"), Store(p),
           UNCHANGED <<row, bound>>
    PROVE  entry' \in Entry /\ EntryFenced'
<1>1. load[p] \in Load /\ LoadFenced(load[p]) /\ load[p].pc = "fill"
  BY RecordOf DEF LoadsFenced, At
<1>2. PICK e : e = [gen |-> load[p].gen, rev |-> load[p].rev, left |-> TTL - load[p].elapsed]
  OBVIOUS
<1>3. e \in Entry
  BY <1>1, <1>2, PolicyCacheAssumption DEF LoadFenced, Load, Entry
<1>4. e.rev >= bound[e.gen] /\ bound[e.gen] >= 0 /\ e.rev <= row
  BY <1>1, <1>2, PolicyCacheAssumption DEF LoadFenced, Load, TypeOK, Revisions
<1>5. entry' = e BY <1>2 DEF Store
<1> QED BY <1>3, <1>4, <1>5 DEF EntryFenced

-----------------------------------------------------------------------------
(* The invariant is inductive.                                             *)

\* A step that leaves the stores and the history alone answers for its load only.
LEMMA OnlyLoad ==
    ASSUME Inv, UNCHANGED <<row, gen, entry, put, bound, floor>>,
           load' \in [Procs -> Load], LoadsFenced',
           fallback' \in [Procs -> 0..Backoff], refill' \in [Procs -> 0..Backoff]
    PROVE  Inv'
<1>1. TypeOK' BY DEF Inv, TypeOK
<1>2. GenerationFences' /\ RowIsNewest' BY DEF Inv, GenerationFences, RowIsNewest
<1>3. EntryFenced' BY EntryKept, StillGrows DEF Inv
<1> QED BY <1>1, <1>2, <1>3 DEF Inv

LEMMA InitInv == Init => Inv
<1> SUFFICES ASSUME Init PROVE Inv OBVIOUS
<1>1. Idle \in Load BY IdleTyped
<1>2. TypeOK
  BY <1>1, PolicyCacheAssumption DEF Init, TypeOK, Revisions, Backoff
<1>3. LoadsFenced BY DEF Init, LoadsFenced, LoadFenced, Idle
<1>4. GenerationFences /\ EntryFenced /\ RowIsNewest
  BY PolicyCacheAssumption DEF Init, GenerationFences, EntryFenced, RowIsNewest, NoPut
<1> QED BY <1>2, <1>3, <1>4 DEF Inv

\* The steps of a load that touch neither store nor history.
LEMMA LoadSteps ==
    ASSUME Inv, NEW p \in Procs,
           Get(p) \/ GetGen(p) \/ GetValue(p) \/ RedisFails(p) \/ Fallback(p) \/ Query(p)
             \/ QueryFails(p) \/ SendFill(p) \/ Return(p) \/ Restart(p)
    PROVE  Inv'
<1> USE DEF Inv
<1>0. load[p] \in Load /\ LoadFenced(load[p]) BY RecordOf DEF LoadsFenced
<1>1. CASE Get(p)
  <2>1. PICK r \in Load : r = [Idle EXCEPT !.pc = "setGen", !.floor = floor]
    <3>1. [Idle EXCEPT !.pc = "setGen", !.floor = floor] \in Load
      BY IdleTyped DEF Load, Steps, TypeOK
    <3> QED BY <3>1
  <2>2. Grows BY <1>1, StillGrows DEF Get
  <2>3. LoadFenced(r)' BY <1>1, <2>1 DEF Get, LoadFenced, Idle, TypeOK, Revisions
  <2>4. load' = [load EXCEPT ![p] = r] BY <1>1, <2>1 DEF Get
  <2>5. load' \in [Procs -> Load] /\ LoadsFenced' BY <2>2, <2>3, <2>4, OneLoad
  <2> QED BY <1>1, <2>5, OnlyLoad DEF Get, TypeOK
<1>2. CASE GetGen(p)
  <2>1. Grows BY <1>2, StillGrows DEF GetGen
  <2>2. CASE gen = NoGen
    BY <1>2, <2>1, <2>2, RetryFenced, OnlyLoad DEF GetGen, TypeOK
  <2>3. CASE gen # NoGen
    <3>1. PICK r \in Load : r = [load[p] EXCEPT !.pc = "getValue", !.gen = gen]
      <4>1. [load[p] EXCEPT !.pc = "getValue", !.gen = gen] \in Load
        BY <1>0 DEF Load, Steps, TypeOK
      <4> QED BY <4>1
    <3>2. bound[gen] >= load[p].floor /\ gen \in Gens
      BY <1>0, <2>3, PolicyCacheAssumption DEF GenerationFences, LoadFenced, Load, TypeOK, Revisions
    <3>3. LoadFenced(r)'
      BY <1>0, <1>2, <3>1, <3>2 DEF GetGen, LoadFenced, Load
    <3>4. load' = [load EXCEPT ![p] = r] BY <1>2, <2>3, <3>1 DEF GetGen
    <3>5. load' \in [Procs -> Load] /\ LoadsFenced' BY <2>1, <3>3, <3>4, OneLoad
    <3> QED BY <1>2, <3>5, OnlyLoad DEF GetGen, TypeOK
  <2> QED BY <2>2, <2>3
<1>3. CASE GetValue(p)
  <2>1. Grows BY <1>3, StillGrows DEF GetValue
  <2>2. load[p].gen \in Gens /\ bound[load[p].gen] >= load[p].floor
    BY <1>0, <1>3 DEF GetValue, At, LoadFenced
  <2>3. CASE entry.gen = load[p].gen
    <3>1. entry # NoEntry BY <2>2, <2>3, PolicyCacheAssumption DEF NoEntry
    <3>2. entry \in Entry BY <3>1 DEF TypeOK
    <3>3. entry.rev \in Revisions /\ entry.rev <= row /\ entry.rev >= load[p].floor
      BY <1>0, <2>2, <2>3, <3>1, <3>2, PolicyCacheAssumption
         DEF EntryFenced, Entry, TypeOK, Load, Revisions
    <3>4. load' \in [Procs -> Load] /\ LoadsFenced'
      BY <1>3, <2>1, <2>3, <3>3, ReplyFenced DEF GetValue
    <3> QED BY <1>3, <3>4, OnlyLoad DEF GetValue, TypeOK
  <2>4. CASE entry.gen # load[p].gen
    <3>1. PICK r \in Load : r = [load[p] EXCEPT !.pc = "query"]
      <4>1. [load[p] EXCEPT !.pc = "query"] \in Load BY <1>0 DEF Load, Steps
      <4> QED BY <4>1
    <3>2. LoadFenced(r)' BY <1>0, <1>3, <2>2, <3>1 DEF GetValue, LoadFenced, Load
    <3>3. load' = [load EXCEPT ![p] = r] BY <1>3, <2>4, <3>1 DEF GetValue, Goto
    <3>4. load' \in [Procs -> Load] /\ LoadsFenced' BY <2>1, <3>2, <3>3, OneLoad
    <3> QED BY <1>3, <3>4, OnlyLoad DEF GetValue, TypeOK
  <2> QED BY <2>3, <2>4
<1>4. CASE RedisFails(p)
  <2>1. Grows BY <1>4, StillGrows DEF RedisFails
  <2>2. load' \in [Procs -> Load] /\ LoadsFenced'
    BY <1>4, <2>1, EndFenced, GotoFenced DEF RedisFails, Steps
  <2>3. fallback' \in [Procs -> 0..Backoff] BY <1>4 DEF RedisFails, TypeOK, Backoff
  <2> QED BY <1>4, <2>2, <2>3, OnlyLoad DEF RedisFails, TypeOK
<1>5. CASE Fallback(p)
  <2>1. Grows BY <1>5, StillGrows DEF Fallback
  <2>2. row \in Revisions /\ row <= row /\ row >= load[p].floor
    BY <1>0, PolicyCacheAssumption DEF TypeOK, RowIsNewest, LoadFenced, Load, Revisions
  <2>3. load' \in [Procs -> Load] /\ LoadsFenced' BY <1>5, <2>1, <2>2, ReplyFenced DEF Fallback
  <2> QED BY <1>5, <2>3, OnlyLoad DEF Fallback, TypeOK
<1>6. CASE Query(p)
  <2>1. PICK r \in Load : r = [load[p] EXCEPT !.pc = "loaded", !.rev = row]
    <3>1. [load[p] EXCEPT !.pc = "loaded", !.rev = row] \in Load BY <1>0 DEF Load, Steps, TypeOK
    <3> QED BY <3>1
  <2>2. Grows BY <1>6, StillGrows DEF Query
  <2>3. LoadFenced(r)'
    BY <1>0, <1>6, <2>1, PolicyCacheAssumption
       DEF Query, At, LoadFenced, Load, RowIsNewest, TypeOK, Revisions
  <2>4. load' = [load EXCEPT ![p] = r] BY <1>6, <2>1 DEF Query
  <2>5. load' \in [Procs -> Load] /\ LoadsFenced' BY <2>2, <2>3, <2>4, OneLoad
  <2> QED BY <1>6, <2>5, OnlyLoad DEF Query, TypeOK
<1>7. CASE QueryFails(p)
  BY <1>7, StillGrows, EndFenced, OnlyLoad DEF QueryFails, TypeOK
<1>8. CASE SendFill(p)
  <2>1. Grows BY <1>8, StillGrows DEF SendFill
  <2>2. CASE load[p].elapsed < TTL
    <3>1. PICK r \in Load : r = [load[p] EXCEPT !.pc = "fill"]
      <4>1. [load[p] EXCEPT !.pc = "fill"] \in Load BY <1>0 DEF Load, Steps
      <4> QED BY <4>1
    <3>2. LoadFenced(r)' BY <1>0, <1>8, <2>2, <3>1 DEF SendFill, At, LoadFenced, Load
    <3>3. load' = [load EXCEPT ![p] = r] BY <1>8, <2>2, <3>1 DEF SendFill, Goto
    <3>4. load' \in [Procs -> Load] /\ LoadsFenced' BY <2>1, <3>2, <3>3, OneLoad
    <3> QED BY <1>8, <3>4, OnlyLoad DEF SendFill, TypeOK
  <2>3. CASE ~(load[p].elapsed < TTL)
    BY <1>8, <2>1, <2>3, EndFenced, OnlyLoad DEF SendFill, TypeOK
  <2> QED BY <2>2, <2>3
<1>9. CASE Return(p)
  BY <1>9, StillGrows, EndFenced, OnlyLoad DEF Return, TypeOK
<1>10. CASE Restart(p)
  <2>1. Grows /\ load' \in [Procs -> Load] /\ LoadsFenced'
    BY <1>10, StillGrows, EndFenced DEF Restart
  <2>2. fallback' \in [Procs -> 0..Backoff] /\ refill' \in [Procs -> 0..Backoff]
    BY <1>10 DEF Restart, TypeOK, Backoff
  <2> QED BY <1>10, <2>1, <2>2, OnlyLoad DEF Restart
<1> QED BY <1>1, <1>2, <1>3, <1>4, <1>5, <1>6, <1>7, <1>8, <1>9, <1>10

\* The steps of a load that draw a generation or store a snapshot.
LEMMA StoreSteps ==
    ASSUME Inv, NEW p \in Procs, SetGen(p) \/ Fill(p) \/ FillFails(p)
    PROVE  Inv'
<1> USE DEF Inv
<1>0. load[p] \in Load /\ LoadFenced(load[p]) BY RecordOf DEF LoadsFenced
<1>1. CASE SetGen(p)
  <2>1. CASE gen # NoGen
    <3>1. UNCHANGED <<gen, bound>> BY <1>1, <2>1 DEF SetGen
    <3>2. Grows BY <1>1, <3>1, StillGrows DEF SetGen
    <3>3. load' \in [Procs -> Load] /\ LoadsFenced'
      BY <1>1, <3>2, GotoFenced DEF SetGen, Steps
    <3> QED BY <1>1, <3>1, <3>3, OnlyLoad DEF SetGen, TypeOK
  <2>2. CASE gen = NoGen
    <3>1. PICK g \in Fresh : Draw(g) BY <1>1, <2>2 DEF SetGen
    <3>2. floor' >= floor /\ floor' \in Revisions /\ row' = row
      BY <1>1, PolicyCacheAssumption DEF SetGen, TypeOK, Revisions
    <3>3. /\ Grows /\ bound'[g] = row /\ gen' = g /\ g \in Gens
          /\ \A h \in Gens : bound'[h] <= row
      BY <3>1, <3>2, DrawGrows
    <3>4. load' \in [Procs -> Load] /\ LoadsFenced'
      BY <1>1, <3>3, GotoFenced DEF SetGen, Steps
    <3>5. TypeOK' BY <1>1, <3>3, <3>4 DEF SetGen, TypeOK, Grows
    <3>6. GenerationFences' /\ RowIsNewest'
      BY <1>1, <3>3 DEF SetGen, GenerationFences, RowIsNewest
    <3>7. EntryFenced' BY <1>1, <3>3, EntryKept DEF SetGen
    <3> QED BY <3>4, <3>5, <3>6, <3>7
  <2> QED BY <2>1, <2>2
<1>2. ASSUME Store(p), At(p, "fill"), load' \in [Procs -> Load], LoadsFenced',
             UNCHANGED <<row, gen, fallback, put, bound, floor>>, refill' \in [Procs -> 0..Backoff]
      PROVE  Inv'
  <2>1. entry' \in Entry /\ EntryFenced' BY <1>2, StoreFenced
  <2>2. TypeOK' BY <1>2, <2>1 DEF TypeOK
  <2>3. GenerationFences' /\ RowIsNewest' BY <1>2 DEF GenerationFences, RowIsNewest
  <2> QED BY <1>2, <2>1, <2>2, <2>3
<1>3. ASSUME At(p, "fill"), Reply(p, load[p].rev), UNCHANGED <<row, floor, bound>>
      PROVE  load' \in [Procs -> Load] /\ LoadsFenced'
  <2>1. load[p].rev \in Revisions /\ load[p].rev <= row /\ load[p].rev >= load[p].floor
    BY <1>0, <1>3, PolicyCacheAssumption DEF At, LoadFenced, Load, TypeOK, Revisions
  <2> QED BY <1>3, <2>1, StillGrows, ReplyFenced
<1>4. CASE Fill(p)
  <2>1. CASE gen = load[p].gen
    BY <1>2, <1>3, <1>4, <2>1 DEF Fill, TypeOK
  <2>2. CASE gen # load[p].gen
    BY <1>4, <2>2, StillGrows, RetryFenced, OnlyLoad DEF Fill, TypeOK
  <2> QED BY <2>1, <2>2
<1>5. CASE FillFails(p)
  <2>1. load' \in [Procs -> Load] /\ LoadsFenced' BY <1>3, <1>5 DEF FillFails
  <2>2. refill' \in [Procs -> 0..Backoff] BY <1>5 DEF FillFails, TypeOK, Backoff
  <2>3. CASE gen = load[p].gen /\ Store(p)
    BY <1>2, <1>5, <2>1, <2>2, <2>3 DEF FillFails
  <2>4. CASE UNCHANGED entry
    BY <1>5, <2>1, <2>2, <2>4, OnlyLoad DEF FillFails, TypeOK
  <2> QED BY <1>5, <2>3, <2>4 DEF FillFails
<1> QED BY <1>1, <1>4, <1>5

\* What an executed invalidation does to the cache.
LEMMA InvalidatedFenced ==
    ASSUME Inv, NEW w \in Writers, put[w] # NoPut, Invalidated(w), UNCHANGED <<row, load>>
    PROVE  /\ Grows /\ floor' <= row /\ gen' \in Gens /\ bound'[gen'] = row
           /\ \A h \in Gens : bound'[h] <= row
           /\ entry' = NoEntry
           /\ load' \in [Procs -> Load] /\ LoadsFenced'
<1> USE DEF Inv
<1>1. put[w].rev <= row /\ put[w].rev \in Revisions BY DEF RowIsNewest, TypeOK, Put
<1>2. floor' >= floor /\ floor' \in Revisions /\ floor' <= row
  BY <1>1, PolicyCacheAssumption DEF Invalidated, RowIsNewest, TypeOK, Revisions
<1>3. PICK g \in Fresh : Draw(g) BY DEF Invalidated
<1>4. /\ Grows /\ bound'[g] = row /\ gen' = g /\ g \in Gens
      /\ \A h \in Gens : bound'[h] <= row
  BY <1>2, <1>3, DrawGrows
<1>5. load' \in [Procs -> Load] /\ LoadsFenced' BY <1>4, NoLoad
<1> QED BY <1>2, <1>4, <1>5 DEF Invalidated

\* The steps of a PUT.
LEMMA PutSteps ==
    ASSUME Inv, NEW w \in Writers,
           Commit(w) \/ Invalidate(w) \/ InvalidateFails(w) \/ PutDies(w)
    PROVE  Inv'
<1> USE DEF Inv
<1>1. CASE Commit(w)
  <2>1. row' >= row /\ row' \in Revisions
    BY <1>1, PolicyCacheAssumption DEF Commit, TypeOK, Revisions
  <2>2. Grows BY <1>1, <2>1, PolicyCacheAssumption DEF Commit, TypeOK, Grows, Revisions
  <2>3. load' \in [Procs -> Load] /\ LoadsFenced' BY <1>1, <2>2, NoLoad DEF Commit
  <2>4. PICK r : r = row' OBVIOUS
  <2>5. [pc |-> "invalidate", rev |-> r, attempt |-> 1] \in Put
    BY <2>1, <2>4, PolicyCacheAssumption DEF Put
  <2>6. put' = [put EXCEPT ![w] = [pc |-> "invalidate", rev |-> r, attempt |-> 1]]
    BY <1>1, <2>4 DEF Commit
  <2>7. TypeOK' BY <1>1, <2>1, <2>3, <2>5, <2>6 DEF Commit, TypeOK
  <2>8. ASSUME NEW v \in Writers, put'[v] # NoPut PROVE put'[v].rev <= row'
    <3>1. CASE v = w BY <2>1, <2>4, <2>6, <3>1, PolicyCacheAssumption DEF TypeOK, Revisions
    <3>2. CASE v # w
      <4>1. put'[v] = put[v] BY <2>6, <3>2 DEF TypeOK
      <4>2. put[v].rev <= row /\ put[v].rev \in Revisions BY <2>8, <4>1 DEF RowIsNewest, TypeOK, Put
      <4> QED BY <2>1, <4>1, <4>2, PolicyCacheAssumption DEF TypeOK, Revisions
    <3> QED BY <3>1, <3>2
  <2>9. RowIsNewest'
    BY <1>1, <2>1, <2>8, PolicyCacheAssumption DEF Commit, RowIsNewest, TypeOK, Revisions
  <2>10. GenerationFences' BY <1>1 DEF Commit, GenerationFences
  <2>11. EntryFenced' BY <1>1, <2>2, EntryKept DEF Commit
  <2> QED BY <2>3, <2>7, <2>9, <2>10, <2>11
\* A PUT that ends, or tries again, with its revision.
<1>2. ASSUME put' \in [Writers -> {NoPut} \cup Put],
             \A v \in Writers : put'[v] # NoPut => put[v] # NoPut /\ put'[v].rev = put[v].rev,
             UNCHANGED <<row, load, fallback, refill>>, put[w] # NoPut,
             Invalidated(w) \/ UNCHANGED <<gen, bound, entry, floor>>
      PROVE  Inv'
  <2>1. \A v \in Writers : put'[v] # NoPut => put'[v].rev <= row BY <1>2 DEF RowIsNewest
  <2>2. CASE Invalidated(w)
    <3>1. /\ Grows /\ floor' <= row /\ gen' \in Gens /\ bound'[gen'] = row
          /\ \A h \in Gens : bound'[h] <= row
          /\ entry' = NoEntry
          /\ load' \in [Procs -> Load] /\ LoadsFenced'
      BY <1>2, <2>2, InvalidatedFenced
    <3>2. TypeOK' BY <1>2, <3>1 DEF TypeOK, Grows
    <3>3. GenerationFences' /\ EntryFenced' BY <3>1 DEF GenerationFences, EntryFenced, NoEntry
    <3>4. RowIsNewest' BY <1>2, <2>1, <3>1 DEF RowIsNewest
    <3> QED BY <3>1, <3>2, <3>3, <3>4
  <2>3. CASE UNCHANGED <<gen, bound, entry, floor>>
    <3>1. Grows BY <1>2, <2>3, StillGrows
    <3>2. LoadsFenced' BY <1>2, <3>1, NoLoad
    <3>3. TypeOK' BY <1>2, <2>3 DEF TypeOK
    <3>4. GenerationFences' BY <2>3 DEF GenerationFences
    <3>5. EntryFenced' BY <2>3, <3>1, EntryKept
    <3>6. RowIsNewest' BY <1>2, <2>1, <2>3 DEF RowIsNewest
    <3> QED BY <3>2, <3>3, <3>4, <3>5, <3>6
  <2> QED BY <1>2, <2>2, <2>3
\* A PUT that is over.
<1>3. ASSUME put' = [put EXCEPT ![w] = NoPut]
      PROVE  /\ put' \in [Writers -> {NoPut} \cup Put]
             /\ \A v \in Writers : put'[v] # NoPut => put[v] # NoPut /\ put'[v].rev = put[v].rev
  BY <1>3 DEF TypeOK
<1>4. CASE Invalidate(w) BY <1>2, <1>3, <1>4 DEF Invalidate
<1>5. CASE InvalidateFails(w)
  <2>1. CASE put[w].attempt < Attempts
    <3>1. put[w] \in Put BY <1>5 DEF InvalidateFails, TypeOK
    <3>2. put[w].attempt + 1 \in 1..Attempts BY <2>1, <3>1, PolicyCacheAssumption DEF Put
    <3>3. PICK r : r = [put[w] EXCEPT !.attempt = put[w].attempt + 1] OBVIOUS
    <3>4. r \in Put /\ r.rev = put[w].rev BY <3>1, <3>2, <3>3 DEF Put
    <3>5. put' = [put EXCEPT ![w] = r] BY <1>5, <2>1, <3>3 DEF InvalidateFails, AnotherAttempt
    <3>6. put' \in [Writers -> {NoPut} \cup Put] BY <3>4, <3>5 DEF TypeOK
    <3>7. \A v \in Writers : put'[v] # NoPut => put[v] # NoPut /\ put'[v].rev = put[v].rev
      BY <1>5, <3>4, <3>5 DEF TypeOK, InvalidateFails
    <3> QED BY <1>2, <1>5, <3>6, <3>7 DEF InvalidateFails
  <2>2. CASE ~(put[w].attempt < Attempts)
    <3>1. put' = [put EXCEPT ![w] = NoPut] BY <1>5, <2>2 DEF InvalidateFails, AnotherAttempt
    <3> QED BY <1>2, <1>3, <1>5, <3>1 DEF InvalidateFails
  <2> QED BY <2>1, <2>2
<1>6. CASE PutDies(w) BY <1>2, <1>3, <1>6 DEF PutDies
<1> QED BY <1>1, <1>4, <1>5, <1>6

LEMMA EvictStep == ASSUME Inv, Evict PROVE Inv'
<1> USE DEF Inv
<1>1. Grows BY StillGrows DEF Evict
<1>2. load' \in [Procs -> Load] /\ LoadsFenced' BY <1>1, NoLoad DEF Evict
<1>3. TypeOK' BY <1>2 DEF Evict, TypeOK
<1>4. GenerationFences' /\ RowIsNewest' BY DEF Evict, GenerationFences, RowIsNewest
<1>5. EntryFenced' BY DEF Evict, EntryFenced
<1> QED BY <1>2, <1>3, <1>4, <1>5

LEMMA TickStep == ASSUME Inv, Tick PROVE Inv'
<1> USE DEF Inv
<1>1. Grows BY StillGrows DEF Tick
<1>2. ASSUME NEW p \in Procs
      PROVE  /\ load'[p] \in Load /\ LoadFenced(load'[p])
  <2>1. load[p] \in Load /\ LoadFenced(load[p]) BY RecordOf DEF LoadsFenced
  <2>2. CASE load[p].pc \in Timed /\ load[p].elapsed < TTL
    <3>1. PICK r : r = [load[p] EXCEPT !.elapsed = load[p].elapsed + 1] OBVIOUS
    <3>2. load[p].elapsed + 1 \in 0..TTL BY <2>1, <2>2, PolicyCacheAssumption DEF Load
    <3>3. r \in Load /\ r.pc = load[p].pc /\ r.pc # "fill" /\ r.floor = load[p].floor
          /\ r.rev = load[p].rev /\ r.gen = load[p].gen
      BY <2>1, <2>2, <3>1, <3>2 DEF Load, Timed
    <3>4. load'[p] = r BY <2>2, <3>1 DEF Tick
    <3> QED BY <2>1, <3>3, <3>4 DEF LoadFenced
  <2>3. CASE ~(load[p].pc \in Timed /\ load[p].elapsed < TTL)
    BY <2>1, <2>3 DEF Tick
  <2> QED BY <2>2, <2>3
<1>3. load' \in [Procs -> Load] BY <1>2 DEF Tick
<1>4. LoadsFenced' BY <1>2 DEF LoadsFenced, LoadFenced, Tick
<1>5. fallback' \in [Procs -> 0..Backoff] /\ refill' \in [Procs -> 0..Backoff]
  BY DEF Tick, TypeOK, Backoff
<1>6. entry' \in {NoEntry} \cup Entry /\ EntryFenced'
  <2>1. CASE entry # NoEntry /\ entry.left > 1
    <3>1. entry \in Entry BY <2>1 DEF TypeOK
    <3>2. PICK e : e = [entry EXCEPT !.left = entry.left - 1] OBVIOUS
    <3>3. entry.left - 1 \in 1..TTL BY <2>1, <3>1, PolicyCacheAssumption DEF Entry
    <3>4. e \in Entry /\ e.rev = entry.rev /\ e.gen = entry.gen BY <3>1, <3>2, <3>3 DEF Entry
    <3>5. entry' = e BY <2>1, <3>2 DEF Tick
    <3> QED BY <2>1, <3>4, <3>5 DEF Tick, EntryFenced
  <2>2. CASE ~(entry # NoEntry /\ entry.left > 1)
    BY <2>2 DEF Tick, EntryFenced
  <2> QED BY <2>1, <2>2
<1>7. TypeOK' BY <1>3, <1>5, <1>6 DEF Tick, TypeOK
<1>8. GenerationFences' /\ RowIsNewest' BY DEF Tick, GenerationFences, RowIsNewest
<1> QED BY <1>4, <1>6, <1>7, <1>8

LEMMA StepInv == ASSUME Inv, [Next]_vars PROVE Inv'
<1>1. CASE UNCHANGED vars
  BY <1>1 DEF Inv, vars, TypeOK, GenerationFences, EntryFenced, LoadsFenced, LoadFenced, RowIsNewest
<1>2. CASE Next
  BY <1>2, LoadSteps, StoreSteps, PutSteps, EvictStep, TickStep DEF Next, LoadStep
<1> QED BY <1>1, <1>2

\* The invariant holds of every reachable state.
THEOREM Invariance == Spec => []Inv
BY InitInv, StepInv, PTL DEF Spec

-----------------------------------------------------------------------------
(* What follows.                                                           *)

\* The types of PolicyCache hold for ever: a deadline is never negative, a stored
\* snapshot always has time left, an attempt is one of the allowed ones.
THEOREM TypeCorrect == Spec => []TypeOK
<1>1. Inv => TypeOK BY DEF Inv
<1> QED BY <1>1, Invariance, PTL

\* UploadPolicyCacheService.load never answers with a revision of before an
\* invalidation that was done when the load began.
THEOREM AnswersFresh == Spec => []LoadFresh
<1>1. Inv => LoadFresh BY DEF Inv, LoadsFenced, LoadFenced, LoadFresh, At
<1> QED BY <1>1, Invariance, PTL

-----------------------------------------------------------------------------
(* The cache implements PolicyView. Of a load its reader sees whether it is *)
(* asked, since when, and the answer.                                       *)

Readers == [p \in Procs |-> ReaderOf(load[p])]

\* A step of one load is a step of one reader.
LEMMA OneReader ==
    ASSUME TypeOK, NEW p \in Procs, NEW r, load' = [load EXCEPT ![p] = r]
    PROVE  Readers' = [Readers EXCEPT ![p] = ReaderOf(r)]
<1>1. load \in [Procs -> Load] BY DEF TypeOK
<1>2. \A q \in Procs : load'[q] = IF q = p THEN r ELSE load[q] BY <1>1
<1> QED BY <1>2 DEF Readers, ReaderOf

LEMMA ReaderIdle == ReaderOf(Idle) = View!Idle
BY DEF ReaderOf, Idle, View!Idle

\* A load that ends is a reader that leaves.
LEMMA EndLeaves ==
    ASSUME TypeOK, NEW p \in Procs, load[p].pc # "idle", End(p), UNCHANGED <<row, floor>>
    PROVE  View!Leave(p)
<1>1. Readers' = [Readers EXCEPT ![p] = View!Idle] BY OneReader, ReaderIdle DEF End
<1>2. Readers[p] # View!Idle BY DEF Readers, ReaderOf, View!Idle
<1> QED BY <1>1, <1>2 DEF View!Leave, Readers

\* A load that answers is a reader that gets a revision it may get.
LEMMA ReplyReplies ==
    ASSUME Inv, NEW p \in Procs, load[p].pc \notin {"idle", "answer"},
           NEW rev \in Revisions, Reply(p, rev), rev <= row, rev >= load[p].floor,
           UNCHANGED <<row, floor>>
    PROVE  View!Reply(p)
<1>1. PICK r : r = [Idle EXCEPT !.pc = "answer", !.rev = rev, !.floor = load[p].floor] OBVIOUS
<1>2. ReaderOf(r) = View!Answer(rev) BY <1>1 DEF ReaderOf, Idle, View!Answer
<1>3. Readers' = [Readers EXCEPT ![p] = View!Answer(rev)]
  BY <1>1, <1>2, OneReader DEF Reply, Inv
<1>4. Readers[p] = [pc |-> "asked", since |-> load[p].floor] BY DEF Readers, ReaderOf
<1>5. rev \in load[p].floor..row
  BY RecordOf, PolicyCacheAssumption DEF Inv, TypeOK, Load, Revisions
<1>6. Readers[p].pc = "asked" /\ Readers[p].since = load[p].floor BY <1>4
<1>7. \E rv \in Readers[p].since..row : Readers' = [Readers EXCEPT ![p] = View!Answer(rv)]
  BY <1>3, <1>5, <1>6
<1> QED BY <1>6, <1>7 DEF View!Reply, Readers

\* A step inside a load is nothing to its reader.
LEMMA StepStutters ==
    ASSUME TypeOK, NEW p \in Procs, NEW r, load' = [load EXCEPT ![p] = r],
           load[p].pc \notin {"idle", "answer"}, r.pc \notin {"idle", "answer"},
           r.floor = load[p].floor
    PROVE  Readers' = Readers
<1>1. ReaderOf(r) = ReaderOf(load[p]) BY DEF ReaderOf
<1> QED BY <1>1, OneReader DEF Readers

LEMMA GotoStutters ==
    ASSUME TypeOK, NEW p \in Procs, NEW step \in Steps \ {"idle", "answer"}, Goto(p, step),
           load[p].pc \notin {"idle", "answer"}
    PROVE  Readers' = Readers
<1>1. load[p] \in Load BY RecordOf
<1>2. PICK r : r = [load[p] EXCEPT !.pc = step] OBVIOUS
<1>3. r.pc = step /\ r.floor = load[p].floor BY <1>1, <1>2 DEF Load
<1>4. load' = [load EXCEPT ![p] = r] BY <1>2 DEF Goto
<1> QED BY <1>3, <1>4, StepStutters

LEMMA RetryStutters ==
    ASSUME TypeOK, NEW p \in Procs, Retry(p), load[p].pc \notin {"idle", "answer"},
           UNCHANGED <<row, floor>>
    PROVE  Readers' = Readers \/ View!Leave(p)
<1>1. CASE load[p].attempt < Attempts
  <2>1. PICK r : r = [Idle EXCEPT !.pc = "setGen", !.floor = load[p].floor,
                                  !.attempt = load[p].attempt + 1] OBVIOUS
  <2>2. r.pc = "setGen" /\ r.floor = load[p].floor BY <2>1 DEF Idle
  <2> QED BY <1>1, <2>1, <2>2, StepStutters DEF Retry
<1>2. CASE ~(load[p].attempt < Attempts) BY <1>2, EndLeaves DEF Retry
<1> QED BY <1>1, <1>2

LEMMA InitImplements == Init => View!Init
BY DEF Init, View!Init, View!Idle, ReaderOf, Idle

\* Every step of the cache is a step of the view, or none.
LEMMA StepImplements ==
    ASSUME Inv, [Next]_vars
    PROVE  [View!Next]_<<row, floor, Readers>>
<1> USE DEF Inv
<1> SUFFICES View!Next \/ UNCHANGED <<row, floor, Readers>> OBVIOUS
<1>1. CASE UNCHANGED vars BY <1>1 DEF vars, Readers, ReaderOf
<1>2. ASSUME NEW p \in Procs, Get(p) PROVE View!Ask(p)
  <2>1. PICK r : r = [Idle EXCEPT !.pc = "setGen", !.floor = floor] OBVIOUS
  <2>2. ReaderOf(r) = View!Asked(floor) BY <2>1 DEF ReaderOf, Idle, View!Asked
  <2>3. Readers' = [Readers EXCEPT ![p] = View!Asked(floor)]
    BY <1>2, <2>1, <2>2, OneReader DEF Get
  <2>4. Readers[p] = View!Idle BY <1>2 DEF Get, At, Readers, ReaderOf, View!Idle
  <2> QED BY <1>2, <2>3, <2>4 DEF Get, View!Ask, Readers
<1>3. ASSUME NEW p \in Procs, LoadStep(p)
      PROVE  Readers' = Readers \/ View!Reply(p) \/ View!Leave(p)
  <2>0. load[p] \in Load /\ LoadFenced(load[p]) BY RecordOf DEF LoadsFenced
  <2>1. CASE SetGen(p) BY <2>1, GotoStutters DEF SetGen, At, Steps
  <2>2. CASE GetGen(p)
    <3>1. CASE gen = NoGen BY <2>2, <3>1, RetryStutters DEF GetGen, At
    <3>2. CASE gen # NoGen
      <4>1. PICK r : r = [load[p] EXCEPT !.pc = "getValue", !.gen = gen] OBVIOUS
      <4>2. r.pc = "getValue" /\ r.floor = load[p].floor BY <2>0, <4>1 DEF Load
      <4>3. load' = [load EXCEPT ![p] = r] BY <2>2, <3>2, <4>1 DEF GetGen
      <4> QED BY <2>2, <4>2, <4>3, StepStutters DEF GetGen, At
    <3> QED BY <3>1, <3>2
  <2>3. CASE GetValue(p)
    <3>1. CASE entry.gen = load[p].gen
      <4>1. load[p].gen \in Gens /\ bound[load[p].gen] >= load[p].floor
        BY <2>0, <2>3 DEF GetValue, At, LoadFenced
      <4>2. entry # NoEntry BY <3>1, <4>1, PolicyCacheAssumption DEF NoEntry
      <4>3. entry \in Entry BY <4>2 DEF TypeOK
      <4>4. entry.rev \in Revisions /\ entry.rev <= row /\ entry.rev >= load[p].floor
        BY <2>0, <3>1, <4>1, <4>2, <4>3, PolicyCacheAssumption
           DEF EntryFenced, Entry, TypeOK, Load, Revisions
      <4> QED BY <2>3, <3>1, <4>4, ReplyReplies DEF GetValue, At
    <3>2. CASE entry.gen # load[p].gen
      BY <2>3, <3>2, GotoStutters DEF GetValue, At, Steps
    <3> QED BY <3>1, <3>2
  <2>4. CASE RedisFails(p)
    BY <2>4, GotoStutters, EndLeaves DEF RedisFails, Steps
  <2>5. CASE Fallback(p)
    <3>1. row \in Revisions /\ row <= row /\ row >= load[p].floor
      BY <2>0, PolicyCacheAssumption DEF TypeOK, RowIsNewest, LoadFenced, Load, Revisions
    <3> QED BY <2>5, <3>1, ReplyReplies DEF Fallback, At
  <2>6. CASE Query(p)
    <3>1. PICK r : r = [load[p] EXCEPT !.pc = "loaded", !.rev = row] OBVIOUS
    <3>2. r.pc = "loaded" /\ r.floor = load[p].floor BY <2>0, <3>1 DEF Load
    <3>3. load' = [load EXCEPT ![p] = r] BY <2>6, <3>1 DEF Query
    <3> QED BY <2>6, <3>2, <3>3, StepStutters DEF Query, At
  <2>7. CASE QueryFails(p) BY <2>7, EndLeaves DEF QueryFails
  <2>8. CASE SendFill(p)
    BY <2>8, GotoStutters, EndLeaves DEF SendFill, At, Steps
  <2>9. CASE Fill(p) \/ FillFails(p)
    <3>1. load[p].rev \in Revisions /\ load[p].rev <= row /\ load[p].rev >= load[p].floor
      BY <2>0, <2>9, PolicyCacheAssumption
         DEF Fill, FillFails, At, LoadFenced, Load, TypeOK, Revisions
    <3>2. CASE Reply(p, load[p].rev)
      BY <2>9, <3>1, <3>2, ReplyReplies DEF Fill, FillFails, At
    <3>3. CASE Retry(p) BY <2>9, <3>3, RetryStutters DEF Fill, FillFails, At
    <3> QED BY <2>9, <3>2, <3>3 DEF Fill, FillFails
  <2>10. CASE Return(p) BY <2>10, EndLeaves DEF Return, At
  <2> QED BY <1>3, <2>1, <2>2, <2>3, <2>4, <2>5, <2>6, <2>7, <2>8, <2>9, <2>10 DEF LoadStep
<1>4. ASSUME NEW p \in Procs, LoadStep(p) PROVE UNCHANGED <<row, floor>>
  BY <1>4 DEF LoadStep, SetGen, GetGen, GetValue, RedisFails, Fallback, Query, QueryFails,
              SendFill, Fill, FillFails, Return
<1>5. ASSUME NEW p \in Procs, Restart(p)
      PROVE  View!Leave(p) \/ UNCHANGED <<row, floor, Readers>>
  <2>1. CASE load[p].pc = "idle"
    <3>1. load' = [load EXCEPT ![p] = Idle] BY <1>5 DEF Restart, End
    <3>2. Readers' = [Readers EXCEPT ![p] = ReaderOf(Idle)] BY <3>1, OneReader
    <3>3. Readers[p] = ReaderOf(Idle) BY <2>1 DEF Readers, ReaderOf, Idle
    <3> QED BY <1>5, <3>2, <3>3 DEF Restart, Readers
  <2>2. CASE load[p].pc # "idle" BY <1>5, <2>2, EndLeaves DEF Restart
  <2> QED BY <2>1, <2>2
<1>6. ASSUME NEW w \in Writers, Commit(w)
      PROVE  View!Store \/ UNCHANGED <<row, floor, Readers>>
  <2>1. UNCHANGED <<floor, load>> BY <1>6 DEF Commit
  <2>2. Readers' = Readers BY <2>1 DEF Readers, ReaderOf
  <2>3. CASE row' = row BY <2>1, <2>2, <2>3
  <2>4. CASE row' = row + 1
    BY <1>6, <2>1, <2>2, <2>4, PolicyCacheAssumption DEF Commit, View!Store, Readers, TypeOK, Revisions
  <2> QED BY <1>6, <2>3, <2>4 DEF Commit
<1>7. ASSUME NEW w \in Writers, Invalidate(w) \/ InvalidateFails(w) \/ PutDies(w)
      PROVE  View!Publish \/ UNCHANGED <<row, floor, Readers>>
  <2>1. UNCHANGED <<row, load>> BY <1>7 DEF Invalidate, InvalidateFails, PutDies
  <2>2. Readers' = Readers BY <2>1 DEF Readers, ReaderOf
  <2>3. CASE Invalidated(w)
    <3>1. put[w] # NoPut BY <1>7 DEF Invalidate, InvalidateFails, PutDies
    <3>2. Grows /\ floor' <= row BY <2>1, <2>3, <3>1, InvalidatedFenced
    <3>3. floor' \in floor..row
      BY <3>2, PolicyCacheAssumption DEF Grows, TypeOK, Revisions
    <3> QED BY <2>1, <2>2, <3>3 DEF View!Publish, Readers
  <2>4. CASE UNCHANGED floor BY <2>1, <2>2, <2>4
  <2> QED BY <1>7, <2>3, <2>4 DEF Invalidate, InvalidateFails, PutDies
<1>8. CASE Evict BY <1>8 DEF Evict, Readers, ReaderOf
<1>9. CASE Tick
  <2>1. load \in [Procs -> Load] BY DEF TypeOK
  <2>2. \A p \in Procs : load'[p].pc = load[p].pc /\ load'[p].rev = load[p].rev
                          /\ load'[p].floor = load[p].floor
    <3> SUFFICES ASSUME NEW p \in Procs
                 PROVE  /\ load'[p].pc = load[p].pc /\ load'[p].rev = load[p].rev
                        /\ load'[p].floor = load[p].floor
      OBVIOUS
    <3>1. load[p] \in Load BY <2>1
    <3>2. load'[p] = IF load[p].pc \in Timed /\ load[p].elapsed < TTL
                       THEN [load[p] EXCEPT !.elapsed = load[p].elapsed + 1] ELSE load[p]
      BY <1>9 DEF Tick
    <3> QED BY <3>1, <3>2 DEF Load
  <2>3. Readers' = Readers BY <2>2 DEF Readers, ReaderOf
  <2> QED BY <1>9, <2>3 DEF Tick
<1>10. CASE Next
  <2>1. ASSUME NEW p \in Procs, LoadStep(p)
        PROVE  View!Next \/ UNCHANGED <<row, floor, Readers>>
    BY <1>3, <1>4, <2>1 DEF View!Next
  <2>2. ASSUME NEW p \in Procs, Get(p) \/ Restart(p)
        PROVE  View!Next \/ UNCHANGED <<row, floor, Readers>>
    BY <1>2, <1>5, <2>2 DEF View!Next
  <2>3. ASSUME NEW w \in Writers,
               Commit(w) \/ Invalidate(w) \/ InvalidateFails(w) \/ PutDies(w)
        PROVE  View!Next \/ UNCHANGED <<row, floor, Readers>>
    BY <1>6, <1>7, <2>3 DEF View!Next
  <2> QED BY <1>8, <1>9, <1>10, <2>1, <2>2, <2>3 DEF Next
<1> QED BY <1>1, <1>10

\* The upload policy cache implements PolicyView: to its readers it is a store whose
\* answers are stored revisions, never older than the last invalidation done before
\* the question.
THEOREM Implements == Spec => ImplementsView
<1>1. Inv /\ [Next]_vars => [View!Next]_<<row, floor, Readers>> BY StepImplements
<1> QED BY InitImplements, <1>1, Invariance, PTL DEF Spec, ImplementsView, View!Spec, Readers

=============================================================================
