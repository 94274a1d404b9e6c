-------------------------- MODULE WsSessionProofs --------------------------
(***************************************************************************)
(* Proofs about WsSession and the getOrSet it calls, for any number of     *)
(* users, sockets and namespaces, any number of attempts and writes.       *)
(***************************************************************************)
EXTENDS WsSession, TLAPS

CacheType ==
    /\ row \in [Users -> Statuses] /\ entry \in [Users -> Statuses]
    /\ lock \in [Users -> Callers \cup {None}]
    /\ call \in [Callers -> Call]
    /\ writes \in 0..MaxWrites
    /\ pending \subseteq Users /\ lost \subseteq Users /\ overtaken \subseteq Users

\* A call still competing for the lock has an attempt left, and one about to store has
\* the row as it still is, unless a write came in between.
CallFits(c) ==
    /\ In(c, {"idle", "get", "lock", "retry"}) => call[c].tries < MaxRetry
    /\ At(c, "store") /\ ~call[c].raced => call[c].value = row[call[c].uid]

CacheInv ==
    /\ CacheType
    /\ HolderKeepsLock /\ StaleNeedsOvertaking
    /\ \A c \in Callers : CallFits(c)

\* The sockets of one namespace: no user is listed without one.
StoreFits(f) ==
    /\ DOMAIN f \subseteq Users /\ f \in [DOMAIN f -> SUBSET Callers]
    /\ \A u \in DOMAIN f : f[u] # {}

SocketsIn(f, u) == IF u \in DOMAIN f THEN f[u] ELSE {}

SessionsType ==
    /\ DOMAIN sessions \subseteq Namespaces
    /\ \A n \in DOMAIN sessions : StoreFits(sessions[n]) /\ DOMAIN sessions[n] # {}

\* A socket whose handshake is still open has started it, and is known to have closed
\* if it has.
Pending(s) ==
    /\ conn[s] = "new" => At(s, "idle") /\ auth[s] = "pending"
    /\ conn[s] = "closed" /\ auth[s] = "pending" => s \in early

WsInv ==
    /\ conn \in [Callers -> {"new", "open", "closed"}]
    /\ auth \in [Callers -> {"pending", "admitted", "refused"}]
    /\ nsp \in [Callers -> Namespaces] /\ early \subseteq Callers
    /\ SessionsType /\ ListedSockets
    /\ \A s \in Callers : Pending(s)

-----------------------------------------------------------------------------
(* getOrSet.                                                               *)

LEMMA CallFields ==
    ASSUME CacheType, NEW c \in Callers
    PROVE  /\ call[c] \in Call /\ call[c].uid \in Users /\ call[c].value \in Statuses
           /\ call[c].tries \in 0..MaxRetry /\ call[c].lapsed \in BOOLEAN
           /\ call[c].raced \in BOOLEAN /\ Cached(c) \in Statuses
  BY DEF CacheType, Call, Cached

\* What one step of a call does, whichever it is: to the call itself, to the lock, and
\* to the cached row.
LEMMA CallSteps ==
    ASSUME CacheInv, NEW c \in Callers, Begin(c) \/ CallStep(c)
    PROVE  /\ row' = row /\ writes' = writes /\ pending' = pending
           /\ call'[c] \in Call
           /\ call' = [call EXCEPT ![c] = call'[c]]
           /\ call'[c].uid = call[c].uid
           /\ call'[c].lapsed = call[c].lapsed /\ call'[c].raced = call[c].raced
           /\ call'[c].pc # "idle"
           /\ call'[c].pc \in {"get", "lock", "retry"} => call'[c].tries < MaxRetry
           /\ \/ lock' = lock /\ (call'[c].pc \in Section => call[c].pc \in Section)
              \/ lock[call[c].uid] = None /\ lock' = [lock EXCEPT ![call[c].uid] = c]
              \/ lock' = Freed(call[c].uid, c) /\ call'[c].pc \notin Section
           /\ \/ /\ UNCHANGED <<entry, lost, overtaken>>
                 /\ call'[c].pc = "store" => call'[c].value = row[call[c].uid]
              \/ Store(c) /\ call'[c].pc # "store"
<1> DEFINE t == call[c]
           u == call[c].uid
<1>1. CacheType
  BY DEF CacheInv
<1>2. /\ t \in Call /\ t.tries \in 0..MaxRetry /\ Cached(c) \in Statuses /\ u \in Users
      /\ row[u] \in Statuses /\ call \in [Callers -> Call]
  BY <1>1, CallFields DEF CacheType
<1>3. t.pc \in {"idle", "get", "lock", "retry"} => t.tries < MaxRetry
  BY DEF CacheInv, CallFits, In
<1> USE <1>2, <1>3
<1>4. ASSUME NEW step \in Steps \cup {"done"},
             call' = [call EXCEPT ![c] = [t EXCEPT !.pc = step]]
      PROVE  /\ call'[c] \in Call /\ call' = [call EXCEPT ![c] = call'[c]]
             /\ call'[c].uid = t.uid /\ call'[c].lapsed = t.lapsed /\ call'[c].raced = t.raced
             /\ call'[c].pc = step /\ call'[c].tries = t.tries
  BY <1>4 DEF Call
<1>5. ASSUME NEW step \in Steps \cup {"done"}, NEW v \in Statuses,
             call' = [call EXCEPT ![c] = [t EXCEPT !.pc = step, !.value = v]]
      PROVE  /\ call'[c] \in Call /\ call' = [call EXCEPT ![c] = call'[c]]
             /\ call'[c].uid = t.uid /\ call'[c].lapsed = t.lapsed /\ call'[c].raced = t.raced
             /\ call'[c].pc = step /\ call'[c].tries = t.tries /\ call'[c].value = v
  BY <1>5 DEF Call
<1> USE DEF Steps, Section
<1>6. CASE Begin(c)
  BY <1>4, <1>6 DEF Begin, Goto, At
<1>7. CASE Get(c)
  <2>1. CASE Cached(c) # "none"
    <3>1. call' = [call EXCEPT ![c] = [t EXCEPT !.pc = "done", !.value = Cached(c)]]
      BY <1>7, <2>1 DEF Get, Return
    <3>2. /\ call'[c] \in Call /\ call' = [call EXCEPT ![c] = call'[c]]
          /\ call'[c].uid = t.uid /\ call'[c].lapsed = t.lapsed /\ call'[c].raced = t.raced
          /\ call'[c].pc = "done"
      BY <1>5, <3>1
    <3> QED
      BY <1>7, <3>2 DEF Get, At
  <2>2. CASE Cached(c) = "none"
    BY <1>4, <1>7, <2>2 DEF Get, Goto, At
  <2> QED
    BY <2>1, <2>2
<1>8. CASE TryLock(c)
  BY <1>4, <1>8 DEF TryLock, Goto, At
<1>9. CASE LockReplyLost(c)
  BY <1>4, <1>9 DEF LockReplyLost, Goto, At
<1>10. CASE Retry(c)
  <2>1. CASE Cached(c) # "none"
    <3>1. call' = [call EXCEPT ![c] = [t EXCEPT !.pc = "done", !.value = Cached(c)]]
      BY <1>10, <2>1 DEF Retry, Return
    <3>2. /\ call'[c] \in Call /\ call' = [call EXCEPT ![c] = call'[c]]
          /\ call'[c].uid = t.uid /\ call'[c].lapsed = t.lapsed /\ call'[c].raced = t.raced
          /\ call'[c].pc = "done"
      BY <1>5, <3>1
    <3> QED
      BY <1>10, <3>2 DEF Retry
  <2>2. CASE Cached(c) = "none"
    <3> DEFINE n == t.tries + 1
               step == IF n < MaxRetry THEN "lock" ELSE "done"
               x == [t EXCEPT !.tries = n, !.pc = step]
    <3>1. n \in 0..MaxRetry /\ step \in {"lock", "done"} /\ (step = "lock" => n < MaxRetry)
      BY <1>10, CacheLockAssumption DEF Retry, At
    <3>2. call' = [call EXCEPT ![c] = x]
      BY <1>10, <2>2 DEF Retry
    <3> HIDE DEF n, step
    <3>3. /\ x \in Call /\ x.uid = t.uid /\ x.lapsed = t.lapsed /\ x.raced = t.raced
          /\ x.pc = step /\ x.tries = n
      BY <3>1 DEF Call
    <3> QED
      BY <1>10, <3>1, <3>2, <3>3 DEF Retry
  <2> QED
    BY <2>1, <2>2
<1>11. CASE DoubleCheck(c)
  <2>1. PICK step \in {"load", "release"} :
            call' = [call EXCEPT ![c] = [t EXCEPT !.pc = step, !.value = Cached(c)]]
    BY <1>11 DEF DoubleCheck
  <2> QED
    BY <1>5, <1>11, <2>1 DEF DoubleCheck, At
<1>12. CASE LoadRow(c)
  <2>1. PICK step \in {"store", "release"} :
            call' = [call EXCEPT ![c] = [t EXCEPT !.pc = step, !.value = row[u]]]
    BY <1>12 DEF LoadRow
  <2>2. /\ call'[c] \in Call /\ call' = [call EXCEPT ![c] = call'[c]]
        /\ call'[c].uid = t.uid /\ call'[c].lapsed = t.lapsed /\ call'[c].raced = t.raced
        /\ call'[c].pc = step /\ call'[c].value = row[u]
    BY <1>5, <2>1
  <2> QED
    BY <1>12, <2>2 DEF LoadRow, At
<1>13. CASE Store(c)
  BY <1>4, <1>13 DEF Store, Goto, At
<1>14. CASE Release(c)
  BY <1>4, <1>14 DEF Release, Goto, At
<1>15. CASE Fails(c)
  <2>1. CASE In(c, Section \ {"release"})
    <3>1. call' = [call EXCEPT ![c] = [t EXCEPT !.pc = "release", !.value = "none"]]
      BY <1>15, <2>1 DEF Fails
    <3> QED
      BY <1>5, <1>15, <2>1, <3>1 DEF Fails, In, Statuses
  <2>2. CASE ~In(c, Section \ {"release"})
    BY <1>4, <1>15, <2>2 DEF Fails, Goto, In
  <2> QED
    BY <2>1, <2>2
<1> QED
  BY <1>6, <1>7, <1>8, <1>9, <1>10, <1>11, <1>12, <1>13, <1>14, <1>15 DEF CallStep

LEMMA CallCacheInv ==
    ASSUME CacheInv, NEW c \in Callers, Begin(c) \/ CallStep(c)
    PROVE  CacheInv'
<1> DEFINE u == call[c].uid
           x == call'[c]
<1>1. CacheType /\ u \in Users /\ call[c].value \in Statuses
  BY CallFields DEF CacheInv
<1>2. /\ UNCHANGED <<row, writes, pending>>
      /\ x \in Call /\ call' = [call EXCEPT ![c] = x] /\ x.uid = u
      /\ x.lapsed = call[c].lapsed /\ x.raced = call[c].raced /\ x.pc # "idle"
      /\ x.pc \in {"get", "lock", "retry"} => x.tries < MaxRetry
  BY CallSteps
<1>3. \/ lock' = lock /\ (x.pc \in Section => call[c].pc \in Section)
      \/ lock[u] = None /\ lock' = [lock EXCEPT ![u] = c]
      \/ lock' = Freed(u, c) /\ x.pc \notin Section
  BY CallSteps
<1>4. \/ /\ UNCHANGED <<entry, lost, overtaken>>
         /\ x.pc = "store" => x.value = row[u]
      \/ Store(c) /\ x.pc # "store"
  BY CallSteps
<1>5. \A d \in Callers \ {c} : call'[d] = call[d]
  BY <1>1, <1>2 DEF CacheType
<1>6. lock' \in [Users -> Callers \cup {None}]
  BY <1>1, <1>3 DEF CacheType, Freed
<1>7. /\ entry' \in [Users -> Statuses] /\ lost' \subseteq Users /\ overtaken' \subseteq Users
  BY <1>1, <1>4 DEF CacheType, Store
<1>8. CacheType'
  BY <1>1, <1>2, <1>6, <1>7 DEF CacheType
<1>9. HolderKeepsLock'
  <2> SUFFICES ASSUME NEW d \in Callers, (In(d, Section) /\ ~call[d].lapsed)'
               PROVE  lock'[call'[d].uid] = d
    BY DEF HolderKeepsLock
  <2>1. CASE d # c
    <3>1. In(d, Section) /\ ~call[d].lapsed /\ call'[d] = call[d] /\ lock[call[d].uid] = d
      BY <1>5, <2>1 DEF In, CacheInv, HolderKeepsLock
    <3>2. call[d].uid \in Users /\ d # None
      BY <1>1, CallFields, CacheLockAssumption
    <3> QED
      BY <1>1, <1>3, <2>1, <3>1, <3>2 DEF CacheType, Freed
  <2>2. CASE d = c
    BY <1>1, <1>2, <1>3, <2>2 DEF In, CacheInv, HolderKeepsLock, CacheType
  <2> QED
    BY <2>1, <2>2
<1>10. StaleNeedsOvertaking'
  <2>1. CASE UNCHANGED <<entry, lost, overtaken>>
    BY <1>2, <2>1 DEF CacheInv, StaleNeedsOvertaking
  <2>2. CASE Store(c)
    <3>1. ~call[c].raced => call[c].value = row[u]
      BY <2>2 DEF Store, CacheInv, CallFits
    <3> QED
      BY <1>1, <1>2, <2>2, <3>1 DEF Store, CacheInv, StaleNeedsOvertaking, CacheType
  <2> QED
    BY <1>4, <2>1, <2>2
<1>11. ASSUME NEW d \in Callers PROVE CallFits(d)'
  <2>1. CASE d # c
    BY <1>2, <1>5, <2>1 DEF CallFits, In, At, CacheInv
  <2>2. CASE d = c
    BY <1>2, <1>4, <2>2 DEF CallFits, In, At
  <2> QED
    BY <2>1, <2>2
<1> QED
  BY <1>8, <1>9, <1>10, <1>11 DEF CacheInv

\* Leases and entries that end, writes and the deletion after them; also what the
\* sockets of a user may rely on meanwhile.
LEMMA RedisCacheInv ==
    ASSUME CacheInv, NEW u \in Users, NEW v \in Statuses,
           \/ LockExpires(u) \/ EntryExpires(u) \/ WriteRow(u, v)
           \/ Invalidate(u) \/ InvalidationLost(u)
    PROVE  /\ CacheInv'
           /\ \A c \in Callers : call'[c].uid = call[c].uid /\ call'[c].pc = call[c].pc
<1>1. CacheType
  BY DEF CacheInv
<1>2. CASE LockExpires(u)
  <2> DEFINE h == lock[u]
             x == [call[h] EXCEPT !.lapsed = TRUE]
  <2>1. h \in Callers
    BY <1>1, <1>2 DEF LockExpires, CacheType
  <2>2. x \in Call /\ x.uid = call[h].uid /\ x.pc = call[h].pc /\ x.lapsed = TRUE
        /\ x.tries = call[h].tries /\ x.raced = call[h].raced /\ x.value = call[h].value
    BY <1>1, <2>1, CallFields DEF Call
  <2>3. call' = [call EXCEPT ![h] = x]
    BY <1>2 DEF LockExpires
  <2> HIDE DEF x
  <2>4. \A d \in Callers :
          /\ call'[d].uid = call[d].uid /\ call'[d].pc = call[d].pc
          /\ call'[d].tries = call[d].tries /\ call'[d].raced = call[d].raced
          /\ call'[d].value = call[d].value
          /\ call'[d].lapsed = IF d = h THEN TRUE ELSE call[d].lapsed
    BY <1>1, <2>1, <2>2, <2>3 DEF CacheType
  <2>5. CacheType'
    BY <1>1, <1>2, <2>1, <2>2, <2>3 DEF CacheType, LockExpires
  <2>6. HolderKeepsLock'
    <3> SUFFICES ASSUME NEW d \in Callers, (In(d, Section) /\ ~call[d].lapsed)'
                 PROVE  lock'[call'[d].uid] = d
      BY DEF HolderKeepsLock
    <3>1. d # h /\ lock[call[d].uid] = d /\ call[d].uid \in Users
      BY <1>1, <2>4, CallFields DEF In, CacheInv, HolderKeepsLock
    <3> QED
      BY <1>1, <1>2, <2>4, <3>1 DEF LockExpires, CacheType
  <2>7. StaleNeedsOvertaking' /\ \A d \in Callers : CallFits(d)'
    BY <1>2, <2>4 DEF LockExpires, StaleNeedsOvertaking, CacheInv, CallFits, In, At
  <2> QED
    BY <2>4, <2>5, <2>6, <2>7 DEF CacheInv
<1>3. CASE WriteRow(u, v)
  <2>1. \A d \in Callers :
          /\ call'[d] \in Call
          /\ call'[d].uid = call[d].uid /\ call'[d].pc = call[d].pc
          /\ call'[d].tries = call[d].tries /\ call'[d].lapsed = call[d].lapsed
          /\ call'[d].value = call[d].value
          /\ At(d, "store") /\ call[d].uid = u => call'[d].raced
          /\ ~(At(d, "store") /\ call[d].uid = u) => call'[d].raced = call[d].raced
    BY <1>1, <1>3, CallFields DEF WriteRow, Call
  <2>2. call' \in [Callers -> Call]
    <3>1. call' = [d \in Callers |-> call'[d]]
      BY <1>3 DEF WriteRow
    <3> QED
      BY <2>1, <3>1
  <2>3. CacheType'
    BY <1>1, <1>3, <2>2, CacheLockAssumption DEF CacheType, WriteRow
  <2>4. HolderKeepsLock'
    BY <1>3, <2>1 DEF WriteRow, HolderKeepsLock, CacheInv, In
  <2>5. StaleNeedsOvertaking'
    BY <1>1, <1>3 DEF WriteRow, StaleNeedsOvertaking, CacheInv, CacheType
  <2>6. ASSUME NEW d \in Callers PROVE CallFits(d)'
    <3>1. CallFits(d) /\ call[d].uid \in Users
      BY <1>1, CallFields DEF CacheInv
    <3> QED
      BY <1>1, <1>3, <2>1, <3>1 DEF CallFits, In, At, WriteRow, CacheType
  <2> QED
    BY <2>1, <2>3, <2>4, <2>5, <2>6 DEF CacheInv
<1>4. CASE EntryExpires(u) \/ Invalidate(u)
  BY <1>1, <1>4 DEF EntryExpires, Invalidate, Forget, CacheInv, CacheType, Statuses,
                    HolderKeepsLock, StaleNeedsOvertaking, CallFits, In, At
<1>5. CASE InvalidationLost(u)
  BY <1>1, <1>5 DEF InvalidationLost, CacheInv, CacheType,
                    HolderKeepsLock, StaleNeedsOvertaking, CallFits, In, At
<1> QED
  BY <1>2, <1>3, <1>4, <1>5

-----------------------------------------------------------------------------
(* The list of sockets.                                                    *)

LEMMA PutStore ==
    ASSUME NEW f, StoreFits(f), NEW u \in Users, NEW y \in SUBSET Callers, y # {}
    PROVE  /\ StoreFits(Put(f, u, y)) /\ DOMAIN Put(f, u, y) # {}
           /\ \A v : SocketsIn(Put(f, u, y), v) = IF v = u THEN y ELSE SocketsIn(f, v)
<1> DEFINE g == Put(f, u, y)
<1>1. DOMAIN g = DOMAIN f \cup {u} /\ g[u] = y /\ \A z \in DOMAIN f \ {u} : g[z] = f[z]
  BY DEF Put
<1>4. g \in [DOMAIN g -> SUBSET Callers]
  BY DEF Put, StoreFits
<1> HIDE DEF g
<1>2. StoreFits(g) /\ DOMAIN g # {}
  BY <1>1, <1>4 DEF StoreFits
<1>3. \A v : SocketsIn(g, v) = IF v = u THEN y ELSE SocketsIn(f, v)
  BY <1>1 DEF SocketsIn
<1> QED
  BY <1>2, <1>3 DEF g

LEMMA DropStore ==
    ASSUME NEW f, StoreFits(f), NEW u
    PROVE  LET g == Restrict(f, DOMAIN f \ {u})
           IN  /\ StoreFits(g) /\ DOMAIN g = DOMAIN f \ {u}
               /\ \A v : SocketsIn(g, v) = IF v = u THEN {} ELSE SocketsIn(f, v)
<1> DEFINE g == Restrict(f, DOMAIN f \ {u})
<1>1. DOMAIN g = DOMAIN f \ {u} /\ \A z \in DOMAIN f \ {u} : g[z] = f[z]
  BY DEF Restrict
<1>2. g \in [DOMAIN g -> SUBSET Callers]
  BY DEF Restrict, StoreFits
<1> HIDE DEF g
<1>3. StoreFits(g)
  BY <1>1, <1>2 DEF StoreFits
<1>4. \A v : SocketsIn(g, v) = IF v = u THEN {} ELSE SocketsIn(f, v)
  BY <1>1 DEF SocketsIn
<1> QED
  BY <1>1, <1>3, <1>4 DEF g

LEMMA OfStore ==
    ASSUME SessionsType, NEW n
    PROVE  /\ StoreFits(StoreOf(n))
           /\ \A u : GetSockets(n, u) = SocketsIn(StoreOf(n), u)
           /\ \A u : GetSockets(n, u) \subseteq Callers
<1>1. StoreFits(StoreOf(n))
  BY DEF SessionsType, StoreOf, Empty, StoreFits
<1> QED
  BY <1>1 DEF GetSockets, SocketsIn, StoreFits

\* What the list answers after one namespace has got another store.
LEMMA StorePut ==
    ASSUME SessionsType, NEW n \in Namespaces, NEW g, StoreFits(g),
           \/ DOMAIN g # {} /\ sessions' = Put(sessions, n, g)
           \/ DOMAIN g = {} /\ sessions' = Restrict(sessions, DOMAIN sessions \ {n})
    PROVE  /\ SessionsType'
           /\ \A m, u : GetSockets(m, u)' = IF m = n THEN SocketsIn(g, u) ELSE GetSockets(m, u)
<1>1. CASE DOMAIN g # {} /\ sessions' = Put(sessions, n, g)
  <2>1. /\ DOMAIN sessions' = DOMAIN sessions \cup {n} /\ sessions'[n] = g
        /\ \A z \in DOMAIN sessions \ {n} : sessions'[z] = sessions[z]
    BY <1>1 DEF Put
  <2> QED
    BY <1>1, <2>1 DEF SessionsType, GetSockets, StoreOf, SocketsIn, Empty
<1>2. CASE DOMAIN g = {} /\ sessions' = Restrict(sessions, DOMAIN sessions \ {n})
  <2>1. /\ DOMAIN sessions' = DOMAIN sessions \ {n}
        /\ \A z \in DOMAIN sessions \ {n} : sessions'[z] = sessions[z]
    BY <1>2 DEF Restrict
  <2> QED
    BY <1>2, <2>1 DEF SessionsType, GetSockets, StoreOf, SocketsIn, Empty
<1> QED
  BY <1>1, <1>2

LEMMA AddedSockets ==
    ASSUME SessionsType, NEW n \in Namespaces, NEW u \in Users, NEW s \in Callers,
           sessions' = Added(n, u, s)
    PROVE  /\ SessionsType'
           /\ \A m, v : GetSockets(m, v)' = IF m = n /\ v = u THEN GetSockets(n, u) \cup {s}
                                            ELSE GetSockets(m, v)
<1> DEFINE y == GetSockets(n, u) \cup {s}
           g == Put(StoreOf(n), u, y)
<1>1. StoreFits(StoreOf(n)) /\ y \in SUBSET Callers /\ y # {}
  BY OfStore
<1>2. /\ StoreFits(g) /\ DOMAIN g # {}
      /\ \A v : SocketsIn(g, v) = IF v = u THEN y ELSE SocketsIn(StoreOf(n), v)
  BY <1>1, PutStore
<1>3. sessions' = Put(sessions, n, g)
  BY DEF Added
<1> HIDE DEF g, y
<1>4. /\ SessionsType'
      /\ \A m, v : GetSockets(m, v)' = IF m = n THEN SocketsIn(g, v) ELSE GetSockets(m, v)
  BY <1>2, <1>3, StorePut
<1> QED
  BY <1>2, <1>4, OfStore DEF y

LEMMA RemovedSockets ==
    ASSUME SessionsType, NEW n \in Namespaces, NEW u \in Users, NEW s \in Callers,
           sessions' = Removed(n, u, s)
    PROVE  /\ SessionsType'
           /\ \A m, v : GetSockets(m, v)' = IF m = n /\ v = u THEN GetSockets(n, u) \ {s}
                                            ELSE GetSockets(m, v)
<1> DEFINE f == StoreOf(n)
           left == GetSockets(n, u) \ {s}
           g == IF left = {} THEN Restrict(f, DOMAIN f \ {u}) ELSE Put(f, u, left)
<1>1. StoreFits(f) /\ left \in SUBSET Callers
  BY OfStore
<1>2. CASE u \notin DOMAIN f
  <2>1. sessions' = sessions /\ GetSockets(n, u) = {}
    BY <1>2 DEF Removed, GetSockets
  <2> QED
    BY <2>1 DEF SessionsType, GetSockets, StoreOf
<1>3. CASE u \in DOMAIN f
  <2>1. /\ StoreFits(g)
        /\ \A v : SocketsIn(g, v) = IF v = u THEN left ELSE SocketsIn(f, v)
    <3>1. CASE left = {}
      <4> DEFINE h == Restrict(f, DOMAIN f \ {u})
      <4>1. /\ StoreFits(h)
            /\ \A v : SocketsIn(h, v) = IF v = u THEN {} ELSE SocketsIn(f, v)
        BY <1>1, DropStore
      <4>2. g = h
        BY <3>1
      <4> HIDE DEF g, h
      <4> QED
        BY <3>1, <4>1, <4>2
    <3>2. CASE left # {}
      <4>1. /\ StoreFits(Put(f, u, left))
            /\ \A v : SocketsIn(Put(f, u, left), v) = IF v = u THEN left ELSE SocketsIn(f, v)
        BY <1>1, <3>2, PutStore
      <4>2. g = Put(f, u, left)
        BY <3>2
      <4> HIDE DEF g
      <4> QED
        BY <4>1, <4>2
    <3> QED
      BY <3>1, <3>2
  <2>2. \/ DOMAIN g # {} /\ sessions' = Put(sessions, n, g)
        \/ DOMAIN g = {} /\ sessions' = Restrict(sessions, DOMAIN sessions \ {n})
    BY <1>3 DEF Removed
  <2> HIDE DEF g, left
  <2>3. /\ SessionsType'
        /\ \A m, v : GetSockets(m, v)' = IF m = n THEN SocketsIn(g, v) ELSE GetSockets(m, v)
    BY <2>1, <2>2, StorePut
  <2> QED
    BY <2>1, <2>3, OfStore DEF left
<1> QED
  BY <1>2, <1>3

-----------------------------------------------------------------------------
(* The steps.                                                              *)

Inv == CacheInv /\ WsInv

\* Who is listed stays right when only calls and rows move.
LEMMA CallsMove ==
    ASSUME WsInv, UNCHANGED wsVars,
           \A s \in Callers : call'[s].uid = call[s].uid /\ (At(s, "idle") => At(s, "idle")')
    PROVE  WsInv'
<1>1. \A n, u : GetSockets(n, u)' = GetSockets(n, u)
  BY DEF GetSockets, StoreOf, wsVars
<1>2. SessionsType'
  BY DEF WsInv, SessionsType, wsVars
<1>3. ListedSockets'
  <2>1. ASSUME NEW s \in Callers, conn'[s] = "open", auth'[s] = "admitted"
        PROVE  s \in GetSockets(nsp[s], call[s].uid)'
    BY <1>1, <2>1 DEF WsInv, ListedSockets, wsVars, GetSockets, StoreOf
  <2>2. ASSUME NEW n \in Namespaces, NEW u \in Users, NEW s \in GetSockets(n, u)'
        PROVE  /\ auth'[s] = "admitted" /\ n = nsp'[s] /\ u = call'[s].uid
               /\ conn'[s] = "open" \/ s \in early'
    <3>1. s \in GetSockets(n, u) /\ s \in Callers
      BY <1>1, <2>2, OfStore DEF WsInv
    <3> QED
      BY <3>1 DEF WsInv, ListedSockets, wsVars
  <2> QED
    BY <2>1, <2>2 DEF ListedSockets
<1>4. \A s \in Callers : Pending(s)'
  BY DEF WsInv, Pending, wsVars
<1> QED
  BY <1>2, <1>3, <1>4 DEF WsInv, wsVars

LEMMA InitInv == Init => Inv
<1> SUFFICES ASSUME Init PROVE Inv
  OBVIOUS
<1>1. CacheType
  <2>1. /\ row \in [Users -> Statuses] /\ entry \in [Users -> Statuses]
        /\ lock \in [Users -> Callers \cup {None}]
        /\ writes \in 0..MaxWrites /\ pending = {} /\ lost = {} /\ overtaken = {}
    BY CacheLockAssumption DEF Init, CacheInit, Statuses, Live
  <2>2. ASSUME NEW x \in [pc: {"idle"}, uid: Users, tries: {0}, value: {"none"},
                          lapsed: {FALSE}, raced: {FALSE}]
        PROVE  x \in Call
    <3>1. /\ x = [pc |-> x.pc, uid |-> x.uid, tries |-> x.tries, value |-> x.value,
                  lapsed |-> x.lapsed, raced |-> x.raced]
          /\ x.pc = "idle" /\ x.uid \in Users /\ x.tries = 0 /\ x.value = "none"
          /\ x.lapsed = FALSE /\ x.raced = FALSE
      OBVIOUS
    <3>2. 0 \in 0..MaxRetry
      BY CacheLockAssumption
    <3> QED
      BY <3>1, <3>2 DEF Call, Statuses
  <2>3. call \in [Callers -> Call]
    BY <2>2 DEF Init, CacheInit
  <2> QED
    BY <2>1, <2>3 DEF CacheType
<1>2. \A c \in Callers : call[c].pc = "idle" /\ call[c].tries = 0
  BY DEF Init, CacheInit
<1>3. CacheInv
  BY <1>1, <1>2, CacheLockAssumption
     DEF Init, CacheInit, CacheInv, HolderKeepsLock, StaleNeedsOvertaking, CallFits, In, At, Section
<1>4. \A n, u : GetSockets(n, u) = {}
  BY DEF Init, GetSockets, StoreOf, Empty
<1>5. WsInv
  BY <1>2, <1>4 DEF Init, WsInv, SessionsType, Empty, ListedSockets, Pending, At
<1> QED
  BY <1>3, <1>5 DEF Inv

LEMMA ConnectInv == ASSUME Inv, NEW s \in Callers, Connect(s) PROVE Inv'
<1>1. /\ conn[s] = "new" /\ auth[s] = "pending" /\ At(s, "idle")
      /\ conn' = [conn EXCEPT ![s] = "open"] /\ UNCHANGED <<nsp, sessions, early>>
  BY DEF Connect, Inv, WsInv, Pending
<1>2. \A n, u : GetSockets(n, u)' = GetSockets(n, u)
  BY <1>1 DEF GetSockets, StoreOf
<1>3. /\ auth' = auth \/ auth' = [auth EXCEPT ![s] = "refused"]
      /\ \A c \in Callers : call'[c].uid = call[c].uid
      /\ \A c \in Callers \ {s} : call'[c] = call[c]
      /\ CacheInv'
  <2>1. CASE Begin(s) /\ auth' = auth
    BY <2>1, CallSteps, CallCacheInv DEF Inv, CacheInv, CacheType
  <2>2. CASE auth' = [auth EXCEPT ![s] = "refused"] /\ UNCHANGED cacheVars
    BY <2>2 DEF Inv, CacheInv, CacheType, HolderKeepsLock, StaleNeedsOvertaking, CallFits,
                In, At, cacheVars
  <2> QED
    BY <2>1, <2>2 DEF Connect
<1>4. SessionsType' /\ ListedSockets'
  <2>1. SessionsType'
    BY <1>1 DEF Inv, WsInv, SessionsType
  <2>2. ASSUME NEW c \in Callers, conn'[c] = "open", auth'[c] = "admitted"
        PROVE  c \in GetSockets(nsp[c], call[c].uid)'
    <3>1. c # s /\ conn[c] = "open" /\ auth[c] = "admitted" /\ call'[c] = call[c]
      BY <1>1, <1>3, <2>2 DEF Inv, WsInv
    <3> QED
      BY <1>1, <3>1 DEF Inv, WsInv, ListedSockets, GetSockets, StoreOf
  <2>3. ASSUME NEW n \in Namespaces, NEW u \in Users, NEW c \in GetSockets(n, u)'
        PROVE  /\ auth'[c] = "admitted" /\ n = nsp'[c] /\ u = call'[c].uid
               /\ conn'[c] = "open" \/ c \in early'
    <3>1. c \in GetSockets(n, u) /\ c \in Callers
      BY <1>2, <2>3, OfStore DEF Inv, WsInv
    <3>2. c # s
      BY <1>1, <3>1 DEF Inv, WsInv, ListedSockets
    <3> QED
      BY <1>1, <1>3, <3>1, <3>2 DEF Inv, WsInv, ListedSockets
  <2> QED
    BY <2>1, <2>2, <2>3 DEF ListedSockets
<1>5. \A c \in Callers : Pending(c)'
  BY <1>1, <1>3 DEF Inv, WsInv, Pending, At
<1> QED
  BY <1>1, <1>3, <1>4, <1>5 DEF Inv, WsInv

LEMMA CacheStands == ASSUME CacheInv, UNCHANGED cacheVars PROVE CacheInv'
  BY DEF CacheInv, CacheType, HolderKeepsLock, StaleNeedsOvertaking, CallFits, In, At, cacheVars

LEMMA AdmitInv == ASSUME Inv, NEW s \in Callers, Admit(s) PROVE Inv'
<1> DEFINE n == nsp[s]
           u == call[s].uid
<1>1. /\ n \in Namespaces /\ u \in Users /\ SessionsType /\ CacheInv
  BY CallFields DEF Inv, WsInv, CacheInv
<1>2. /\ auth[s] = "pending" /\ At(s, "done") /\ auth' = [auth EXCEPT ![s] = "admitted"]
      /\ sessions' = Added(n, u, s) /\ UNCHANGED <<cacheVars, conn, nsp, early>>
  BY DEF Admit
<1>3. conn[s] # "new" /\ (conn[s] = "closed" => s \in early)
  BY <1>2 DEF Inv, WsInv, Pending, At
<1>4. /\ SessionsType'
      /\ \A m, v : GetSockets(m, v)' = IF m = n /\ v = u THEN GetSockets(n, u) \cup {s}
                                       ELSE GetSockets(m, v)
  BY <1>1, <1>2, AddedSockets
<1>5. ListedSockets'
  BY <1>1, <1>2, <1>3, <1>4 DEF Inv, WsInv, ListedSockets, cacheVars
<1>6. \A c \in Callers : Pending(c)'
  BY <1>2, <1>3 DEF Inv, WsInv, Pending, At, cacheVars
<1> QED
  BY <1>1, <1>2, <1>4, <1>5, <1>6, CacheStands DEF Inv, WsInv

LEMMA RefuseInv == ASSUME Inv, NEW s \in Callers, Refuse(s) PROVE Inv'
<1>1. /\ auth[s] = "pending" /\ At(s, "done") /\ auth' = [auth EXCEPT ![s] = "refused"]
      /\ UNCHANGED <<cacheVars, conn, nsp, sessions, early>>
  BY DEF Refuse
<1>2. \A n, u : GetSockets(n, u)' = GetSockets(n, u)
  BY <1>1 DEF GetSockets, StoreOf
<1>3. SessionsType' /\ ListedSockets'
  BY <1>1, <1>2 DEF Inv, WsInv, SessionsType, ListedSockets, cacheVars
<1>4. \A c \in Callers : Pending(c)'
  BY <1>1 DEF Inv, WsInv, Pending, At, cacheVars
<1> QED
  BY <1>1, <1>3, <1>4, CacheStands DEF Inv, WsInv

LEMMA DisconnectInv == ASSUME Inv, NEW s \in Callers, Disconnect(s) PROVE Inv'
<1> DEFINE n == nsp[s]
           u == call[s].uid
<1>1. /\ n \in Namespaces /\ u \in Users /\ SessionsType /\ CacheInv
  BY CallFields DEF Inv, WsInv, CacheInv
<1>2. /\ conn[s] = "open" /\ conn' = [conn EXCEPT ![s] = "closed"]
      /\ UNCHANGED <<cacheVars, auth, nsp>>
  BY DEF Disconnect
<1>3. CASE auth[s] = "admitted"
  <2>1. sessions' = Removed(n, u, s) /\ early' = early
    BY <1>3 DEF Disconnect
  <2>2. /\ SessionsType'
        /\ \A m, v : GetSockets(m, v)' = IF m = n /\ v = u THEN GetSockets(n, u) \ {s}
                                         ELSE GetSockets(m, v)
    BY <1>1, <2>1, RemovedSockets
  <2>3. ListedSockets'
    BY <1>1, <1>2, <2>1, <2>2 DEF Inv, WsInv, ListedSockets, cacheVars
  <2>4. \A c \in Callers : Pending(c)'
    BY <1>2, <1>3, <2>1 DEF Inv, WsInv, Pending, At, cacheVars
  <2> QED
    BY <1>1, <1>2, <2>1, <2>2, <2>3, <2>4, CacheStands DEF Inv, WsInv
<1>4. CASE auth[s] # "admitted"
  <2>1. sessions' = sessions /\ early' = early \cup {s}
    BY <1>4 DEF Disconnect
  <2>2. \A m, v : GetSockets(m, v)' = GetSockets(m, v)
    BY <2>1 DEF GetSockets, StoreOf
  <2>3. SessionsType' /\ ListedSockets'
    BY <1>1, <1>2, <1>4, <2>1, <2>2 DEF Inv, WsInv, SessionsType, ListedSockets, cacheVars
  <2>4. \A c \in Callers : Pending(c)'
    BY <1>2, <2>1 DEF Inv, WsInv, Pending, At, cacheVars
  <2> QED
    BY <1>1, <1>2, <2>1, <2>3, <2>4, CacheStands DEF Inv, WsInv
<1> QED
  BY <1>3, <1>4

LEMMA RestartInv == ASSUME Inv, Restart PROVE Inv'
<1>1. /\ \A c \in Callers :
           /\ conn'[c] = IF conn[c] = "open" THEN "closed" ELSE conn[c]
           /\ auth'[c] = IF conn[c] # "new" THEN "refused" ELSE auth[c]
           /\ call'[c] = IF In(c, Steps) THEN [call[c] EXCEPT !.pc = "done"] ELSE call[c]
      /\ sessions' = Empty
      /\ UNCHANGED <<row, entry, lock, writes, pending, lost, overtaken, nsp, early>>
  BY DEF Restart
<1>2. \A n, u : GetSockets(n, u)' = {}
  BY <1>1 DEF GetSockets, StoreOf, Empty
<1>3. \A c \in Callers :
        /\ call'[c] \in Call /\ call'[c].uid = call[c].uid /\ call'[c].tries = call[c].tries
        /\ call'[c].lapsed = call[c].lapsed /\ ~In(c, Steps)'
        /\ call'[c].pc = IF In(c, Steps) THEN "done" ELSE call[c].pc
  <2> SUFFICES ASSUME NEW c \in Callers
               PROVE  /\ call'[c] \in Call /\ call'[c].uid = call[c].uid
                      /\ call'[c].tries = call[c].tries
                      /\ call'[c].lapsed = call[c].lapsed /\ ~In(c, Steps)'
                      /\ call'[c].pc = IF In(c, Steps) THEN "done" ELSE call[c].pc
    OBVIOUS
  <2>1. call[c] \in Call
    BY CallFields DEF Inv, CacheInv
  <2>2. CASE In(c, Steps)
    <3>1. call'[c] = [call[c] EXCEPT !.pc = "done"]
      BY <1>1, <2>2
    <3> QED
      BY <2>1, <2>2, <3>1 DEF Call, In, Steps, Section
  <2>3. CASE ~In(c, Steps)
    BY <1>1, <2>1, <2>3 DEF In
  <2> QED
    BY <2>2, <2>3
<1>4. /\ conn' \in [Callers -> {"new", "open", "closed"}]
      /\ auth' \in [Callers -> {"pending", "admitted", "refused"}]
      /\ call' \in [Callers -> Call]
  <2>1. /\ conn' = [c \in Callers |-> conn'[c]] /\ auth' = [c \in Callers |-> auth'[c]]
        /\ call' = [c \in Callers |-> call'[c]]
    BY DEF Restart
  <2>2. \A c \in Callers : /\ conn'[c] \in {"new", "open", "closed"}
                           /\ auth'[c] \in {"pending", "admitted", "refused"}
    BY <1>1 DEF Inv, WsInv
  <2> QED
    BY <1>3, <2>1, <2>2
<1>5. CacheInv'
  <2>1. CacheType'
    BY <1>1, <1>4 DEF Inv, CacheInv, CacheType
  <2>2. HolderKeepsLock' /\ StaleNeedsOvertaking'
    BY <1>1, <1>3 DEF Inv, CacheInv, HolderKeepsLock, StaleNeedsOvertaking, In, Steps
  <2>3. \A c \in Callers : CallFits(c)'
    BY <1>1, <1>3 DEF Inv, CacheInv, CallFits, In, At, Steps, Section
  <2> QED
    BY <2>1, <2>2, <2>3 DEF CacheInv
<1>6. SessionsType' /\ ListedSockets'
  BY <1>1, <1>2 DEF SessionsType, ListedSockets, Empty, Inv, WsInv
<1>7. ASSUME NEW c \in Callers PROVE Pending(c)'
  <2>1. Pending(c)
    BY DEF Inv, WsInv
  <2>2. At(c, "idle") => At(c, "idle")'
    BY <1>3 DEF At, In, Steps, Section
  <2> QED
    BY <1>1, <2>1, <2>2 DEF Pending
<1> QED
  BY <1>1, <1>4, <1>5, <1>6, <1>7 DEF Inv, WsInv

LEMMA NextInv == ASSUME Inv, [Next]_vars PROVE Inv'
<1>1. ASSUME NEW s \in Callers, CallStep(s), UNCHANGED wsVars PROVE Inv'
  <2>1. CacheInv'
    BY <1>1, CallCacheInv DEF Inv
  <2>2. call[s].pc \in Steps
    BY <1>1 DEF CallStep, Get, TryLock, LockReplyLost, Retry, DoubleCheck, LoadRow, Store,
                Release, Fails, At, In, Steps, Section
  <2>3. \A c \in Callers : call'[c].uid = call[c].uid /\ (At(c, "idle") => At(c, "idle")')
    <3>1. call' = [call EXCEPT ![s] = call'[s]] /\ call'[s].uid = call[s].uid
      BY <1>1, CallSteps DEF Inv
    <3> QED
      BY <2>2, <3>1 DEF Inv, CacheInv, CacheType, At, Steps, Section
  <2> QED
    BY <1>1, <2>1, <2>3, CallsMove DEF Inv
<1>2. ASSUME RedisStep, UNCHANGED wsVars PROVE Inv'
  <2>1. PICK u \in Users, v \in Statuses :
          \/ LockExpires(u) \/ EntryExpires(u) \/ WriteRow(u, v)
          \/ Invalidate(u) \/ InvalidationLost(u)
    BY <1>2 DEF RedisStep, Statuses
  <2>2. CacheInv' /\ \A c \in Callers : call'[c].uid = call[c].uid /\ call'[c].pc = call[c].pc
    BY <2>1, RedisCacheInv DEF Inv
  <2> QED
    BY <1>2, <2>2, CallsMove DEF Inv, At
<1>3. CASE UNCHANGED vars
  <2>1. UNCHANGED cacheVars /\ UNCHANGED wsVars
    BY <1>3 DEF vars
  <2>2. \A c \in Callers : call'[c].uid = call[c].uid /\ (At(c, "idle") => At(c, "idle")')
    BY <2>1 DEF cacheVars, At
  <2> QED
    BY <2>1, <2>2, CallsMove, CacheStands DEF Inv
<1> QED
  BY <1>1, <1>2, <1>3, ConnectInv, AdmitInv, RefuseInv, DisconnectInv, RestartInv
     DEF Next, SocketStep

LEMMA Invariant == Spec => []Inv
<1>1. Init => Inv
  BY InitInv
<1>2. Inv /\ [Next]_vars => Inv'
  BY NextInv
<1> QED
  BY <1>1, <1>2, PTL DEF Spec

LEMMA TypeFollows == Inv => TypeOK
  BY DEF Inv, CacheInv, CacheType, WsInv, SessionsType, StoreFits, TypeOK

LEMMA OnlineFollows == Inv => OnlineAgrees
  BY DEF Inv, WsInv, SessionsType, StoreFits, OnlineAgrees, ListOnlineUids, IsOnline,
         GetSockets, StoreOf, Empty

\* Every variable of the gateway, and of the getOrSet it calls, keeps its type: no
\* call of getOrSet makes more attempts than it may.
THEOREM TypeCorrect == Spec => []TypeOK
<1> QED
  BY Invariant, TypeFollows, PTL

\* A call between lock and release of getOrSet has the lock unless its lease ran out:
\* the compare-and-delete of cache.service.ts never takes it from another call.
THEOREM LockHeld == Spec => []HolderKeepsLock
<1>1. Inv => HolderKeepsLock
  BY DEF Inv, CacheInv
<1> QED
  BY <1>1, Invariant, PTL

\* A stale user:info row needs a deletion that is on its way or was lost, or a load
\* that overlapped a write of the row.
THEOREM RowsFresh == Spec => []StaleNeedsOvertaking
<1>1. Inv => StaleNeedsOvertaking
  BY DEF Inv, CacheInv
<1> QED
  BY <1>1, Invariant, PTL

\* WsSessionService lists every admitted open socket, and of closed ones only those
\* whose handleDisconnect ran before the end of their handleConnection.
THEOREM SocketsListed == Spec => []ListedSockets
<1>1. Inv => ListedSockets
  BY DEF Inv, WsInv
<1> QED
  BY <1>1, Invariant, PTL

\* isOnline, getSockets and listOnlineUids never disagree about a user.
THEOREM OnlineConsistent == Spec => []OnlineAgrees
<1> QED
  BY Invariant, OnlineFollows, PTL

=============================================================================
