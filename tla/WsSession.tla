----------------------------- MODULE WsSession -----------------------------
(***************************************************************************)
(* The connections of a gateway derived from BaseRbacGateway. A handshake  *)
(* verifies the token, which reads the user through getOrSet (CacheLock);  *)
(* the socket is open all the while and may close at any await. Sockets    *)
(* that are admitted are listed per namespace and user, in memory. One     *)
(* process; it may restart, and then Redis keeps the lock it held.         *)
(***************************************************************************)
EXTENDS CacheLock, Functions

CONSTANTS
    Namespaces   \* Socket.IO namespaces; the sockets are Callers

VARIABLES
    conn,      \* the connection of each socket
    auth,      \* the outcome of its handleConnection; client.user is set iff "admitted"
    nsp,       \* the namespace it connects to
    sessions,  \* namespace -> user -> set of sockets, partial functions
    early      \* sockets that closed before their handleConnection ended  (history)

wsVars == <<conn, auth, nsp, sessions, early>>
vars == <<cacheVars, wsVars>>

Empty == [x \in {} |-> {}]

Init ==
    /\ CacheInit
    /\ conn = [s \in Callers |-> "new"]
    /\ auth = [s \in Callers |-> "pending"]
    /\ nsp \in [Callers -> Namespaces]
    /\ sessions = Empty
    /\ early = {}

\* sessions.get(namespace)?.get(uid) ?? [], and the other queries.
StoreOf(n) == IF n \in DOMAIN sessions THEN sessions[n] ELSE Empty
GetSockets(n, u) == IF u \in DOMAIN StoreOf(n) THEN StoreOf(n)[u] ELSE {}
IsOnline(n, u) == GetSockets(n, u) # {}
ListOnlineUids(n) == DOMAIN StoreOf(n)

Put(f, x, y) == [z \in DOMAIN f \cup {x} |-> IF z = x THEN y ELSE f[z]]

\* Mutant of Added: one socket per user.
AddedAlone(n, u, s) == Put(sessions, n, Put(StoreOf(n), u, {s}))

Added(n, u, s) == Put(sessions, n, Put(StoreOf(n), u, GetSockets(n, u) \cup {s}))

\* Mutant of Removed: the set of a user who has left stays, empty.
RemovedOnly(n, u, s) ==
    IF u \in DOMAIN StoreOf(n) THEN [sessions EXCEPT ![n][u] = @ \ {s}] ELSE sessions

\* The set of a user who has left goes, and with the last one the namespace.
Removed(n, u, s) ==
    LET left == GetSockets(n, u) \ {s}
        store == IF left = {} THEN Restrict(StoreOf(n), DOMAIN StoreOf(n) \ {u})
                 ELSE Put(StoreOf(n), u, left)
    IN IF u \notin DOMAIN StoreOf(n) THEN sessions
       ELSE IF DOMAIN store = {} THEN Restrict(sessions, DOMAIN sessions \ {n})
       ELSE Put(sessions, n, store)

\* The handshake; a token that does not verify ends it at once.
Connect(s) ==
    /\ conn[s] = "new"
    /\ conn' = [conn EXCEPT ![s] = "open"]
    /\ \/ Begin(s) /\ auth' = auth
       \/ auth' = [auth EXCEPT ![s] = "refused"] /\ UNCHANGED cacheVars
    /\ UNCHANGED <<nsp, sessions, early>>

\* The rest of handleConnection is synchronous. It does not look whether the socket
\* is still there.
Admit(s) ==
    /\ auth[s] = "pending" /\ At(s, "done") /\ call[s].value = "enabled"
    /\ auth' = [auth EXCEPT ![s] = "admitted"]
    /\ sessions' = Added(nsp[s], call[s].uid, s)
    /\ UNCHANGED <<cacheVars, conn, nsp, early>>

\* Null, a disabled user or any exception, the query of the roles included, makes
\* verifyAccessToken throw: disconnect is not reached and the socket stays open.
Refuse(s) ==
    /\ auth[s] = "pending" /\ At(s, "done")
    /\ auth' = [auth EXCEPT ![s] = "refused"]
    /\ UNCHANGED <<cacheVars, conn, nsp, sessions, early>>

\* handleDisconnect, which knows the user only when handleConnection has set it.
Disconnect(s) ==
    /\ conn[s] = "open"
    /\ conn' = [conn EXCEPT ![s] = "closed"]
    /\ IF auth[s] = "admitted"
         THEN sessions' = Removed(nsp[s], call[s].uid, s) /\ early' = early
         ELSE sessions' = sessions /\ early' = early \cup {s}
    /\ UNCHANGED <<cacheVars, auth, nsp>>

\* The process ends and starts again. Sockets, calls and the list are gone; the lock
\* of a call that was in its section stays in Redis.
Restart ==
    /\ \E s \in Callers : conn[s] = "open"
    /\ conn' = [s \in Callers |-> IF conn[s] = "open" THEN "closed" ELSE conn[s]]
    /\ auth' = [s \in Callers |-> IF conn[s] # "new" THEN "refused" ELSE auth[s]]
    /\ call' = [s \in Callers |-> IF In(s, Steps) THEN [call[s] EXCEPT !.pc = "done"]
                                  ELSE call[s]]
    /\ sessions' = Empty
    /\ UNCHANGED <<row, entry, lock, writes, pending, lost, overtaken, nsp, early>>

SocketStep(s) ==
    \/ Connect(s) \/ Admit(s) \/ Refuse(s) \/ Disconnect(s)
    \/ CallStep(s) /\ UNCHANGED wsVars

Next ==
    \/ \E s \in Callers : SocketStep(s)
    \/ RedisStep /\ UNCHANGED wsVars
    \/ Restart

Spec == Init /\ [][Next]_vars

\* Each await of a call returns or fails, and handleConnection resumes.
Fairness == \A s \in Callers :
    /\ WF_vars(CallStep(s) /\ UNCHANGED wsVars)
    /\ WF_vars(Admit(s) \/ Refuse(s))

FairSpec == Spec /\ Fairness

-----------------------------------------------------------------------------
(* Properties.                                                             *)

\* Every variable stays in its type.
TypeOK ==
    /\ row \in [Users -> Statuses] /\ entry \in [Users -> Statuses]
    /\ lock \in [Users -> Callers \cup {None}]
    /\ call \in [Callers -> Call]
    /\ writes \in 0..MaxWrites
    /\ pending \subseteq Users /\ lost \subseteq Users /\ overtaken \subseteq Users
    /\ conn \in [Callers -> {"new", "open", "closed"}]
    /\ auth \in [Callers -> {"pending", "admitted", "refused"}]
    /\ nsp \in [Callers -> Namespaces]
    /\ DOMAIN sessions \subseteq Namespaces
    /\ \A n \in DOMAIN sessions : sessions[n] \in [DOMAIN sessions[n] -> SUBSET Callers]
                                  /\ DOMAIN sessions[n] \subseteq Users
    /\ early \subseteq Callers

\* A push to a user reaches every open socket whose handshake was admitted, and of
\* closed ones holds those only that closed while they were being verified: nothing
\* ever removes these from the list.
ListedSockets ==
    /\ \A s \in Callers : conn[s] = "open" /\ auth[s] = "admitted" =>
         s \in GetSockets(nsp[s], call[s].uid)
    /\ \A n \in Namespaces, u \in Users : \A s \in GetSockets(n, u) :
         /\ auth[s] = "admitted" /\ n = nsp[s] /\ u = call[s].uid
         /\ conn[s] = "open" \/ s \in early

\* The three ways to ask who is online agree: a user is listed in a namespace exactly
\* when it has sockets there, and no namespace stays behind empty.
OnlineAgrees ==
    /\ \A n \in Namespaces, u \in Users : u \in ListOnlineUids(n) <=> IsOnline(n, u)
    /\ \A n \in DOMAIN sessions : DOMAIN sessions[n] # {}

\* Every handshake comes to an end, however long another holds the lock: the attempts
\* to get it are counted.
HandshakesEnd == \A s \in Callers : conn[s] = "open" ~> auth[s] # "pending"

=============================================================================
