------------------------------ MODULE MCGuard ------------------------------
(* Small instances of Guard: uuids, requests and writes are interchangeable. *)
EXTENDS Guard, TLC

Symmetry == Permutations(Ids) \cup Permutations(Requests) \cup Permutations(Writes)

\* A bound on the instance, not on the code: logouts run against removals only,
\* logins and refreshes against every kind of account write.
LogoutsMeetRemovals ==
    loggedOut # {} \/ (\E r \in Requests : req[r].op = "logout")
        => \A u \in Users : sv[u] = 1 /\ status[u] # "disabled"

=============================================================================
