------------------------------- MODULE TreeView -------------------------------
(***************************************************************************)
(* What the writes of a tree table come to, seen from outside: one after   *)
(* the other, at once, and each legal in the table as it is at that moment.*)
(***************************************************************************)
CONSTANTS Nodes, Users, Root

VARIABLES live, gone, leaf, pid, home   \* as in Hierarchy

Parents == Nodes \cup {Root}
Branches == live \ leaf

Init ==
    /\ live \in SUBSET Nodes /\ gone = {}
    /\ leaf \in SUBSET live
    /\ pid \in [Nodes -> Parents]
    /\ \A n \in live : pid[n] # Root => pid[n] \in Branches
    /\ \A S \in SUBSET live : S # {} => \E n \in S : pid[n] \notin S
    /\ home \in [Users -> live \cup {Root}]

\* Branches, n not among them, lead from p to the root.
Clear(p, n) ==
    \E S \in SUBSET (Branches \ {n}) :
        p \in S \cup {Root} /\ \A m \in S : pid[m] \in S \cup {Root}

Childless(n) == \A m \in live : pid[m] # n

\* Row n is put under p, as a branch or a leaf.
Under(n, p) ==
    /\ pid' = [pid EXCEPT ![n] = p]
    /\ leaf' = leaf \ {n} \/ (leaf' = leaf \cup {n} /\ Childless(n))
    /\ Clear(p, n)
    /\ UNCHANGED <<gone, home>>

\* The id of a removed row is never used again.
Add(n, p) == n \notin live \cup gone /\ live' = live \cup {n} /\ Under(n, p)

Move(n, p) == n \in live /\ UNCHANGED live /\ Under(n, p)

Remove(n) ==
    /\ n \in live
    /\ live' = live \ {n} /\ gone' = gone \cup {n} /\ leaf' = leaf \ {n}
    /\ UNCHANGED <<pid, home>>
    /\ Childless(n) /\ \A u \in Users : home[u] # n

Assign(u, n) ==
    /\ home' = [home EXCEPT ![u] = n]
    /\ n \in Branches
    /\ UNCHANGED <<live, gone, leaf, pid>>

Next ==
    \/ \E n \in Nodes, p \in Parents : Add(n, p) \/ Move(n, p)
    \/ \E n \in Nodes : Remove(n)
    \/ \E u \in Users, n \in Nodes : Assign(u, n)

Spec == Init /\ [][Next]_<<live, gone, leaf, pid, home>>

=============================================================================
