------------------------------ MODULE ShelfView ------------------------------
(***************************************************************************)
(* What the attachment service promises to the business modules: a file    *)
(* becomes readable once, goes for good, and not while a business holds it.*)
(***************************************************************************)
CONSTANT Ids     \* attachments

VARIABLES
    shelf,   \* what can be read of each attachment
    pinned   \* the attachments that a business holds

Init == shelf = [a \in Ids |-> "absent"] /\ pinned = {}

Publish(a) ==
    /\ shelf[a] = "absent"
    /\ shelf' = [shelf EXCEPT ![a] = "readable"]
    /\ UNCHANGED pinned

\* Also of an upload that never became readable.
Drop(a) ==
    /\ shelf[a] # "gone" /\ a \notin pinned
    /\ shelf' = [shelf EXCEPT ![a] = "gone"]
    /\ UNCHANGED pinned

Hold ==
    /\ pinned' \subseteq {a \in Ids : shelf[a] = "readable"}
    /\ UNCHANGED shelf

Next == Hold \/ \E a \in Ids : Publish(a) \/ Drop(a)

Spec == Init /\ [][Next]_<<shelf, pinned>>

=============================================================================
