----------------------------- MODULE PolicyView -----------------------------
(***************************************************************************)
(* What the cached upload policy promises to its readers: an answer is a   *)
(* revision that was stored at some time and is no older than the last     *)
(* change whose invalidation was done when the reader began.               *)
(***************************************************************************)
EXTENDS Naturals

CONSTANTS
    Procs,       \* the processes of the application
    MaxRevision  \* bound on sys_upload_policy.revision

VARIABLES
    row,    \* the stored revision; 0 while the purpose has no policy
    floor,  \* the newest revision whose invalidation is done
    view    \* what each process's reader is doing

Idle == [pc |-> "idle"]
Asked(since) == [pc |-> "asked", since |-> since]
Answer(rev) == [pc |-> "answer", rev |-> rev]

Init == row = 0 /\ floor = 0 /\ view = [p \in Procs |-> Idle]

Store == row < MaxRevision /\ row' = row + 1 /\ UNCHANGED <<floor, view>>

Publish == floor' \in floor..row /\ UNCHANGED <<row, view>>

Ask(p) ==
    /\ view[p] = Idle
    /\ view' = [view EXCEPT ![p] = Asked(floor)]
    /\ UNCHANGED <<row, floor>>

Reply(p) ==
    /\ view[p].pc = "asked"
    /\ \E rev \in view[p].since..row : view' = [view EXCEPT ![p] = Answer(rev)]
    /\ UNCHANGED <<row, floor>>

\* The answer is used, or there is none: a 503, a crash.
Leave(p) ==
    /\ view[p] # Idle
    /\ view' = [view EXCEPT ![p] = Idle]
    /\ UNCHANGED <<row, floor>>

Next == Store \/ Publish \/ \E p \in Procs : Ask(p) \/ Reply(p) \/ Leave(p)

Spec == Init /\ [][Next]_<<row, floor, view>>

=============================================================================
