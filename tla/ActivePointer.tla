---------------------------- MODULE ActivePointer ----------------------------
(***************************************************************************)
(* What readers of an embedding name are promised.  They follow a pointer  *)
(* to the one space that serves the name.  Every cutover goes straight     *)
(* from a space to the next, and a space that has been replaced never      *)
(* serves again.  The pointer is emptied only when the space it leads to   *)
(* was contested: taken away by one side while the other activated it.     *)
(***************************************************************************)
CONSTANT Spaces

VARIABLES
    serving,   \* the space the name is served from, at most one
    past,      \* the spaces it was served from before
    contested  \* whether somebody was taking it away as it came to serve

Init == serving = {} /\ past = {} /\ contested = FALSE

Switch(s) ==
    /\ s \notin serving \cup past
    /\ serving' = {s}
    /\ past' = past \cup serving
    /\ contested' \in BOOLEAN

Withdraw ==
    /\ serving # {} /\ contested
    /\ serving' = {}
    /\ past' = past \cup serving
    /\ contested' = FALSE

Next == Withdraw \/ \E s \in Spaces : Switch(s)

Spec == Init /\ [][Next]_<<serving, past, contested>>
=============================================================================
