---------------------------- MODULE FileTransfer ----------------------------
(***************************************************************************)
(* What a download promises its client, whatever the network loses: the    *)
(* units of the file in order and without a gap, and success reported only *)
(* for the whole file, unless the server's copy of it is damaged.          *)
(***************************************************************************)
EXTENDS Integers, Sequences

CONSTANT FileSize   \* units in the file; unit i is the number i

VARIABLES got,      \* the units the client has written to its disk
          outcome,  \* how the download went, as the client sees it
          intact    \* whether the server could read the file as it was
vars == <<got, outcome, intact>>

Units(from, size) == [i \in 1..size |-> from + i]

Init == got = <<>> /\ outcome = "running" /\ intact = TRUE

\* the next units arrive
Deliver ==
    /\ outcome = "running"
    /\ \E n \in 1..FileSize - Len(got) : got' = got \o Units(Len(got), n)
    /\ UNCHANGED <<outcome, intact>>

Finish ==
    /\ outcome = "running"
    /\ Len(got) = FileSize \/ ~intact
    /\ outcome' = "done"
    /\ UNCHANGED <<got, intact>>

\* the server refuses, or the player gives up
GiveUp ==
    /\ outcome = "running"
    /\ outcome' \in {"failed", "stopped"}
    /\ UNCHANGED <<got, intact>>

Damage ==
    /\ intact' = FALSE
    /\ UNCHANGED <<got, outcome>>

Next == Deliver \/ Finish \/ GiveUp \/ Damage

Spec == Init /\ [][Next]_vars
=============================================================================
