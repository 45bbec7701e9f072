----------------------------- MODULE ScriptErrors -----------------------------
(***************************************************************************)
(* Scr_CodeCallback_Error (iw1x.cpp 1437-1478): the errors of the scripts  *)
(* and of the library's own functions (stackError) reach the level script. *)
(***************************************************************************)
EXTENDS Integers, Sequences

CONSTANTS
    Errors,         \* error messages
    MaxErrorBuffer, \* MAX_ERROR_BUFFER (64)
    MaxRaised       \* bound on the errors raised

VARIABLES
    scr_errors,  \* the saved errors; scr_errors_index is their number
    emitted,     \* history: the errors CodeCallback_Error was called with
    dropped,     \* history: the errors that found the buffer full
    raised,      \* history: errors raised so far
    frame        \* the parity of the frame number
vars == <<scr_errors, emitted, dropped, raised, frame>>

Init == scr_errors = <<>> /\ emitted = {} /\ dropped = {} /\ raised = 0 /\ frame = 0

Raise == raised < MaxRaised /\ raised' = raised + 1 /\ UNCHANGED frame

\* a terminal error calls the script at once
Emit(e) ==
    /\ Raise
    /\ emitted' = emitted \cup {e}
    /\ UNCHANGED <<scr_errors, dropped>>

\* any other error is saved, while there is room
Save(e) ==
    /\ Raise
    /\ IF Len(scr_errors) < MaxErrorBuffer
       THEN scr_errors' = Append(scr_errors, e) /\ UNCHANGED dropped
       ELSE dropped' = dropped \cup {e} /\ UNCHANGED scr_errors
    /\ UNCHANGED emitted

\* a server frame: nothing in the sources reads scr_errors or resets scr_errors_index
G_RunFrame ==
    /\ frame' = 1 - frame
    /\ UNCHANGED <<scr_errors, emitted, dropped, raised>>

Next == (\E e \in Errors : Emit(e) \/ Save(e)) \/ G_RunFrame

Spec == Init /\ [][Next]_vars

\* the server runs frames for ever
FairSpec == Spec /\ WF_vars(G_RunFrame)
-------------------------------------------------------------------------------
\* What the comment at 1461-1465 says: an error that is not emitted at once is saved "so
\* we can emit it later at G_RunFrame".
SavedIsEmitted ==
    \A e \in Errors : (\E i \in DOMAIN scr_errors : scr_errors[i] = e) ~> e \in emitted
===============================================================================
