------------------------------ MODULE TaskQueue ------------------------------
(***************************************************************************)
(* What a script is promised for the asynchronous commands and queries it  *)
(* asks for, whoever runs them and wherever they are kept: a task ends     *)
(* once, with one result or with none, which nothing changes after; if the *)
(* script waits for a result and there is one, the script is called once   *)
(* before the task is forgotten.  How much of the program's output or of   *)
(* the query's rows a result holds is not promised.  A new level waits for *)
(* nothing the old one asked for.                                          *)
(***************************************************************************)
EXTENDS Integers

CONSTANTS
    Ids,           \* the tasks
    Results        \* what a script may be called with

VARIABLES phase,   \* of each task: none, running, done or ended
          result,  \* of each task that is done: one of Results, or none
          wanted,  \* the tasks whose result a script of this level waits for
          calls    \* how often the script was called back for each task
vars == <<phase, result, wanted, calls>>

Init ==
    /\ phase = [t \in Ids |-> "none"]
    /\ result = [t \in Ids |-> "none"]
    /\ wanted = {}
    /\ calls = [t \in Ids |-> 0]

Create(t) ==
    /\ phase[t] = "none"
    /\ phase' = [phase EXCEPT ![t] = "running"]
    /\ wanted' \in {wanted, wanted \cup {t}}
    /\ UNCHANGED <<result, calls>>

Complete(t) ==
    /\ phase[t] = "running"
    /\ phase' = [phase EXCEPT ![t] = "done"]
    /\ \E r \in Results \cup {"none"} : result' = [result EXCEPT ![t] = r]
    /\ UNCHANGED <<wanted, calls>>

CallBack(t) ==
    /\ phase[t] = "done" /\ t \in wanted /\ result[t] \in Results /\ calls[t] = 0
    /\ calls' = [calls EXCEPT ![t] = 1]
    /\ UNCHANGED <<phase, result, wanted>>

Forget(t) ==
    /\ phase[t] = "done"
    /\ t \in wanted /\ result[t] \in Results => calls[t] = 1
    /\ phase' = [phase EXCEPT ![t] = "ended"]
    /\ result' = [result EXCEPT ![t] = "none"]
    /\ wanted' = wanted \ {t}
    /\ UNCHANGED calls

\* the tasks of the old level may be forgotten at once
NewLevel ==
    /\ \E gone \in SUBSET {t \in Ids : phase[t] \in {"running", "done"}} :
          /\ phase' = [t \in Ids |-> IF t \in gone THEN "ended" ELSE phase[t]]
          /\ result' = [t \in Ids |-> IF t \in gone THEN "none" ELSE result[t]]
    /\ wanted' = {}
    /\ UNCHANGED calls

Next == NewLevel \/ \E t \in Ids : Create(t) \/ Complete(t) \/ CallBack(t) \/ Forget(t)

Spec == Init /\ [][Next]_vars
==============================================================================
