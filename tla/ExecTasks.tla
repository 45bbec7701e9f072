------------------------------ MODULE ExecTasks ------------------------------
(***************************************************************************)
(* The asynchronous shell commands of gsc_exec.cpp.  Every command has a   *)
(* task in a list and a detached thread of its own, which runs the command *)
(* and fills in the task; execute_async_checkdone, on the main thread,     *)
(* collects the tasks that are done.  There is no lock: the flag done is   *)
(* all that tells the main thread that the other one has finished.  Tasks  *)
(* are numbered as they are created and appended at the tail.  Callbacks   *)
(* do not poll themselves.                                                 *)
(***************************************************************************)
EXTENDS Integers

CONSTANTS
    MaxCreated,  \* bound on the tasks ever created
    MaxLevel     \* bound on the levels ever loaded

ASSUME ExecTasksAssumption == MaxCreated \in Nat /\ MaxLevel \in Nat

Ids == 1..MaxCreated
Null == 0

VARIABLES
    created,  \* the number of the last task
    listed,   \* the tasks in the list first_exec_async_task
    task,     \* the fields of each
    thread,   \* where the thread exec_async of each is
    main,     \* gsc_exec_async_checkdone on the main thread
    level,    \* scrVarPub.levelId
    called    \* history: how often the callback of a task ran
vars == <<created, listed, task, thread, main, level, called>>

NewTask(callback, save) ==
    [callback |-> callback, save |-> save, done |-> FALSE, error |-> FALSE,
     output |-> "none", levelId |-> level]

\* what the model keeps of a task that does not exist
NoTask == [callback |-> FALSE, save |-> FALSE, done |-> FALSE, error |-> FALSE,
           output |-> "none", levelId |-> 0]

Init ==
    /\ created = 0 /\ listed = {}
    /\ task = [t \in Ids |-> NoTask]
    /\ thread = [t \in Ids |-> "none"]
    /\ main = [pc |-> "idle", task |-> Null, next |-> Null]
    /\ level = 0
    /\ called = [t \in Ids |-> 0]

\* the task behind t in the list; behind Null the first one
After(t) ==
    LET later == {u \in listed : u > t}
    IN IF later = {} THEN Null ELSE CHOOSE u \in later : \A v \in later : u <= v

-------------------------------------------------------------------------------
(* The script's calls, which a callback may make too.  A task is listed     *)
(* first; then its thread may fail to start, which the script is told.      *)
AddTask(callback, save) ==
    /\ main.pc \in {"idle", "callback"}
    /\ created < MaxCreated
    /\ created' = created + 1 /\ listed' = listed \cup {created + 1}
    /\ task' = [task EXCEPT ![created + 1] = NewTask(callback, save)]
    /\ \E pc \in {"start", "failed"} : thread' = [thread EXCEPT ![created + 1] = pc]
    /\ UNCHANGED <<main, level, called>>

\* gsc_exec_async_create and gsc_exec_async_create_nosave
Create(callback) == AddTask(callback, TRUE)
CreateNosave(callback) == AddTask(callback, FALSE)

-------------------------------------------------------------------------------
(* exec_async, the thread of task t                                         *)

\* popen fails: the task will never be done
PopenFails(t) ==
    /\ thread[t] = "start"
    /\ thread' = [thread EXCEPT ![t] = "failed"]
    /\ task' = [task EXCEPT ![t].error = TRUE]
    /\ UNCHANGED <<created, listed, main, level, called>>

Popen(t) ==
    /\ thread[t] = "start"
    /\ thread' = [thread EXCEPT ![t] = "read"]
    /\ task' = [task EXCEPT ![t].output = IF task[t].save THEN "part" ELSE "none"]
    /\ UNCHANGED <<created, listed, main, level, called>>

\* The command has closed its output, or a byte 0xFF of it is taken for its end; a line that
\* is too long loses a character.  A command whose output is not wanted is read to the end.
EndOfFile(t) ==
    /\ thread[t] = "read"
    /\ thread' = [thread EXCEPT ![t] = "close"]
    /\ \E output \in IF task[t].save THEN {"all", "cut"} ELSE {"none"} :
          task' = [task EXCEPT ![t].output = output]
    /\ UNCHANGED <<created, listed, main, level, called>>

\* mutant: done before the output has been read
DoneEarly(t) ==
    /\ thread[t] \in {"read", "close"}
    /\ thread' = [thread EXCEPT ![t] = IF @ = "close" THEN "ended" ELSE "read"]
    /\ task' = [task EXCEPT ![t].done = TRUE]
    /\ UNCHANGED <<created, listed, main, level, called>>

\* mutant: only a task whose output is wanted is done
DoneIfSaved(t) ==
    /\ thread[t] = "close"
    /\ thread' = [thread EXCEPT ![t] = "ended"]
    /\ task' = [task EXCEPT ![t].done = task[t].save]
    /\ UNCHANGED <<created, listed, main, level, called>>

\* pclose, and the last access of the thread to its task
Done(t) ==
    /\ thread[t] = "close"
    /\ thread' = [thread EXCEPT ![t] = "ended"]
    /\ task' = [task EXCEPT ![t].done = TRUE]
    /\ UNCHANGED <<created, listed, main, level, called>>

-------------------------------------------------------------------------------
(* gsc_exec_async_checkdone: for each task in turn the next one is read,    *)
(* then the task is left alone, or answered and deleted, or deleted.        *)
BeginCheck ==
    /\ main.pc = "idle"
    /\ main' = [pc |-> "check", task |-> Null, next |-> After(Null)]
    /\ UNCHANGED <<created, listed, task, thread, level, called>>

Visiting(t) == main.pc = "check" /\ main.next = t /\ t # Null
Proceed(t) == main' = [pc |-> "check", task |-> Null, next |-> After(t)]

\* The script system, which Scr_IsSystemActive is about, is active: it has called.
\* A task that is done has no error.
Wanted(t) ==
    task[t].save /\ task[t].callback /\ ~task[t].error /\ task[t].levelId = level

Skip(t) ==
    /\ Visiting(t) /\ ~task[t].done
    /\ Proceed(t)
    /\ UNCHANGED <<created, listed, task, thread, level, called>>

\* Scr_ExecThread of the callback, with the output lines, which are freed
Answer(t) ==
    /\ Visiting(t) /\ task[t].done /\ Wanted(t)
    /\ called' = [called EXCEPT ![t] = @ + 1]
    /\ main' = [pc |-> "callback", task |-> t, next |-> After(t)]
    /\ UNCHANGED <<created, listed, task, thread, level>>

Delete(t) ==
    /\ listed' = listed \ {t}
    /\ task' = [task EXCEPT ![t] = NoTask]

\* the callback has returned, or waits
Return(t) ==
    /\ main.pc = "callback" /\ main.task = t
    /\ Delete(t)
    /\ main' = [main EXCEPT !.pc = "check", !.task = Null]
    /\ UNCHANGED <<created, thread, level, called>>

\* mutant: whether the task is done or not
DiscardUndone(t) ==
    /\ Visiting(t) /\ ~(task[t].done /\ Wanted(t))
    /\ Delete(t)
    /\ Proceed(t)
    /\ UNCHANGED <<created, thread, level, called>>

\* nobody waits for the output; its lines, if any, are not freed
Discard(t) ==
    /\ Visiting(t) /\ task[t].done /\ ~Wanted(t)
    /\ Delete(t)
    /\ Proceed(t)
    /\ UNCHANGED <<created, thread, level, called>>

EndCheck ==
    /\ main.pc = "check" /\ main.next = Null
    /\ main' = [main EXCEPT !.pc = "idle"]
    /\ UNCHANGED <<created, listed, task, thread, level, called>>

\* another level: the list stays
ChangeLevel ==
    /\ main.pc = "idle" /\ level < MaxLevel
    /\ level' = level + 1
    /\ UNCHANGED <<created, listed, task, thread, main, called>>

Thread(t) == PopenFails(t) \/ Popen(t) \/ EndOfFile(t) \/ Done(t)
CheckDone ==
    \/ BeginCheck \/ EndCheck
    \/ \E t \in Ids : Skip(t) \/ Answer(t) \/ Return(t) \/ Discard(t)

Next ==
    \/ \E callback \in BOOLEAN : Create(callback) \/ CreateNosave(callback)
    \/ \E t \in Ids : Thread(t)
    \/ CheckDone
    \/ ChangeLevel

Spec == Init /\ [][Next]_vars

(* Every thread runs, every command ends, the script polls checkdone.       *)
FairSpec == Spec /\ WF_vars(CheckDone) /\ \A t \in Ids : WF_vars(Thread(t))
-------------------------------------------------------------------------------
\* The types of the variables; what is not in the list is not there any more.
TypeOK ==
    /\ created \in 0..MaxCreated /\ listed \subseteq 1..created
    /\ task \in [Ids -> [callback : BOOLEAN, save : BOOLEAN, done : BOOLEAN, error : BOOLEAN,
                         output : {"none", "part", "all", "cut"}, levelId : Nat]]
    /\ \A t \in Ids \ listed : task[t] = NoTask
    /\ thread \in [Ids -> {"none", "start", "read", "close", "ended", "failed"}]
    /\ main \in [pc : {"idle", "check", "callback"},
                 task : Ids \cup {Null}, next : Ids \cup {Null}]
    /\ level \in Nat /\ called \in [Ids -> Nat]

\* A task outlives its thread, and what checkdone read before a callback is still there
\* after it.
NoUseAfterFree ==
    /\ \A t \in Ids : thread[t] \in {"start", "read", "close"} => t \in listed
    /\ main.pc # "idle" => main.next \in listed \cup {Null}
    /\ main.pc = "callback" => main.task \in listed

\* What the script is promised: one call, in its own level, with the output as the thread has
\* left it when it was done with the task, before the task is deleted.  That the output is all
\* the command wrote is not promised (114-119).
Phase(t) ==
    IF t > created THEN "none" ELSE IF t \notin listed THEN "ended"
    ELSE IF task[t].done THEN "done" ELSE "running"
Phases == [t \in Ids |-> Phase(t)]
Outputs == {"all", "cut"}
Result(t) == IF t \in listed /\ task[t].done THEN task[t].output ELSE "none"
Given == [t \in Ids |-> Result(t)]
Awaited == {t \in listed : task[t].save /\ task[t].callback /\ task[t].levelId = level}
Queue == INSTANCE TaskQueue WITH
    Results <- Outputs, phase <- Phases, result <- Given, wanted <- Awaited, calls <- called
ImplementsQueue == Queue!Spec

\* Every task is deleted in the end, unless its thread or its command could not be started.
TaskEnds ==
    \A t \in Ids : t \in listed ~> (t \notin listed \/ thread[t] = "failed")
===============================================================================
