--------------------------- MODULE ExecTasks_proofs ---------------------------
(***************************************************************************)
(* Theorems about ExecTasks: for every number of commands, the flag done   *)
(* alone keeps the threads and the main thread from each other's tasks,    *)
(* and every callback runs once, in its level and with the output as the   *)
(* thread has left it when it was done.                                    *)
(***************************************************************************)
EXTENDS ExecTasks, WellFoundedInduction, TLAPS

Task == [callback : BOOLEAN, save : BOOLEAN, done : BOOLEAN, error : BOOLEAN,
         output : {"none", "part", "all", "cut"}, levelId : Nat]
USE DEF Task

\* a task whose output is not written any more
Written(f) == f.output \in (IF f.save THEN Outputs ELSE {"none"})

\* a task is done when its thread has ended, and its output is written before
Threads ==
    \A t \in Ids :
        /\ thread[t] = "none" => t \notin listed
        /\ t > created => thread[t] = "none"
        /\ t \in listed =>
              /\ task[t].done <=> thread[t] = "ended"
              /\ thread[t] # "failed" => ~task[t].error
              /\ thread[t] \in {"close", "ended"} => Written(task[t])
              /\ task[t].levelId <= level

\* a listed task was called back only if its callback is running
Calls ==
    /\ \A t \in Ids :
          /\ called[t] \in {0, 1}
          /\ called[t] = 1 => t <= created
          /\ called[t] = 1 /\ t \in listed => main.pc = "callback" /\ main.task = t
    /\ main.pc = "callback" =>
          /\ called[main.task] = 1 /\ task[main.task].done /\ task[main.task].save
          /\ task[main.task].levelId = level
          /\ main.next # main.task

IInv == TypeOK /\ NoUseAfterFree /\ Threads /\ Calls

\* The list as a set of numbers: where a walk over it goes next (gsc_exec.cpp 344-348).
LEMMA AfterListed ==
    ASSUME listed \subseteq Nat, NEW t \in Nat
    PROVE  /\ After(t) \in listed \cup {Null}
           /\ After(t) # Null => After(t) > t
<1> DEFINE later == {u \in listed : u > t}
<1>1. CASE later = {}
    BY <1>1 DEF After, Null
<1>2. CASE later # {}
  <2>1. \E u \in later : \A v \in later : u <= v
    <3>1. PICK u \in later : \A v \in later : <<v, u>> \notin OpToRel(<, Nat)
        BY <1>2, NatLessThanWellFounded, WFMin
    <3>2. \A v \in later : ~(v < u)
        BY <3>1 DEF OpToRel
    <3> QED
      BY <3>2
  <2>2. After(t) \in later
      BY <1>2, <2>1 DEF After
  <2> QED
      BY <2>2
<1> QED
    BY <1>1, <1>2

\* The tasks in the list have been created.
LEMMA ListedCreated ==
    ASSUME TypeOK
    PROVE  /\ created \in Nat /\ Ids \subseteq Nat /\ Null \notin Ids
           /\ listed \subseteq Nat /\ listed \subseteq Ids
           /\ \A t \in listed : ~(t > created)
           /\ task \in [Ids -> Task]
<1>1. created \in Nat /\ created <= MaxCreated /\ MaxCreated \in Nat
    BY ExecTasksAssumption DEF ExecTasksAssumption, TypeOK
<1> QED
    BY <1>1 DEF TypeOK, Ids, Null

\* A task that does not exist is well-typed.
LEMMA NoTaskType ==
    NoTask \in Task
BY DEF NoTask

\* The initial state satisfies the invariant.
LEMMA InitIInv == Init => IInv
<1> SUFFICES ASSUME Init PROVE IInv
    OBVIOUS
<1>1. TypeOK
  <2>1. /\ task \in [Ids -> Task]
        /\ \A t \in Ids \ listed : task[t] = NoTask
      BY NoTaskType DEF Init
  <2>2. created \in 0..MaxCreated /\ listed \subseteq 1..created
      BY ExecTasksAssumption DEF ExecTasksAssumption, Init
  <2> QED
      BY <2>1, <2>2 DEF Init, TypeOK
<1>2. NoUseAfterFree /\ Threads /\ Calls
    BY DEF Init, NoUseAfterFree, Threads, Calls
<1> QED
    BY <1>1, <1>2 DEF IInv

-------------------------------------------------------------------------------
\* A new task, which callbacks create too, is behind all others and unknown to checkdone.
LEMMA AddTaskKeepsIInv ==
    ASSUME IInv, NEW callback \in BOOLEAN, NEW save \in BOOLEAN, AddTask(callback, save)
    PROVE  IInv'
<1>t. TypeOK /\ NoUseAfterFree /\ Threads /\ Calls
    BY DEF IInv
<1>f. /\ created \in Nat /\ Ids \subseteq Nat /\ Null \notin Ids
      /\ listed \subseteq Nat /\ listed \subseteq Ids
      /\ \A t \in listed : ~(t > created)
      /\ task \in [Ids -> Task]
    BY <1>t, ListedCreated
<1> DEFINE new == created + 1
<1>1. /\ new \in Ids /\ new \notin listed /\ new > created
      /\ created' = new /\ listed' = listed \cup {new}
      /\ task' = [task EXCEPT ![new] = NewTask(callback, save)]
      /\ UNCHANGED <<main, level, called>>
    BY <1>t, <1>f, ExecTasksAssumption DEF AddTask, Ids, ExecTasksAssumption
<1>p. PICK pc \in {"start", "failed"} : thread' = [thread EXCEPT ![new] = pc]
    BY DEF AddTask
<1>2. NewTask(callback, save) \in Task
    BY <1>t DEF NewTask, TypeOK
<1> HIDE DEF new
<1>3. /\ task'[new] = NewTask(callback, save) /\ thread'[new] = pc
      /\ \A t \in Ids : t # new => task'[t] = task[t] /\ thread'[t] = thread[t]
    BY <1>1, <1>p, <1>t, <1>f DEF TypeOK
<1>4. TypeOK'
  <2>1. task' \in [Ids -> Task]
      BY <1>1, <1>2, <1>f
  <2>2. \A t \in Ids \ listed' : task'[t] = NoTask
      BY <1>1, <1>3, <1>t DEF TypeOK
  <2>3. created' \in 0..MaxCreated /\ listed' \subseteq 1..created'
      BY <1>1, <1>f DEF Ids
  <2>4. thread' \in [Ids -> {"none", "start", "read", "close", "ended", "failed"}]
      BY <1>1, <1>p, <1>t DEF TypeOK
  <2> QED
      BY <2>1, <2>2, <2>3, <2>4, <1>1, <1>t DEF TypeOK, NoTask
<1>5. NoUseAfterFree'
    BY <1>1, <1>3, <1>t DEF NoUseAfterFree
<1>6. Threads'
  <2>1. ASSUME NEW t \in Ids, t > created' PROVE t # new /\ t > created
      BY <2>1, <1>1, <1>f
  <2>2. /\ thread'[new] \notin {"none", "close", "ended"}
        /\ ~task'[new].done /\ ~task'[new].error /\ task'[new].levelId <= level'
      BY <1>1, <1>3, <1>t DEF NewTask, TypeOK
  <2> QED
      BY <2>1, <2>2, <1>1, <1>3, <1>t DEF Threads
<1>7. Calls'
  <2>1. main.pc = "callback" => main.task \in listed
      BY <1>t DEF NoUseAfterFree
  <2>2. called[new] # 1
      BY <1>1, <1>t, <1>f DEF Calls
  <2>3. \A t \in Ids : t <= created => t <= created'
      BY <1>1, <1>f
  <2> QED
      BY <2>1, <2>2, <2>3, <1>1, <1>3, <1>t, <1>f DEF Calls
<1> QED
    BY <1>4, <1>5, <1>6, <1>7 DEF IInv

\* The steps of a thread: it writes its own task, which is listed until it is done.
LEMMA ThreadKeepsIInv ==
    ASSUME IInv, NEW t \in Ids, Thread(t)
    PROVE  IInv'
<1>t. TypeOK /\ NoUseAfterFree /\ Threads /\ Calls
    BY DEF IInv
<1>f. /\ created \in Nat /\ Ids \subseteq Nat /\ Null \notin Ids
      /\ listed \subseteq Nat /\ listed \subseteq Ids
      /\ \A u \in listed : ~(u > created)
      /\ task \in [Ids -> Task]
    BY <1>t, ListedCreated
<1>u. UNCHANGED <<created, listed, main, level, called>>
    BY DEF Thread, PopenFails, Popen, EndOfFile, Done
<1>1. /\ thread[t] \in {"start", "read", "close"} /\ t \in listed
      /\ ~task[t].done /\ ~task[t].error /\ task[t] \in Task
    BY <1>t, <1>f DEF Thread, PopenFails, Popen, EndOfFile, Done, NoUseAfterFree, Threads
<1>2. \E pc \in {"read", "close", "ended", "failed"} :
      \E done, error \in BOOLEAN, output \in {"none", "part", "all", "cut"} :
         /\ thread' = [thread EXCEPT ![t] = pc]
         /\ task' = [task EXCEPT ![t] = [task[t] EXCEPT !.done = done, !.error = error,
                                                        !.output = output]]
         /\ done <=> pc = "ended"
         /\ pc # "failed" => ~error
         /\ pc \in {"close", "ended"} =>
               output \in (IF task[t].save THEN Outputs ELSE {"none"})
  <2>1. CASE PopenFails(t)
    <3>1. task' = [task EXCEPT ![t] = [task[t] EXCEPT !.done = FALSE, !.error = TRUE,
                                                      !.output = task[t].output]]
        BY <2>1, <1>1 DEF PopenFails
    <3> QED BY <2>1, <3>1, <1>1 DEF PopenFails
  <2>2. CASE Popen(t)
    <3>1. PICK output \in {"part", "none"} : task' = [task EXCEPT ![t].output = output]
        BY <2>2 DEF Popen
    <3>2. task' = [task EXCEPT ![t] = [task[t] EXCEPT !.done = FALSE, !.error = FALSE,
                                                      !.output = output]]
        BY <3>1, <1>1
    <3> QED BY <2>2, <3>2, <1>1 DEF Popen
  <2>3. CASE EndOfFile(t)
    <3>1. PICK output \in {"all", "cut", "none"} :
             /\ task' = [task EXCEPT ![t].output = output]
             /\ output \in (IF task[t].save THEN Outputs ELSE {"none"})
        BY <2>3 DEF EndOfFile, Outputs
    <3>2. task' = [task EXCEPT ![t] = [task[t] EXCEPT !.done = FALSE, !.error = FALSE,
                                                      !.output = output]]
        BY <3>1, <1>1
    <3> QED BY <2>3, <3>1, <3>2, <1>1 DEF EndOfFile
  <2>4. CASE Done(t)
    <3>1. task' = [task EXCEPT ![t] = [task[t] EXCEPT !.done = TRUE, !.error = FALSE,
                                                      !.output = task[t].output]]
        BY <2>4, <1>1 DEF Done
    <3>2. task[t].output \in (IF task[t].save THEN Outputs ELSE {"none"})
        BY <2>4, <1>1, <1>t DEF Done, Threads, Written
    <3> QED BY <2>4, <3>1, <3>2, <1>1 DEF Done
  <2> QED BY <2>1, <2>2, <2>3, <2>4 DEF Thread
<1>3. PICK pc \in {"read", "close", "ended", "failed"},
           done \in BOOLEAN, error \in BOOLEAN, output \in {"none", "part", "all", "cut"} :
         /\ thread' = [thread EXCEPT ![t] = pc]
         /\ task' = [task EXCEPT ![t] = [task[t] EXCEPT !.done = done, !.error = error,
                                                        !.output = output]]
         /\ done <=> pc = "ended"
         /\ pc # "failed" => ~error
         /\ pc \in {"close", "ended"} =>
               output \in (IF task[t].save THEN Outputs ELSE {"none"})
    BY <1>2
<1> DEFINE new == [task[t] EXCEPT !.done = done, !.error = error, !.output = output]
<1>4. /\ new \in Task /\ new.done = done /\ new.error = error /\ new.output = output
      /\ new.save = task[t].save /\ new.callback = task[t].callback
      /\ new.levelId = task[t].levelId
    BY <1>1
<1>5. task' = [task EXCEPT ![t] = new]
    BY <1>3
<1> HIDE DEF new
<1>6. /\ task'[t] = new /\ thread'[t] = pc
      /\ \A u \in Ids : u # t => task'[u] = task[u] /\ thread'[u] = thread[u]
    BY <1>3, <1>5, <1>t, <1>f DEF TypeOK
<1>7. TypeOK'
  <2>1. task' \in [Ids -> Task]
      BY <1>4, <1>5, <1>f
  <2>2. \A u \in Ids \ listed' : task'[u] = NoTask
      BY <1>u, <1>1, <1>6, <1>t DEF TypeOK
  <2>3. thread' \in [Ids -> {"none", "start", "read", "close", "ended", "failed"}]
      BY <1>3, <1>t DEF TypeOK
  <2> QED
      BY <2>1, <2>2, <2>3, <1>u, <1>t DEF TypeOK, NoTask
<1>8. NoUseAfterFree'
    BY <1>u, <1>1, <1>6, <1>t DEF NoUseAfterFree
<1>9. Threads'
  <2>1. pc \in {"close", "ended"} => Written(new)
      BY <1>3, <1>4 DEF Written
  <2> QED
      BY <2>1, <1>u, <1>1, <1>3, <1>4, <1>6, <1>t, <1>f DEF Threads
<1>10. Calls'
  <2>1. main.pc = "callback" => main.task \in Ids /\ main.task # t
      BY <1>1, <1>t, <1>f DEF Calls, NoUseAfterFree
  <2> QED
      BY <2>1, <1>u, <1>6, <1>t DEF Calls
<1> QED
    BY <1>7, <1>8, <1>9, <1>10 DEF IInv

\* The steps of checkdone: only a task whose thread has ended is deleted.
LEMMA CheckDoneKeepsIInv ==
    ASSUME IInv, CheckDone
    PROVE  IInv'
<1>t. TypeOK /\ NoUseAfterFree /\ Threads /\ Calls
    BY DEF IInv
<1>f. /\ created \in Nat /\ Ids \subseteq Nat /\ Null \notin Ids
      /\ listed \subseteq Nat /\ listed \subseteq Ids
      /\ \A t \in listed : ~(t > created)
      /\ task \in [Ids -> Task]
    BY <1>t, ListedCreated
<1>n. /\ After(Null) \in listed \cup {Null}
      /\ \A t \in Ids : /\ After(t) \in listed \cup {Null}
                        /\ After(t) # t
  <2>1. ASSUME NEW t \in Ids PROVE After(t) \in listed \cup {Null} /\ After(t) # t
      BY <1>f, AfterListed
  <2>2. After(Null) \in listed \cup {Null}
      BY <1>f, AfterListed DEF Null
  <2> QED BY <2>1, <2>2
\* steps that only move on in the list
<1>1. ASSUME main' \in [pc : {"idle", "check"}, task : Ids \cup {Null}, next : listed \cup {Null}],
             main.pc # "callback",
             UNCHANGED <<created, listed, task, thread, level, called>>
      PROVE  IInv'
    BY <1>1, <1>t, <1>f DEF IInv, TypeOK, NoUseAfterFree, Threads, Calls, NoTask
<1>2. CASE BeginCheck
    BY <1>1, <1>2, <1>n DEF BeginCheck
<1>3. CASE EndCheck
    BY <1>1, <1>3, <1>t DEF EndCheck, TypeOK
<1>4. ASSUME NEW t \in Ids, Skip(t) PROVE IInv'
    BY <1>1, <1>4, <1>n DEF Skip, Visiting, Proceed
\* the task a step is about is listed and was not answered yet
<1>v. ASSUME NEW t \in Ids, Visiting(t)
      PROVE  t \in listed /\ main.pc = "check" /\ called[t] = 0 /\ t <= created
    BY <1>v, <1>t, <1>f DEF Visiting, NoUseAfterFree, Calls
<1>5. ASSUME NEW t \in Ids, Answer(t) PROVE IInv'
  <2>1. t \in listed /\ main.pc = "check" /\ called[t] = 0 /\ t <= created
      BY <1>5, <1>v DEF Answer
  <2>2. /\ task[t].done /\ task[t].save /\ task[t].levelId = level
        /\ called' = [called EXCEPT ![t] = 1]
        /\ main' = [pc |-> "callback", task |-> t, next |-> After(t)]
        /\ UNCHANGED <<created, listed, task, thread, level>>
      BY <1>5, <2>1, <1>t DEF Answer, Wanted, TypeOK
  <2>3. called'[t] = 1 /\ \A u \in Ids : u # t => called'[u] = called[u]
      BY <2>2, <1>t DEF TypeOK
  <2>4. TypeOK'
    <3>1. called' \in [Ids -> Nat]
        BY <2>2, <1>t DEF TypeOK
    <3> QED
        BY <3>1, <2>2, <1>n, <1>t, <1>f DEF TypeOK, NoTask
  <2>5. NoUseAfterFree' /\ Threads'
      BY <2>1, <2>2, <1>n, <1>t DEF NoUseAfterFree, Threads
  <2>6. Calls'
      BY <2>1, <2>2, <2>3, <1>n, <1>t DEF Calls
  <2> QED
      BY <2>4, <2>5, <2>6 DEF IInv
\* steps that delete a task that is done
<1>6. ASSUME NEW t \in Ids, t \in listed, task[t].done, Delete(t),
             main.pc = "callback" => main.task = t,
             main' \in [pc : {"check"}, task : {Null}, next : (listed \ {t}) \cup {Null}],
             UNCHANGED <<created, thread, level, called>>
      PROVE  IInv'
  <2>1. /\ listed' = listed \ {t} /\ task' = [task EXCEPT ![t] = NoTask]
        /\ thread[t] = "ended"
      BY <1>6, <1>t DEF Delete, Threads
  <2>2. task'[t] = NoTask /\ \A u \in Ids : u # t => task'[u] = task[u]
      BY <2>1, <1>f
  <2>3. TypeOK'
    <3>1. task' \in [Ids -> Task]
        BY <2>1, <1>f, NoTaskType
    <3>2. \A u \in Ids \ listed' : task'[u] = NoTask
        BY <2>1, <2>2, <1>t DEF TypeOK
    <3> QED
        BY <3>1, <3>2, <2>1, <1>6, <1>t, <1>f DEF TypeOK, NoTask
  <2>4. NoUseAfterFree'
      BY <2>1, <1>6, <1>t DEF NoUseAfterFree
  <2>5. Threads'
      BY <2>1, <2>2, <1>6, <1>t, <1>f DEF Threads
  <2>6. Calls'
      BY <2>1, <2>2, <1>6, <1>t DEF Calls
  <2> QED
      BY <2>3, <2>4, <2>5, <2>6 DEF IInv
<1>7. ASSUME NEW t \in Ids, Return(t) PROVE IInv'
  <2>1. /\ main.pc = "callback" /\ main.task = t /\ t \in listed /\ task[t].done
        /\ main.next \in (listed \ {t}) \cup {Null}
      BY <1>7, <1>t DEF Return, NoUseAfterFree, Calls
  <2>2. main' \in [pc : {"check"}, task : {Null}, next : (listed \ {t}) \cup {Null}]
      BY <1>7, <2>1, <1>t DEF Return, TypeOK
  <2> QED
      BY <1>6, <1>7, <2>1, <2>2 DEF Return
<1>8. ASSUME NEW t \in Ids, Discard(t) PROVE IInv'
  <2>1. t \in listed /\ main.pc = "check"
      BY <1>8, <1>v DEF Discard
  <2>2. main' \in [pc : {"check"}, task : {Null}, next : (listed \ {t}) \cup {Null}]
      BY <1>8, <1>n DEF Discard, Proceed
  <2> QED
      BY <1>6, <1>8, <2>1, <2>2 DEF Discard
<1> QED
    BY <1>2, <1>3, <1>4, <1>5, <1>7, <1>8 DEF CheckDone

\* Between two polls no callback runs, so the level may change under the tasks.
LEMMA ChangeLevelKeepsIInv ==
    ASSUME IInv, ChangeLevel
    PROVE  IInv'
<1>t. TypeOK /\ NoUseAfterFree /\ Threads /\ Calls
    BY DEF IInv
<1>f. listed \subseteq Ids /\ task \in [Ids -> Task]
    BY <1>t, ListedCreated
<1>1. /\ main.pc = "idle" /\ level \in Nat /\ level' = level + 1
      /\ UNCHANGED <<created, listed, task, thread, main, called>>
    BY <1>t DEF ChangeLevel, TypeOK
<1>2. TypeOK' /\ NoUseAfterFree' /\ Calls'
    BY <1>1, <1>t DEF TypeOK, NoUseAfterFree, Calls, NoTask
<1>3. Threads'
  <2>1. \A t \in listed : task[t].levelId <= level => task[t].levelId <= level'
      BY <1>1, <1>f
  <2> QED BY <1>1, <2>1, <1>t DEF Threads
<1> QED
    BY <1>2, <1>3 DEF IInv

-------------------------------------------------------------------------------
\* The inductive invariant of the commands holds in every reachable state.
THEOREM Invariance == Spec => []IInv
<1>1. IInv /\ [Next]_vars => IInv'
  <2> SUFFICES ASSUME IInv, [Next]_vars PROVE IInv'
      OBVIOUS
  <2>1. CASE Next
      BY <2>1, AddTaskKeepsIInv, ThreadKeepsIInv, CheckDoneKeepsIInv, ChangeLevelKeepsIInv
      DEF Next, Create, CreateNosave
  <2>2. CASE UNCHANGED vars
      BY <2>2 DEF vars, IInv, TypeOK, NoUseAfterFree, Threads, Calls, NoTask
  <2> QED
      BY <2>1, <2>2
<1> QED
    BY <1>1, InitIInv, PTL DEF Spec

\* The fields of tasks, the threads and checkdone keep their types.
THEOREM TypeCorrect == Spec => []TypeOK
<1>1. IInv => TypeOK
    BY DEF IInv
<1> QED
    BY <1>1, Invariance, PTL

\* No task is deleted under its thread, or under a walk of checkdone.
THEOREM NoUseAfterFreeHolds == Spec => []NoUseAfterFree
<1>1. IInv => NoUseAfterFree
    BY DEF IInv
<1> QED
    BY <1>1, Invariance, PTL

\* A callback only runs in the level whose script asked for it, for the first time, and never
\* while the thread still reads the output it is called with.
CallbackInContext ==
    main.pc = "callback" =>
        /\ called[main.task] = 1
        /\ task[main.task].output \in Outputs /\ task[main.task].levelId = level

\* A callback runs in the level that asked for it, for the first time, with the output as its
\* thread has left it for good.
THEOREM CallbackInContextHolds == Spec => []CallbackInContext
<1>1. IInv => CallbackInContext
  <2> SUFFICES ASSUME IInv, main.pc = "callback"
               PROVE  /\ called[main.task] = 1
                      /\ task[main.task].output \in Outputs /\ task[main.task].levelId = level
      BY DEF CallbackInContext
  <2>1. main.task \in listed /\ main.task \in Ids
      BY ListedCreated DEF IInv, NoUseAfterFree
  <2> QED
      BY <2>1 DEF IInv, Calls, Threads, Written
<1> QED
    BY <1>1, Invariance, PTL

-------------------------------------------------------------------------------
(* The commands implement TaskQueue.                                        *)

\* A step that touches neither the list nor the fields of its tasks is a stutter.
LEMMA Stutter ==
    ASSUME UNCHANGED <<created, listed, task, level, called>>
    PROVE  UNCHANGED Queue!vars
BY DEF Queue!vars, Phases, Phase, Given, Result, Awaited

\* A step that changes the phase of one task.
LEMMA PhaseStep ==
    ASSUME NEW t \in Ids, NEW p, \A u \in Ids : Phase(u)' = IF u = t THEN p ELSE Phase(u)
    PROVE  Phases' = [Phases EXCEPT ![t] = p] /\ Phases[t] = Phase(t)
BY DEF Phases

\* A step that changes no phase.
LEMMA PhasesKept ==
    ASSUME \A u \in Ids : Phase(u)' = Phase(u)
    PROVE  Phases' = Phases
BY DEF Phases

\* A step that changes the result of one task.
LEMMA ResultStep ==
    ASSUME NEW t \in Ids, NEW r, \A u \in Ids : Result(u)' = IF u = t THEN r ELSE Result(u)
    PROVE  Given' = [Given EXCEPT ![t] = r]
BY DEF Given

\* A step that changes no result.
LEMMA ResultsKept ==
    ASSUME \A u \in Ids : Result(u)' = Result(u)
    PROVE  Given' = Given
BY DEF Given

\* A call of the script creates a task.
LEMMA AddTaskSteps ==
    ASSUME IInv, NEW callback \in BOOLEAN, NEW save \in BOOLEAN, AddTask(callback, save)
    PROVE  \E t \in Ids : Queue!Create(t)
<1>t. TypeOK
    BY DEF IInv
<1>f. created \in Nat /\ Ids \subseteq Nat /\ listed \subseteq Ids /\ task \in [Ids -> Task]
    BY <1>t, ListedCreated
<1> DEFINE new == created + 1
<1>1. /\ new \in Ids /\ new \notin listed
      /\ created' = new /\ listed' = listed \cup {new}
      /\ task' = [task EXCEPT ![new] = NewTask(callback, save)]
      /\ UNCHANGED <<level, called>>
    BY <1>t, <1>f, ExecTasksAssumption DEF AddTask, Ids, ExecTasksAssumption, TypeOK
<1>2. /\ task'[new] = NewTask(callback, save)
      /\ \A t \in Ids : t # new => task'[t] = task[t]
    BY <1>1, <1>f
<1>3. Phases[new] = "none" /\ Phases' = [Phases EXCEPT ![new] = "running"]
  <2>1. \A t \in Ids : Phase(t)' = IF t = new THEN "running" ELSE Phase(t)
      BY <1>1, <1>2, <1>f DEF Phase, NewTask
  <2>2. Phase(new) = "none"
      BY <1>1, <1>f DEF Phase
  <2> HIDE DEF new
  <2> QED BY <1>1, <2>1, <2>2, PhaseStep
<1> HIDE DEF new
<1>4. Given' = Given
  <2>1. \A t \in Ids : Result(t)' = Result(t)
      BY <1>1, <1>2 DEF Result, NewTask
  <2> QED BY <2>1, ResultsKept
<1>5. Awaited' \in {Awaited, Awaited \cup {new}}
  <2>1. Awaited' = IF save /\ callback THEN Awaited \cup {new} ELSE Awaited
      BY <1>1, <1>2, <1>f DEF Awaited, NewTask
  <2> QED BY <2>1
<1>6. Queue!Create(new)
    BY <1>1, <1>3, <1>4, <1>5 DEF Queue!Create
<1> QED BY <1>1, <1>6

\* A thread completes its task in its last step; the script sees none of the others.
LEMMA ThreadSteps ==
    ASSUME IInv, NEW t \in Ids, Thread(t)
    PROVE  Queue!Complete(t) \/ UNCHANGED Queue!vars
<1>t. TypeOK /\ NoUseAfterFree /\ Threads
    BY DEF IInv
<1>f. /\ listed \subseteq Ids /\ task \in [Ids -> Task] /\ \A u \in listed : ~(u > created)
    BY <1>t, ListedCreated
<1>u. UNCHANGED <<created, listed, level, called>>
    BY DEF Thread, PopenFails, Popen, EndOfFile, Done
<1>1. t \in listed /\ ~task[t].done /\ task[t] \in Task
    BY <1>t, <1>f DEF Thread, PopenFails, Popen, EndOfFile, Done, NoUseAfterFree, Threads
<1>2. CASE PopenFails(t) \/ Popen(t) \/ EndOfFile(t)
  <2>1. PICK error \in BOOLEAN, output \in {"none", "part", "all", "cut"} :
           task' = [task EXCEPT ![t] = [task[t] EXCEPT !.error = error, !.output = output]]
    <3>1. CASE PopenFails(t)
      <4>1. task' = [task EXCEPT ![t] = [task[t] EXCEPT !.error = TRUE,
                                                        !.output = task[t].output]]
          BY <3>1, <1>1 DEF PopenFails
      <4> QED BY <4>1, <1>1
    <3>2. CASE Popen(t) \/ EndOfFile(t)
      <4>1. PICK output \in {"none", "part", "all", "cut"} : task' = [task EXCEPT ![t].output = output]
          BY <3>2 DEF Popen, EndOfFile
      <4>2. task' = [task EXCEPT ![t] = [task[t] EXCEPT !.error = task[t].error,
                                                        !.output = output]]
          BY <4>1, <1>1
      <4> QED BY <4>2, <1>1
    <3> QED BY <3>1, <3>2, <1>2
  <2>2. \A u \in Ids : /\ task'[u].done = task[u].done /\ task'[u].save = task[u].save
                       /\ task'[u].callback = task[u].callback
                       /\ task'[u].levelId = task[u].levelId
                       /\ u # t => task'[u] = task[u]
      BY <2>1, <1>1, <1>f
  <2>3. Phases' = Phases
    <3>1. \A u \in Ids : Phase(u)' = Phase(u)
        BY <1>u, <2>2 DEF Phase
    <3> QED BY <3>1, PhasesKept
  <2>4. Given' = Given /\ Awaited' = Awaited
    <3>1. \A u \in Ids : Result(u)' = Result(u)
        BY <1>u, <1>1, <2>2 DEF Result
    <3>2. Awaited' = Awaited
        BY <1>u, <1>1, <2>2, <1>f DEF Awaited
    <3> QED BY <3>1, <3>2, ResultsKept
  <2> QED BY <1>u, <2>3, <2>4 DEF Queue!vars
<1>3. CASE Done(t)
  <2>1. task' = [task EXCEPT ![t].done = TRUE]
      BY <1>3 DEF Done
  <2>2. /\ \A u \in Ids : u # t => task'[u] = task[u]
        /\ task'[t].done /\ task'[t].output = task[t].output /\ task'[t].save = task[t].save
        /\ task'[t].callback = task[t].callback /\ task'[t].levelId = task[t].levelId
      BY <2>1, <1>1, <1>f
  <2>3. Phases[t] = "running" /\ Phases' = [Phases EXCEPT ![t] = "done"]
    <3>1. \A u \in Ids : Phase(u)' = IF u = t THEN "done" ELSE Phase(u)
        BY <1>u, <1>1, <2>2, <1>f DEF Phase
    <3>2. Phase(t) = "running"
        BY <1>1, <1>f DEF Phase
    <3> QED BY <3>1, <3>2, PhaseStep
  <2>4. Awaited' = Awaited
      BY <1>u, <2>2, <1>f DEF Awaited
  <2>5. \E r \in Outputs \cup {"none"} : Given' = [Given EXCEPT ![t] = r]
    <3>1. \A u \in Ids : Result(u)' = IF u = t THEN task[t].output ELSE Result(u)
        BY <1>u, <1>1, <2>2 DEF Result
    <3>2. task[t].output \in Outputs \cup {"none"}
        BY <1>1, <1>3, <1>t DEF Done, Threads, Written
    <3>3. Given' = [Given EXCEPT ![t] = task[t].output]
        BY <3>1, ResultStep
    <3> QED BY <3>2, <3>3
  <2> QED BY <1>u, <2>3, <2>4, <2>5 DEF Queue!Complete
<1> QED
    BY <1>2, <1>3 DEF Thread

\* The steps of checkdone call back or forget a task.
LEMMA CheckDoneSteps ==
    ASSUME IInv, CheckDone
    PROVE  (\E t \in Ids : Queue!CallBack(t) \/ Queue!Forget(t)) \/ UNCHANGED Queue!vars
<1>t. TypeOK /\ NoUseAfterFree /\ Threads /\ Calls
    BY DEF IInv
<1>f. /\ listed \subseteq Ids /\ task \in [Ids -> Task] /\ Null \notin Ids
      /\ \A t \in listed : ~(t > created)
    BY <1>t, ListedCreated
<1>v. ASSUME NEW t \in Ids, Visiting(t)
      PROVE  t \in listed /\ called[t] = 0
    BY <1>v, <1>t, <1>f DEF Visiting, NoUseAfterFree, Calls
<1>1. CASE BeginCheck \/ EndCheck \/ \E t \in Ids : Skip(t)
    BY <1>1, Stutter DEF BeginCheck, EndCheck, Skip
<1>2. ASSUME NEW t \in Ids, Answer(t) PROVE Queue!CallBack(t)
  <2>1. /\ t \in listed /\ called[t] = 0 /\ task[t].done /\ Wanted(t)
        /\ called' = [called EXCEPT ![t] = @ + 1]
        /\ UNCHANGED <<created, listed, task, level>>
      BY <1>2, <1>v DEF Answer
  <2>2. Phases[t] = "done" /\ t \in Awaited /\ Given[t] \in Outputs
    <3>1. task[t].output \in Outputs /\ ~(t > created)
        BY <2>1, <1>t, <1>f DEF Threads, Written, Wanted
    <3> QED BY <2>1, <3>1 DEF Phases, Phase, Awaited, Given, Result, Wanted
  <2>3. called' = [called EXCEPT ![t] = 1]
      BY <2>1
  <2>4. UNCHANGED <<Phases, Given, Awaited>>
      BY <2>1 DEF Phases, Phase, Awaited, Given, Result
  <2> QED BY <2>1, <2>2, <2>3, <2>4 DEF Queue!CallBack
<1>3. ASSUME NEW t \in Ids, t \in listed, task[t].done, Delete(t),
             t \in Awaited => called[t] = 1,
             UNCHANGED <<created, level, called>>
      PROVE  Queue!Forget(t)
  <2>1. listed' = listed \ {t} /\ \A u \in Ids : u # t => task'[u] = task[u]
      BY <1>3 DEF Delete
  <2>2. Phases[t] = "done" /\ Phases' = [Phases EXCEPT ![t] = "ended"]
    <3>1. \A u \in Ids : Phase(u)' = IF u = t THEN "ended" ELSE Phase(u)
        BY <1>3, <2>1, <1>f DEF Phase
    <3>2. Phase(t) = "done"
        BY <1>3, <1>f DEF Phase
    <3> QED BY <3>1, <3>2, PhaseStep
  <2>3. Given' = [Given EXCEPT ![t] = "none"] /\ Awaited' = Awaited \ {t}
    <3>1. \A u \in Ids : Result(u)' = IF u = t THEN "none" ELSE Result(u)
        BY <1>3, <2>1 DEF Result, Delete
    <3>2. Awaited' = Awaited \ {t}
        BY <1>3, <2>1, <1>f DEF Awaited, Delete
    <3> QED BY <3>1, <3>2, ResultStep
  <2> QED BY <1>3, <2>2, <2>3 DEF Queue!Forget
<1>4. ASSUME NEW t \in Ids, Return(t) PROVE Queue!Forget(t)
  <2>1. t \in listed /\ task[t].done /\ called[t] = 1
      BY <1>4, <1>t DEF Return, NoUseAfterFree, Calls
  <2> QED BY <1>3, <1>4, <2>1 DEF Return
<1>5. ASSUME NEW t \in Ids, Discard(t) PROVE Queue!Forget(t)
  <2>1. t \in listed /\ task[t].done /\ ~task[t].error /\ ~Wanted(t)
      BY <1>5, <1>v, <1>t DEF Discard, Threads
  <2>2. t \notin Awaited
      BY <2>1 DEF Awaited, Wanted
  <2> QED BY <1>3, <1>5, <2>1, <2>2 DEF Discard
<1> QED
    BY <1>1, <1>2, <1>4, <1>5 DEF CheckDone

\* A new level waits for no task of an older one.
LEMMA ChangeLevelSteps ==
    ASSUME IInv, ChangeLevel
    PROVE  Queue!NewLevel
<1>1. /\ level \in Nat /\ level' = level + 1 /\ UNCHANGED <<created, listed, task, called>>
    BY DEF ChangeLevel, IInv, TypeOK
<1>2. listed \subseteq Ids /\ task \in [Ids -> Task]
    BY ListedCreated DEF IInv
<1>3. Phases' = Phases /\ Given' = Given
    BY <1>1 DEF Phases, Phase, Given, Result
<1>4. Awaited' = {}
  <2>1. \A t \in listed : task[t].levelId # level'
      BY <1>1, <1>2 DEF IInv, Threads
  <2> QED BY <1>1, <2>1 DEF Awaited
<1>5. /\ Phases' = [t \in Ids |-> IF t \in {} THEN "ended" ELSE Phases[t]]
      /\ Given' = [t \in Ids |-> IF t \in {} THEN "none" ELSE Given[t]]
    BY <1>3 DEF Phases, Given
<1> QED
    BY <1>1, <1>3, <1>4, <1>5 DEF Queue!NewLevel

\* The commands keep what TaskQueue promises: a script that waits for the output of a command
\* that was read is called back once, in its level, with what was read, before the task is
\* forgotten.
THEOREM Refinement == Spec => ImplementsQueue
<1>1. Init => Queue!Init
    BY ExecTasksAssumption
    DEF Init, Queue!Init, Phases, Phase, Given, Result, Awaited, Ids, ExecTasksAssumption
<1>2. IInv /\ [Next]_vars => [Queue!Next]_(Queue!vars)
  <2> SUFFICES ASSUME IInv, [Next]_vars PROVE Queue!Next \/ UNCHANGED Queue!vars
      OBVIOUS
  <2>1. CASE UNCHANGED vars
      BY <2>1, Stutter DEF vars
  <2>2. CASE Next
      BY <2>2, AddTaskSteps, ThreadSteps, CheckDoneSteps, ChangeLevelSteps
      DEF Next, Create, CreateNosave, Queue!Next
  <2> QED BY <2>1, <2>2
<1> QED
    BY <1>1, <1>2, Invariance, PTL DEF Spec, Queue!Spec, ImplementsQueue
===============================================================================
