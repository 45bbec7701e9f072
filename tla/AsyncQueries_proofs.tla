------------------------- MODULE AsyncQueries_proofs -------------------------
(***************************************************************************)
(* Theorems about AsyncQueries: for every number of databases, tasks and   *)
(* stores, the worker and the main thread share the list of tasks without  *)
(* a dangling pointer, and every callback runs once and with what its task *)
(* has kept of a query that gave no error.                                 *)
(***************************************************************************)
EXTENDS AsyncQueries, FiniteSetTheorems, WellFoundedInduction, TLAPS

USE DEF Task

\* a listed task is of an open database
OfOpenDatabase == \A t \in listed : task[t].db \in databases

\* a task that failed, or holds what it keeps of its query
Settled(f) == f.error \/ f.rows \in (IF f.callback THEN Kept ELSE {"none"})

\* the worker's task is not done before its result is written
AtWork ==
    worker.pc \in {"execute", "finish"} =>
        /\ ~task[worker.task].done
        /\ worker.pc = "finish" => Settled(task[worker.task])

\* a task that is done has its result, one to be removed was answered if it had to be
Results ==
    \A t \in listed :
        /\ task[t].done => Settled(task[t])
        /\ task[t].remove => task[t].done
        /\ task[t].remove /\ task[t].callback /\ ~task[t].error => called[t] = 1

\* a callback that was called belongs to a task that is marked, or is running
Calls ==
    /\ \A t \in Ids :
          /\ called[t] \in {0, 1}
          /\ called[t] = 1 => t <= created
          /\ called[t] = 1 /\ t \in listed =>
                task[t].remove \/ (main.pc = "callback" /\ main.task = t)
    /\ main.pc = "callback" =>
          /\ task[main.task].done /\ ~task[main.task].error /\ task[main.task].callback
          /\ called[main.task] = 1

IInv ==
    /\ TypeOK /\ NoUseAfterFree /\ ListBounded
    /\ OfOpenDatabase /\ AtWork /\ Results /\ Calls

\* The list as a set of numbers: where a walk over it goes next (gsc_sqlite.cpp 659-660).
LEMMA AfterListed ==
    ASSUME listed \subseteq Nat, NEW t \in Nat
    PROVE  /\ After(t) \in listed \cup {Null}
           /\ After(t) # Null => After(t) > t
<1> DEFINE later == {u \in listed : u > t}
<1>1. CASE later = {}
    BY <1>1 DEF After, Null
<1>2. CASE later # {}
  <2>1. \E u \in later : \A v \in later : u <= v
    <3>1. PICK u \in later : \A v \in later : <<v, u>> \notin OpToRel(<, Nat)
        BY <1>2, NatLessThanWellFounded, WFMin
    <3>2. \A v \in later : ~(v < u)
        BY <3>1 DEF OpToRel
    <3> QED
      BY <3>2
  <2>2. After(t) \in later
      BY <1>2, <2>1 DEF After
  <2> QED
      BY <2>2
<1> QED
    BY <1>1, <1>2

\* The tasks in the list are numbers, and there are finitely many.
LEMMA ListedFinite ==
    ASSUME TypeOK
    PROVE  /\ listed \subseteq Nat /\ listed \subseteq Ids
           /\ IsFiniteSet(listed) /\ Cardinality(listed) \in Nat
<1>1. created \in Nat /\ created <= MaxCreated /\ MaxCreated \in Nat
    BY AsyncQueriesAssumption DEF AsyncQueriesAssumption, TypeOK
<1>2. listed \subseteq 1..created
    BY DEF TypeOK
<1>3. IsFiniteSet(1..created)
    BY <1>1, FS_Interval
<1>4. IsFiniteSet(listed)
    BY <1>2, <1>3, FS_Subset
<1>5. listed \subseteq Nat /\ listed \subseteq Ids
    BY <1>1, <1>2 DEF Ids
<1> QED
    BY <1>4, <1>5, FS_CardinalityType

\* A task that does not exist is well-typed.
LEMMA NoTaskType ==
    NoTask \in Task
<1>1. (CHOOSE db \in Databases : TRUE) \in Databases
    BY AsyncQueriesAssumption DEF AsyncQueriesAssumption
<1> QED
    BY <1>1 DEF NoTask, NewTask

\* The initial state satisfies the invariant.
LEMMA InitIInv == Init => IInv
<1> SUFFICES ASSUME Init PROVE IInv
    OBVIOUS
<1>1. TypeOK
  <2>1. /\ task \in [Ids -> Task]
        /\ \A t \in Ids \ listed : task[t] = NoTask
      BY NoTaskType DEF Init
  <2>2. created \in 0..MaxCreated /\ listed \subseteq 1..created
      BY AsyncQueriesAssumption DEF AsyncQueriesAssumption, Init
  <2> QED
      BY <2>1, <2>2 DEF Init, TypeOK
<1>2. ListBounded
    BY FS_EmptySet, AsyncQueriesAssumption DEF AsyncQueriesAssumption, Init, ListBounded
<1>3. NoUseAfterFree /\ OfOpenDatabase /\ AtWork /\ Results /\ Calls
    BY DEF Init, NoUseAfterFree, OfOpenDatabase, AtWork, Results, Calls
<1> QED
    BY <1>1, <1>2, <1>3 DEF IInv

-------------------------------------------------------------------------------
\* The script's calls keep the invariant: a new task is behind all others and a closed
\* database has no task.
LEMMA ScriptKeepsIInv ==
    ASSUME IInv, Script
    PROVE  IInv'
<1>t. TypeOK /\ NoUseAfterFree /\ ListBounded /\ OfOpenDatabase /\ AtWork /\ Results /\ Calls
    BY DEF IInv
<1>f. /\ listed \subseteq Nat /\ listed \subseteq Ids
      /\ IsFiniteSet(listed) /\ Cardinality(listed) \in Nat
    BY <1>t, ListedFinite
<1>1. CASE Initialize
    BY <1>1, <1>t DEF Initialize, IInv, TypeOK, NoUseAfterFree, ListBounded, OfOpenDatabase,
       AtWork, Results, Calls, NoTask, NewTask
<1>2. ASSUME NEW db \in Databases, Open(db) \/ (Unused(db) /\ Close(db)) PROVE IInv'
  <2>1. databases' \subseteq Databases /\ \A t \in listed : task[t].db \in databases'
      BY <1>2, <1>t DEF Open, Close, Unused, TypeOK, OfOpenDatabase
  <2>2. UNCHANGED <<created, listed, task, worker, main, called, crashed>>
      BY <1>2 DEF Open, Close
  <2> QED
      BY <2>1, <2>2, <1>t DEF IInv, TypeOK, NoUseAfterFree, ListBounded, OfOpenDatabase,
         AtWork, Results, Calls, NoTask, NewTask
<1>3. ASSUME NEW db \in Databases, NEW callback \in BOOLEAN, AddTask(db, callback)
      PROVE  IInv'
  <2> DEFINE new == created + 1
  <2>1. /\ created \in Nat /\ new \in Nat /\ new \in Ids /\ new \notin listed /\ new > created
        /\ created' = new /\ listed' = listed \cup {new} /\ db \in databases
        /\ task' = [task EXCEPT ![new] = NewTask(db, callback)]
        /\ UNCHANGED <<databases, worker, main, called, crashed>>
      BY <1>3, <1>t, AsyncQueriesAssumption
      DEF AddTask, TypeOK, Ids, AsyncQueriesAssumption
  <2>2. task \in [Ids -> Task]
      BY <1>t DEF TypeOK
  <2>3. /\ task'[new] = NewTask(db, callback)
        /\ \A t \in Ids : t # new => task'[t] = task[t]
      BY <2>1, <2>2
  <2> HIDE DEF new
  <2>4. TypeOK'
    <3>1. task' \in [Ids -> Task]
        BY <2>1, <2>2 DEF NewTask
    <3>2. \A t \in Ids \ listed' : task'[t] = NoTask
        BY <2>1, <2>3, <1>t DEF TypeOK
    <3>3. created' \in 0..MaxCreated /\ listed' \subseteq 1..created'
        BY <2>1, <1>t DEF TypeOK, Ids
    <3> QED
        BY <3>1, <3>2, <3>3, <2>1, <1>t DEF TypeOK, NoTask, NewTask
  <2>5. ListBounded'
    <3>1. Cardinality(listed') = Cardinality(listed) + 1
        BY <2>1, <1>f, FS_AddElement
    <3>2. Cardinality(listed) - 1 <= MaxTasks - 2
        BY <1>3 DEF AddTask, HasRoom
    <3> QED
        BY <3>1, <3>2, <1>f, AsyncQueriesAssumption DEF AsyncQueriesAssumption, ListBounded
  <2>6. NoUseAfterFree' /\ OfOpenDatabase' /\ AtWork'
      BY <2>1, <2>3, <1>t, <1>f DEF NoUseAfterFree, OfOpenDatabase, AtWork, NewTask
  <2>7. Results'
      BY <2>1, <2>3, <1>t, <1>f DEF Results, NewTask
  <2>8. Calls'
    <3>1. main.pc = "callback" => main.task \in listed
        BY <1>t DEF NoUseAfterFree
    <3> QED
        BY <2>1, <2>3, <3>1, <1>t, <1>f DEF Calls
  <2> QED
      BY <2>4, <2>5, <2>6, <2>7, <2>8 DEF IInv
<1> QED
    BY <1>1, <1>2, <1>3
    DEF Script, CreateQuery, CreateQueryNosave, CreateEntityQuery, CreateEntityQueryNosave

\* The steps of checkdone keep the invariant.
LEMMA CheckDoneKeepsIInv ==
    ASSUME IInv, CheckDone
    PROVE  IInv'
<1>t. TypeOK /\ NoUseAfterFree /\ ListBounded /\ OfOpenDatabase /\ AtWork /\ Results /\ Calls
    BY DEF IInv
<1>f. /\ listed \subseteq Nat /\ listed \subseteq Ids
      /\ IsFiniteSet(listed) /\ Cardinality(listed) \in Nat
    BY <1>t, ListedFinite
<1>n. /\ After(Null) \in listed \cup {Null}
      /\ \A t \in Ids : /\ After(t) \in listed \cup {Null}
                        /\ After(t) # Null => After(t) > t
    BY <1>f, AfterListed DEF Ids, Null
<1>d. task \in [Ids -> Task]
    BY <1>t DEF TypeOK
\* steps that only move on in the list
<1>1. ASSUME main' \in [pc : {"idle", "check"}, task : {Null}, next : listed \cup {Null}],
             main.pc # "callback",
             UNCHANGED <<created, listed, task, databases, worker, called, crashed>>
      PROVE  IInv'
    BY <1>1, <1>t, <1>f DEF IInv, TypeOK, NoUseAfterFree, ListBounded, OfOpenDatabase,
       AtWork, Results, Calls, NoTask, NewTask
<1>2. CASE BeginCheck
    BY <1>1, <1>2, <1>n DEF BeginCheck
<1>3. CASE EndCheck
    BY <1>3, <1>t DEF EndCheck, IInv, TypeOK, NoUseAfterFree, ListBounded, OfOpenDatabase,
       AtWork, Results, Calls, NoTask, NewTask
<1>4. ASSUME NEW t \in Ids, Skip(t) PROVE IInv'
    BY <1>1, <1>4, <1>n DEF Skip, Visiting, Proceed
\* the task a step is about is listed, and was not answered yet unless it is marked
<1>v. ASSUME NEW t \in Ids, Visiting(t)
      PROVE  t \in listed /\ main.pc = "check" /\ (called[t] = 1 => task[t].remove)
    BY <1>v, <1>t DEF Visiting, NoUseAfterFree, Calls
<1>5. ASSUME NEW t \in Ids, Answer(t) PROVE IInv'
  <2>1. /\ t \in listed /\ main.pc = "check" /\ called[t] = 0 /\ t <= created
        /\ task[t].done /\ ~task[t].error /\ ~task[t].remove /\ task[t].callback
    <3>1. t \in listed /\ main.pc = "check" /\ (called[t] = 1 => task[t].remove)
        BY <1>5, <1>v DEF Answer
    <3>2. task[t].done /\ ~task[t].error /\ ~task[t].remove /\ task[t].callback
        BY <1>5 DEF Answer
    <3>3. called[t] \in {0, 1} /\ t \in 1..created
        BY <3>1, <1>t DEF Calls, TypeOK
    <3> QED
        BY <3>1, <3>2, <3>3, <1>t DEF TypeOK
  <2>2. /\ called' = [called EXCEPT ![t] = 1]
        /\ main' = [pc |-> "callback", task |-> t, next |-> After(t)]
        /\ UNCHANGED <<created, listed, task, databases, worker, crashed>>
      BY <1>5, <2>1, <1>t DEF Answer, TypeOK
  <2>3. TypeOK' /\ NoUseAfterFree' /\ ListBounded' /\ OfOpenDatabase' /\ AtWork'
    <3>1. TypeOK'
      <4>1. called' \in [Ids -> Nat]
          BY <2>2, <1>t DEF TypeOK
      <4>2. main' \in [pc : {"idle", "check", "callback"},
                      task : Ids \cup {Null}, next : Ids \cup {Null}]
          BY <2>2, <1>n, <1>f
      <4> QED
          BY <4>1, <4>2, <2>2, <1>t DEF TypeOK, NoTask, NewTask
    <3>2. NoUseAfterFree'
        BY <2>1, <2>2, <1>n, <1>t DEF NoUseAfterFree
    <3>3. ListBounded' /\ OfOpenDatabase' /\ AtWork'
        BY <2>2, <1>t DEF ListBounded, OfOpenDatabase, AtWork
    <3> QED
        BY <3>1, <3>2, <3>3
  <2>4. called'[t] = 1 /\ \A u \in Ids : u # t => called'[u] = called[u]
      BY <2>2, <1>t DEF TypeOK
  <2>5. Results' /\ Calls'
      BY <2>1, <2>2, <2>4, <1>t, <1>f DEF Results, Calls
  <2> QED
      BY <2>3, <2>5 DEF IInv
\* steps that mark a task that is done and has been answered if it had to be
<1>6. ASSUME NEW t \in Ids, t \in listed, task[t].done,
             task[t].callback /\ ~task[t].error => called[t] = 1,
             main.pc = "callback" => main.task = t,
             main' \in [pc : {"check"}, task : {Null}, next : listed \cup {Null}],
             task' = [task EXCEPT ![t].remove = TRUE],
             UNCHANGED <<created, listed, databases, worker, called, crashed>>
      PROVE  IInv'
  <2>1. /\ task'[t] = [task[t] EXCEPT !.remove = TRUE]
        /\ \A u \in Ids : u # t => task'[u] = task[u]
      BY <1>6, <1>d
  <2>2. /\ task'[t].remove = TRUE /\ task'[t].db = task[t].db
        /\ task'[t].done = task[t].done /\ task'[t].error = task[t].error
        /\ task'[t].callback = task[t].callback /\ task'[t].rows = task[t].rows
        /\ Settled(task'[t]) = Settled(task[t])
      BY <2>1, <1>d DEF Settled
  <2>3. TypeOK'
    <3>1. task' \in [Ids -> Task]
      <4>1. [task[t] EXCEPT !.remove = TRUE]
                \in Task
          BY <1>d
      <4>2. task' = [task EXCEPT ![t] = [task[t] EXCEPT !.remove = TRUE]]
          BY <1>6
      <4> QED
          BY <4>1, <4>2, <1>d
    <3>2. \A u \in Ids \ listed' : task'[u] = NoTask
        BY <1>6, <2>1, <1>t DEF TypeOK
    <3> QED
        BY <3>1, <3>2, <1>6, <1>t, <1>f DEF TypeOK, NoTask, NewTask
  <2>4. NoUseAfterFree' /\ OfOpenDatabase'
      BY <1>6, <2>1, <2>2, <1>t, <1>f DEF NoUseAfterFree, OfOpenDatabase
  <2>5. AtWork'
    <3>1. worker.pc \in {"execute", "finish"} => worker.task \in listed /\ worker.task # t
        BY <1>6, <1>t DEF NoUseAfterFree, AtWork
    <3> QED
        BY <3>1, <1>6, <2>1, <1>t, <1>f DEF AtWork
  <2>6. Results' /\ Calls' /\ ListBounded'
      BY <1>6, <2>1, <2>2, <1>t, <1>f DEF Results, Calls, ListBounded
  <2> QED
      BY <2>3, <2>4, <2>5, <2>6 DEF IInv
<1>7. ASSUME NEW t \in Ids, Return(t) PROVE IInv'
  <2>1. /\ main.pc = "callback" /\ main.task = t /\ t \in listed
        /\ task[t].done /\ called[t] = 1
      BY <1>7, <1>t DEF Return, NoUseAfterFree, Calls
  <2>2. /\ task' = [task EXCEPT ![t].remove = TRUE]
        /\ main' \in [pc : {"check"}, task : {Null}, next : listed \cup {Null}]
        /\ UNCHANGED <<created, listed, databases, worker, called, crashed>>
      BY <1>7, <1>t DEF Return, TypeOK, NoUseAfterFree
  <2> QED
      BY <2>1, <2>2, <1>6
<1>8. ASSUME NEW t \in Ids, Mark(t) PROVE IInv'
  <2>1. t \in listed /\ task[t].done /\ (task[t].error \/ ~task[t].callback) /\ main.pc = "check"
      BY <1>8, <1>v DEF Mark
  <2>2. /\ task' = [task EXCEPT ![t].remove = TRUE]
        /\ main' \in [pc : {"check"}, task : {Null}, next : listed \cup {Null}]
        /\ UNCHANGED <<created, listed, databases, worker, called, crashed>>
      BY <1>8, <1>n DEF Mark, Proceed
  <2> QED
      BY <2>1, <2>2, <1>6
<1>9. ASSUME NEW t \in Ids, Unlink(t) PROVE IInv'
  <2>1. /\ t \in listed /\ main.pc = "check" /\ worker.pc \in {"none", "sleep"}
        /\ listed' = listed \ {t} /\ task' = Deleted({t})
        /\ main' = [pc |-> "check", task |-> Null, next |-> After(t)]
        /\ UNCHANGED <<created, databases, worker, called, crashed>>
      BY <1>9, <1>v DEF Unlink, Proceed, TryLock
  <2>2. After(t) \in listed' \cup {Null}
      BY <2>1, <1>n, <1>f
  <2>3. task'[t] = NoTask /\ \A u \in Ids : u # t => task'[u] = task[u]
      BY <2>1 DEF Deleted
  <2>4. TypeOK'
    <3>1. task' \in [Ids -> Task]
        BY <2>1, <1>d, NoTaskType DEF Deleted
    <3>2. \A u \in Ids \ listed' : task'[u] = NoTask
        BY <2>1, <2>3, <1>t DEF TypeOK
    <3> QED
        BY <3>1, <3>2, <2>1, <2>2, <1>t, <1>f DEF TypeOK, NoTask, NewTask
  <2>5. ListBounded'
    <3>1. Cardinality(listed') = Cardinality(listed) - 1
        BY <2>1, <1>f, FS_RemoveElement
    <3> QED
        BY <3>1, <1>f, <1>t, AsyncQueriesAssumption DEF ListBounded, AsyncQueriesAssumption
  <2>6. NoUseAfterFree' /\ OfOpenDatabase' /\ AtWork'
      BY <2>1, <2>2, <2>3, <1>t, <1>f DEF NoUseAfterFree, OfOpenDatabase, AtWork
  <2>7. Results' /\ Calls'
      BY <2>1, <2>3, <1>t, <1>f DEF Results, Calls
  <2> QED
      BY <2>4, <2>5, <2>6, <2>7 DEF IInv
<1> QED
    BY <1>2, <1>3, <1>4, <1>5, <1>7, <1>8, <1>9 DEF CheckDone

\* A new level, which waits for the mutex, frees everything.
LEMMA SpawnServerKeepsIInv ==
    ASSUME IInv, SpawnServer
    PROVE  IInv'
<1>t. TypeOK /\ NoUseAfterFree /\ Calls
    BY DEF IInv
<1>1. /\ main.pc = "idle" /\ worker.pc \in {"none", "sleep"}
      /\ listed' = {} /\ task' = Deleted(listed) /\ databases' = {}
      /\ crashed' \in BOOLEAN /\ UNCHANGED <<created, worker, main, called>>
    BY DEF SpawnServer, TryLock
<1>2. TypeOK'
  <2>1. task' \in [Ids -> Task]
      BY <1>1, <1>t, NoTaskType DEF Deleted, TypeOK
  <2>2. \A u \in Ids : task'[u] = NoTask
      BY <1>1, <1>t DEF Deleted, TypeOK
  <2> QED
      BY <2>1, <2>2, <1>1, <1>t DEF TypeOK, NoTask, NewTask
<1>3. ListBounded'
    BY <1>1, FS_EmptySet, AsyncQueriesAssumption DEF ListBounded, AsyncQueriesAssumption
<1>4. NoUseAfterFree' /\ OfOpenDatabase' /\ AtWork' /\ Results' /\ Calls'
    BY <1>1, <1>t DEF NoUseAfterFree, OfOpenDatabase, AtWork, Results, Calls
<1> QED
    BY <1>2, <1>3, <1>4 DEF IInv

\* The steps of the worker keep the invariant: it writes a task that is not done and that
\* therefore nobody marks or deletes.
LEMMA WorkerKeepsIInv ==
    ASSUME IInv, Worker
    PROVE  IInv'
<1>t. TypeOK /\ NoUseAfterFree /\ ListBounded /\ OfOpenDatabase /\ AtWork /\ Results /\ Calls
    BY DEF IInv
<1>f. listed \subseteq Nat /\ listed \subseteq Ids
    BY <1>t, ListedFinite
<1>n. /\ After(Null) \in listed \cup {Null}
      /\ \A t \in Ids : After(t) \in listed \cup {Null}
    BY <1>f, AfterListed DEF Ids, Null
<1>d. task \in [Ids -> Task]
    BY <1>t DEF TypeOK
\* steps that only move on in the list
<1>1. ASSUME worker' \in [pc : {"sleep", "walk", "execute"}, task : Ids \cup {Null},
                          next : listed \cup {Null}],
             worker'.pc = "execute" => worker'.task \in listed /\ ~task[worker'.task].done,
             UNCHANGED <<created, listed, task, databases, main, called, crashed>>
      PROVE  IInv'
  <2>1. TypeOK'
      BY <1>1, <1>t, <1>f DEF TypeOK, NoTask, NewTask
  <2>2. NoUseAfterFree' /\ AtWork'
      BY <1>1, <1>t DEF NoUseAfterFree, AtWork, OfOpenDatabase
  <2>3. ListBounded' /\ OfOpenDatabase' /\ Results' /\ Calls'
      BY <1>1, <1>t DEF ListBounded, OfOpenDatabase, Results, Calls
  <2> QED
      BY <2>1, <2>2, <2>3 DEF IInv
<1>2. CASE Lock
    BY <1>1, <1>2, <1>n DEF Lock
<1>3. CASE Visit
  <2>1. worker.next \in listed /\ worker.next \in Ids
      BY <1>3, <1>t, <1>f DEF Visit, NoUseAfterFree
  <2>2. After(worker.next) \in listed \cup {Null}
      BY <2>1, <1>n
  <2>3. CASE task[worker.next].done
      BY <1>1, <1>3, <2>2, <2>3, <1>t DEF Visit, TypeOK
  <2>4. CASE ~task[worker.next].done
      BY <1>1, <1>3, <2>1, <2>2, <2>4 DEF Visit
  <2> QED
      BY <2>3, <2>4
<1>4. CASE Unlock
    BY <1>1, <1>4, <1>t DEF Unlock, TypeOK
\* steps that write the fields of the worker's task
<1>5. ASSUME NEW t \in Ids, t = worker.task, worker.pc \in {"execute", "finish"},
             NEW new \in Task, task' = [task EXCEPT ![t] = new],
             new.db = task[t].db, new.remove = task[t].remove,
             new.done => Settled(new),
             worker' \in [pc : {"walk", "finish"}, task : Ids \cup {Null},
                          next : {worker.next}],
             worker'.pc = "finish" => /\ worker'.task = t /\ ~new.done
                                      /\ Settled(new),
             UNCHANGED <<created, listed, databases, main, called, crashed>>
      PROVE  IInv'
  <2>1. t \in listed /\ ~task[t].done /\ ~task[t].remove
      BY <1>5, <1>t DEF NoUseAfterFree, AtWork, Results
  <2>2. task'[t] = new /\ \A u \in Ids : u # t => task'[u] = task[u]
      BY <1>5, <1>d
  <2>3. TypeOK'
    <3>1. task' \in [Ids -> Task]
        BY <1>5, <1>d
    <3>2. \A u \in Ids \ listed' : task'[u] = NoTask
        BY <1>5, <2>1, <2>2, <1>t DEF TypeOK
    <3>3. worker' \in [pc : {"none", "sleep", "walk", "execute", "finish"},
                       task : Ids \cup {Null}, next : Ids \cup {Null}]
        BY <1>5, <1>t DEF TypeOK
    <3> QED
        BY <3>1, <3>2, <3>3, <1>5, <1>t DEF TypeOK, NoTask, NewTask
  <2>4. NoUseAfterFree' /\ OfOpenDatabase'
      BY <1>5, <2>1, <2>2, <1>t, <1>f DEF NoUseAfterFree, OfOpenDatabase
  <2>5. AtWork' /\ ListBounded'
      BY <1>5, <2>2, <1>t DEF AtWork, ListBounded
  <2>6. Results'
      BY <1>5, <2>1, <2>2, <1>t, <1>f DEF Results
  <2>7. Calls'
    <3>1. main.pc = "callback" => main.task \in Ids /\ main.task # t
        BY <2>1, <1>t, <1>f DEF Calls, NoUseAfterFree
    <3> QED
        BY <3>1, <1>5, <2>1, <2>2, <1>t DEF Calls
  <2> QED
      BY <2>3, <2>4, <2>5, <2>6, <2>7 DEF IInv
<1>6. CASE Execute
  <2>1. /\ worker.pc = "execute" /\ worker.task \in Ids /\ worker.task \in listed
        /\ ~task[worker.task].done /\ worker' = [worker EXCEPT !.pc = "finish"]
        /\ UNCHANGED <<created, listed, databases, main, called, crashed>>
      BY <1>6, <1>t, <1>f DEF Execute, NoUseAfterFree, AtWork
  <2>2. PICK statement \in {"null", "finalized"}, rows \in {"none", "some"} \cup Kept,
             error \in BOOLEAN :
             /\ error \/ rows \in KeptBy(worker.task)
             /\ task' = Executed(statement, rows, error)
      BY <1>6 DEF Execute, KeptBy
  <2> DEFINE new == [task[worker.task] EXCEPT !.statement = statement, !.rows = rows,
                                              !.error = error]
  <2>3. /\ new \in Task /\ new.db = task[worker.task].db
        /\ new.remove = task[worker.task].remove /\ ~new.done
        /\ Settled(new)
      BY <2>1, <2>2, <1>d DEF Settled, KeptBy
  <2>4. task' = [task EXCEPT ![worker.task] = new]
      BY <2>2 DEF Executed
  <2>5. /\ worker' \in [pc : {"walk", "finish"}, task : Ids \cup {Null}, next : {worker.next}]
        /\ worker'.task = worker.task
      BY <2>1, <1>t DEF TypeOK
  <2> HIDE DEF new
  <2> QED
      BY <2>1, <2>3, <2>4, <2>5, <1>5
<1>7. CASE Finish
  <2>1. /\ worker.pc = "finish" /\ worker.task \in Ids
        /\ Settled(task[worker.task])
        /\ worker' = [worker EXCEPT !.pc = "walk", !.task = Null]
        /\ UNCHANGED <<created, listed, databases, main, called, crashed>>
      BY <1>7, <1>t, <1>f DEF Finish, NoUseAfterFree, AtWork
  <2> DEFINE new == [task[worker.task] EXCEPT !.done = TRUE]
  <2>2. /\ new \in Task /\ new.db = task[worker.task].db
        /\ new.remove = task[worker.task].remove /\ Settled(new)
    <3> DEFINE old == task[worker.task]
    <3>1. old \in Task /\ Settled(old)
        BY <2>1, <1>d
    <3> HIDE DEF old
    <3>2. /\ [old EXCEPT !.done = TRUE] \in Task
          /\ [old EXCEPT !.done = TRUE].db = old.db
          /\ [old EXCEPT !.done = TRUE].remove = old.remove
          /\ [old EXCEPT !.done = TRUE].error = old.error
          /\ [old EXCEPT !.done = TRUE].rows = old.rows
          /\ [old EXCEPT !.done = TRUE].callback = old.callback
        BY <3>1
    <3>3. new = [old EXCEPT !.done = TRUE]
        BY DEF old
    <3> HIDE DEF new
    <3>4. Settled(new)
        BY <3>1, <3>2, <3>3 DEF Settled
    <3> QED BY <3>2, <3>3, <3>4 DEF old
  <2>3. task' = [task EXCEPT ![worker.task] = new]
      BY <1>7 DEF Finish
  <2>4. /\ worker' \in [pc : {"walk", "finish"}, task : Ids \cup {Null}, next : {worker.next}]
        /\ worker'.pc = "walk"
      BY <2>1, <1>t DEF TypeOK
  <2> HIDE DEF new
  <2> QED
      BY <2>1, <2>2, <2>3, <2>4, <1>5
<1> QED
    BY <1>2, <1>3, <1>4, <1>6, <1>7 DEF Worker

-------------------------------------------------------------------------------
\* The inductive invariant of the queries holds in every reachable state.
THEOREM Invariance == Spec => []IInv
<1>1. IInv /\ [Next]_vars => IInv'
  <2> SUFFICES ASSUME IInv, [Next]_vars PROVE IInv'
      OBVIOUS
  <2>1. CASE Next
      BY <2>1, ScriptKeepsIInv, CheckDoneKeepsIInv, SpawnServerKeepsIInv, WorkerKeepsIInv
      DEF Next
  <2>2. CASE UNCHANGED vars
      BY <2>2 DEF vars, IInv, TypeOK, NoUseAfterFree, ListBounded, OfOpenDatabase, AtWork,
         Results, Calls, NoTask, NewTask
  <2> QED
      BY <2>1, <2>2
<1> QED
    BY <1>1, InitIInv, PTL DEF Spec

\* The fields of tasks, the worker and checkdone keep their types.
THEOREM TypeCorrect == Spec => []TypeOK
<1>1. IInv => TypeOK
    BY DEF IInv
<1> QED
    BY <1>1, Invariance, PTL

\* Neither thread follows a pointer to a deleted task or queries a closed database.
THEOREM NoUseAfterFreeHolds == Spec => []NoUseAfterFree
<1>1. IInv => NoUseAfterFree
    BY DEF IInv
<1> QED
    BY <1>1, Invariance, PTL

\* A callback only runs for a query that gave no error and was stepped through as far as the
\* worker goes, never for one that failed half way or that the worker is at, although the flags
\* and the rows are read without the mutex.
CallbackSeesResult ==
    main.pc = "callback" => task[main.task].rows \in Kept /\ ~task[main.task].error

\* A callback gets what its task keeps of a query that gave no error, and never the rows a
\* failed or a running query has left so far.
THEOREM CallbackSeesResultHolds == Spec => []CallbackSeesResult
<1>1. IInv => CallbackSeesResult
    BY DEF IInv, NoUseAfterFree, Calls, Results, Settled, CallbackSeesResult
<1> QED
    BY <1>1, Invariance, PTL

\* The list keeps to its limit.
THEOREM ListBoundedHolds == Spec => []ListBounded
<1>1. IInv => ListBounded
    BY DEF IInv
<1> QED
    BY <1>1, Invariance, PTL

-------------------------------------------------------------------------------
(* The queries implement TaskQueue.                                         *)

\* A step that touches neither the list nor the fields of its tasks is a stutter.
LEMMA Stutter ==
    ASSUME UNCHANGED <<created, listed, task, called>>
    PROVE  UNCHANGED Queue!vars
BY DEF Queue!vars, Phases, Phase, Given, Result, Awaited

\* A step that changes the phase of one task.
LEMMA PhaseStep ==
    ASSUME NEW t \in Ids, NEW p, \A u \in Ids : Phase(u)' = IF u = t THEN p ELSE Phase(u)
    PROVE  Phases' = [Phases EXCEPT ![t] = p] /\ Phases[t] = Phase(t)
BY DEF Phases

\* A step that changes no phase.
LEMMA PhasesKept ==
    ASSUME \A u \in Ids : Phase(u)' = Phase(u)
    PROVE  Phases' = Phases
BY DEF Phases

\* A step that changes the result of one task.
LEMMA ResultStep ==
    ASSUME NEW t \in Ids, NEW r, \A u \in Ids : Result(u)' = IF u = t THEN r ELSE Result(u)
    PROVE  Given' = [Given EXCEPT ![t] = r]
BY DEF Given

\* A step that changes no result.
LEMMA ResultsKept ==
    ASSUME \A u \in Ids : Result(u)' = Result(u)
    PROVE  Given' = Given
BY DEF Given

LEMMA ScriptSteps ==
    ASSUME IInv, Script
    PROVE  (\E t \in Ids : Queue!Create(t)) \/ UNCHANGED Queue!vars
<1>t. TypeOK
    BY DEF IInv
<1>f. listed \subseteq Nat /\ listed \subseteq Ids
    BY <1>t, ListedFinite
<1>1. CASE Initialize \/ \E db \in Databases : Open(db) \/ Close(db)
    BY <1>1, Stutter DEF Initialize, Open, Close
<1>2. ASSUME NEW db \in Databases, NEW callback \in BOOLEAN, AddTask(db, callback)
      PROVE  \E t \in Ids : Queue!Create(t)
  <2> DEFINE new == created + 1
  <2>1. /\ created \in Nat /\ new \in Ids /\ new \notin listed
        /\ created' = new /\ listed' = listed \cup {new}
        /\ task' = [task EXCEPT ![new] = NewTask(db, callback)]
        /\ called' = called /\ \A t \in listed : t <= created
      BY <1>2, <1>t, AsyncQueriesAssumption
      DEF AddTask, TypeOK, Ids, AsyncQueriesAssumption
  <2>2. /\ task'[new] = NewTask(db, callback)
        /\ \A t \in Ids : t # new => task'[t] = task[t]
      BY <2>1, <1>t DEF TypeOK
  <2>3. Phases[new] = "none" /\ Phases' = [Phases EXCEPT ![new] = "running"]
    <3>1. \A t \in Ids : Phase(t)' = IF t = new THEN "running" ELSE Phase(t)
        BY <2>1, <2>2 DEF Phase, NewTask, Ids
    <3>2. Phase(new) = "none"
        BY <2>1 DEF Phase
    <3> HIDE DEF new
    <3> QED BY <2>1, <3>1, <3>2, PhaseStep
  <2>4. Given' = Given
    <3>1. \A t \in Ids : Result(t)' = Result(t)
        BY <2>1, <2>2 DEF Result, NewTask
    <3> QED BY <3>1, ResultsKept
  <2>5. Awaited' \in {Awaited, Awaited \cup {new}}
    <3>1. Awaited' = IF callback THEN Awaited \cup {new} ELSE Awaited
        BY <2>1, <2>2, <1>f DEF Awaited, NewTask
    <3> QED BY <3>1
  <2>6. Queue!Create(new)
      BY <2>1, <2>3, <2>4, <2>5 DEF Queue!Create
  <2> QED BY <2>1, <2>6
<1> QED
    BY <1>1, <1>2
    DEF Script, CreateQuery, CreateQueryNosave, CreateEntityQuery, CreateEntityQueryNosave

LEMMA CheckDoneSteps ==
    ASSUME IInv, CheckDone
    PROVE  (\E t \in Ids : Queue!CallBack(t) \/ Queue!Forget(t)) \/ UNCHANGED Queue!vars
<1>t. TypeOK /\ NoUseAfterFree /\ Results /\ Calls
    BY DEF IInv
<1>f. listed \subseteq Nat /\ listed \subseteq Ids
    BY <1>t, ListedFinite
<1>d. task \in [Ids -> Task] /\ \A t \in listed : ~(t > created)
    BY <1>t, <1>f DEF TypeOK
<1>v. ASSUME NEW t \in Ids, Visiting(t)
      PROVE  t \in listed /\ (called[t] = 1 => task[t].remove) /\ called[t] \in {0, 1}
    BY <1>v, <1>t DEF Visiting, NoUseAfterFree, Calls
<1>1. CASE BeginCheck \/ EndCheck \/ \E t \in Ids : Skip(t)
    BY <1>1, Stutter DEF BeginCheck, EndCheck, Skip
<1>2. ASSUME NEW t \in Ids, Answer(t) PROVE Queue!CallBack(t)
  <2>1. /\ t \in listed /\ called[t] = 0 /\ task[t].done /\ ~task[t].error
        /\ task[t].callback /\ called' = [called EXCEPT ![t] = @ + 1]
        /\ UNCHANGED <<created, listed, task>>
      BY <1>2, <1>v DEF Answer
  <2>2. Phases[t] = "done" /\ t \in Awaited /\ Given[t] \in Kept
    <3>1. task[t].rows \in Kept /\ ~(t > created)
        BY <2>1, <1>t, <1>d DEF Results, Settled
    <3> QED BY <2>1, <3>1 DEF Phases, Phase, Awaited, Given, Result
  <2>3. called' = [called EXCEPT ![t] = 1]
      BY <2>1
  <2>4. UNCHANGED <<Phases, Given, Awaited>>
      BY <2>1 DEF Phases, Phase, Awaited, Given, Result
  <2> QED BY <2>1, <2>2, <2>3, <2>4 DEF Queue!CallBack
\* the mark is not seen by the script
<1>3. ASSUME NEW t \in Ids, Return(t) \/ Mark(t) PROVE UNCHANGED Queue!vars
  <2>1. /\ task' = [task EXCEPT ![t].remove = TRUE] /\ UNCHANGED <<created, listed, called>>
      BY <1>3 DEF Return, Mark
  <2>2. \A u \in Ids : /\ task'[u].done = task[u].done /\ task'[u].rows = task[u].rows
                       /\ task'[u].error = task[u].error /\ task'[u].callback = task[u].callback
      BY <2>1, <1>d
  <2>3. Phases' = Phases
    <3>1. \A u \in Ids : Phase(u)' = Phase(u)
        BY <2>1, <2>2 DEF Phase
    <3> QED BY <3>1, PhasesKept
  <2>4. Given' = Given /\ Awaited' = Awaited
    <3>1. \A u \in Ids : Result(u)' = Result(u)
        BY <2>1, <2>2 DEF Result
    <3>2. Awaited' = Awaited
        BY <2>1, <2>2, <1>f DEF Awaited
    <3> QED BY <3>1, <3>2, ResultsKept
  <2> QED BY <2>1, <2>3, <2>4 DEF Queue!vars
<1>4. ASSUME NEW t \in Ids, Unlink(t) PROVE Queue!Forget(t)
  <2>1. /\ t \in listed /\ task[t].remove /\ listed' = listed \ {t} /\ task' = Deleted({t})
        /\ UNCHANGED <<created, called>>
      BY <1>4, <1>v DEF Unlink
  <2>2. task[t].done /\ (task[t].callback /\ ~task[t].error => called[t] = 1)
      BY <2>1, <1>t DEF Results
  <2>3. \A u \in Ids : u # t => task'[u] = task[u]
      BY <2>1 DEF Deleted
  <2>4. Phases[t] = "done" /\ Phases' = [Phases EXCEPT ![t] = "ended"]
    <3>1. \A u \in Ids : Phase(u)' = IF u = t THEN "ended" ELSE Phase(u)
        BY <2>1, <2>3, <1>d DEF Phase
    <3>2. Phase(t) = "done"
        BY <2>1, <2>2, <1>d DEF Phase
    <3> QED BY <3>1, <3>2, PhaseStep
  <2>5. Given' = [Given EXCEPT ![t] = "none"] /\ Awaited' = Awaited \ {t}
    <3>1. \A u \in Ids : Result(u)' = IF u = t THEN "none" ELSE Result(u)
        BY <2>1, <2>3 DEF Result
    <3>2. Awaited' = Awaited \ {t}
        BY <2>1, <2>3, <1>f DEF Awaited
    <3> QED BY <3>1, <3>2, ResultStep
  <2>6. t \in Awaited /\ Given[t] \in Kept => called[t] = 1
      BY <2>2 DEF Given, Result, Kept, Awaited
  <2> QED BY <2>1, <2>4, <2>5, <2>6 DEF Queue!Forget
<1> QED
    BY <1>1, <1>2, <1>3, <1>4 DEF CheckDone

LEMMA SpawnServerSteps ==
    ASSUME IInv, SpawnServer
    PROVE  Queue!NewLevel
<1>1. listed' = {} /\ UNCHANGED <<created, called>>
    BY DEF SpawnServer
<1>l. listed \subseteq Ids /\ listed \subseteq Nat /\ \A t \in listed : t <= created
    BY ListedFinite DEF IInv, TypeOK
<1>2. listed \subseteq {t \in Ids : Phases[t] \in {"running", "done"}}
  <2>1. \A t \in listed : ~(t > created)
      BY <1>l DEF IInv, TypeOK
  <2> QED BY <2>1, <1>l DEF Phases, Phase
<1>3. Phases' = [t \in Ids |-> IF t \in listed THEN "ended" ELSE Phases[t]]
  <2>1. \A t \in Ids : Phase(t)' = IF t \in listed THEN "ended" ELSE Phase(t)
    <3>1. created \in Nat /\ Ids \subseteq Nat
        BY DEF IInv, TypeOK, Ids
    <3>2. \A t \in listed : ~(t > created)
        BY <1>l, <3>1
    <3> QED BY <1>1, <3>2 DEF Phase
  <2> QED BY <2>1 DEF Phases
<1>4. Given' = [t \in Ids |-> IF t \in listed THEN "none" ELSE Given[t]]
  <2>1. \A t \in Ids : Result(t)' = IF t \in listed THEN "none" ELSE Result(t)
      BY <1>1 DEF Result
  <2> QED BY <2>1 DEF Given
<1>5. Awaited' = {}
    BY <1>1 DEF Awaited
<1> QED
    BY <1>1, <1>2, <1>3, <1>4, <1>5 DEF Queue!NewLevel

LEMMA WorkerSteps ==
    ASSUME IInv, Worker
    PROVE  (\E t \in Ids : Queue!Complete(t)) \/ UNCHANGED Queue!vars
<1>t. TypeOK /\ NoUseAfterFree /\ AtWork
    BY DEF IInv
<1>f. listed \subseteq Nat /\ listed \subseteq Ids
    BY <1>t, ListedFinite
<1>d. task \in [Ids -> Task] /\ \A t \in listed : ~(t > created)
    BY <1>t, <1>f DEF TypeOK
<1> DEFINE t == worker.task
<1>1. CASE Lock \/ Visit \/ Unlock
    BY <1>1, Stutter DEF Lock, Visit, Unlock
<1>2. CASE Execute
  <2>1. t \in listed /\ ~task[t].done /\ UNCHANGED <<created, listed, called>>
      BY <1>2, <1>t DEF Execute, NoUseAfterFree, AtWork
  <2>2. /\ \A u \in Ids : u # t => task'[u] = task[u]
        /\ task'[t].done = task[t].done /\ task'[t].callback = task[t].callback
    <3>1. PICK statement \in {"null", "finalized"}, rows \in {"none", "some"} \cup Kept,
               error \in BOOLEAN : task' = Executed(statement, rows, error)
        BY <1>2 DEF Execute, KeptBy
    <3>2. task' = [task EXCEPT ![t] = [task[t] EXCEPT !.statement = statement,
                                                      !.rows = rows, !.error = error]]
        BY <3>1 DEF Executed
    <3> HIDE DEF t
    <3>3. task[t] \in Task
        BY <2>1, <1>d, <1>f
    <3> QED BY <2>1, <3>2, <3>3, <1>d, <1>f
  <2> HIDE DEF t
  <2>3. \A u \in Ids : task'[u].done = task[u].done /\ task'[u].callback = task[u].callback
      BY <2>2
  <2>4. Phases' = Phases /\ Awaited' = Awaited
    <3>1. \A u \in Ids : Phase(u)' = Phase(u)
        BY <2>1, <2>3 DEF Phase
    <3>2. Awaited' = Awaited
        BY <2>1, <2>3, <1>f DEF Awaited
    <3> QED BY <3>1, <3>2, PhasesKept
  <2>5. Given' = Given
    <3>1. \A u \in Ids : Result(u)' = Result(u)
        BY <2>1, <2>2 DEF Result
    <3> QED BY <3>1, ResultsKept
  <2> QED BY <2>1, <2>4, <2>5 DEF Queue!vars
<1>3. CASE Finish
  <2>1. t \in listed /\ t \in Ids /\ ~task[t].done /\ UNCHANGED <<created, listed, called>>
      BY <1>3, <1>t, <1>f DEF Finish, NoUseAfterFree, AtWork
  <2>s. Settled(task[t])
      BY <1>3, <1>t DEF Finish, AtWork
  <2>2. task' = [task EXCEPT ![t].done = TRUE]
      BY <1>3 DEF Finish
  <2> HIDE DEF t
  <2>3. /\ \A u \in Ids : u # t => task'[u] = task[u]
        /\ task'[t].done /\ task'[t].callback = task[t].callback
        /\ task'[t].rows = task[t].rows /\ task'[t].error = task[t].error
      BY <2>1, <2>2, <1>d
  <2>4. Phases[t] = "running" /\ Phases' = [Phases EXCEPT ![t] = "done"]
    <3>1. \A u \in Ids : Phase(u)' = IF u = t THEN "done" ELSE Phase(u)
        BY <2>1, <2>3, <1>d DEF Phase
    <3>2. Phase(t) = "running"
        BY <2>1, <1>d DEF Phase
    <3> QED BY <2>1, <3>1, <3>2, PhaseStep
  <2>5. Awaited' = Awaited
      BY <2>1, <2>3, <1>f DEF Awaited
  <2>6. \E r \in Kept \cup {"none"} : Given' = [Given EXCEPT ![t] = r]
    <3> DEFINE r == IF task[t].error THEN "none" ELSE task[t].rows
    <3>1. \A u \in Ids : Result(u)' = IF u = t THEN r ELSE Result(u)
        BY <2>1, <2>3 DEF Result
    <3>2. r \in Kept \cup {"none"}
        BY <2>s DEF Settled
    <3> HIDE DEF r
    <3> QED BY <2>1, <3>1, <3>2, ResultStep
  <2> QED BY <2>1, <2>4, <2>5, <2>6 DEF Queue!Complete
<1> QED
    BY <1>1, <1>2, <1>3 DEF Worker

\* The queries keep what TaskQueue promises: a script that waits for a query that gave no error
\* is called back once, with what the task kept of it, before the task is forgotten.
THEOREM Refinement == Spec => ImplementsQueue
<1>1. Init => Queue!Init
    BY AsyncQueriesAssumption
    DEF Init, Queue!Init, Phases, Phase, Given, Result, Awaited, Ids, AsyncQueriesAssumption
<1>2. IInv /\ [Next]_vars => [Queue!Next]_(Queue!vars)
  <2> SUFFICES ASSUME IInv, [Next]_vars PROVE Queue!Next \/ UNCHANGED Queue!vars
      OBVIOUS
  <2>1. CASE UNCHANGED vars
      BY <2>1, Stutter DEF vars
  <2>2. CASE Next
      BY <2>2, ScriptSteps, CheckDoneSteps, SpawnServerSteps, WorkerSteps DEF Next, Queue!Next
  <2> QED BY <2>1, <2>2
<1> QED
    BY <1>1, <1>2, Invariance, PTL DEF Spec, Queue!Spec, ImplementsQueue
==============================================================================
