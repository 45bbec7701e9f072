----------------------------- MODULE AsyncQueries -----------------------------
(***************************************************************************)
(* The asynchronous SQLite queries of gsc_sqlite.cpp: script calls on the  *)
(* main thread append tasks to a list and collect the finished ones, a     *)
(* detached worker thread executes them.  The worker holds the mutex for a *)
(* whole pass over the list; the main thread takes it, without waiting, to *)
(* unlink a task.  Tasks are numbered as they are created and appended at  *)
(* the tail, so the list is the set of the numbers, in order.  Callbacks   *)
(* do not poll themselves.                                                 *)
(***************************************************************************)
EXTENDS Integers, FiniteSets

CONSTANTS
    Databases,   \* sqlite3 handles
    MaxTasks,    \* MAX_SQLITE_TASKS (512)
    MaxStores,   \* MAX_SQLITE_DB_STORES (64)
    MaxCreated   \* bound on the tasks ever created

ASSUME AsyncQueriesAssumption ==
    /\ Databases # {}
    /\ MaxTasks \in Nat \ {0, 1} /\ MaxStores \in Nat \ {0, 1}
    /\ MaxCreated \in Nat

Ids == 1..MaxCreated
Null == 0

VARIABLES
    created,    \* the number of the last task
    listed,     \* the tasks in the list first_async_sqlite_task
    task,       \* the fields of each
    databases,  \* the open databases: the list first_sqlite_db_store
    worker,     \* async_sqlite_query_handler; it holds the mutex unless it sleeps
    main,       \* gsc_async_sqlite_checkdone on the main thread
    called,     \* history: how often the callback of a task ran
    crashed     \* whether a statement that is no statement was finalized
vars == <<created, listed, task, databases, worker, main, called, crashed>>

\* callback: the fields save and callback are only ever tested together
NewTask(db, callback) ==
    [db |-> db, callback |-> callback, done |-> FALSE, error |-> FALSE,
     remove |-> FALSE, statement |-> "unset", rows |-> "none"]

\* what the model keeps of a task that does not exist
NoTask == NewTask(CHOOSE db \in Databases : TRUE, FALSE)
Deleted(ids) == [t \in Ids |-> IF t \in ids THEN NoTask ELSE task[t]]

Init ==
    /\ created = 0 /\ listed = {}
    /\ task = [t \in Ids |-> NoTask]
    /\ databases = {}
    /\ worker = [pc |-> "none", task |-> Null, next |-> Null]
    /\ main = [pc |-> "idle", task |-> Null, next |-> Null]
    /\ called = [t \in Ids |-> 0]
    /\ crashed = FALSE

\* the task behind t in the list; behind Null the first one
After(t) ==
    LET later == {u \in listed : u > t}
    IN IF later = {} THEN Null ELSE CHOOSE u \in later : \A v \in later : u <= v

-------------------------------------------------------------------------------
(* The script's calls; a callback may make them too.                        *)
InScript == main.pc \in {"idle", "callback"}

\* gsc_async_sqlite_initialize
Initialize ==
    /\ InScript /\ worker.pc = "none"
    /\ worker' = [worker EXCEPT !.pc = "sleep"]
    /\ UNCHANGED <<created, listed, task, databases, main, called, crashed>>

\* mutant: one task too many
RoomForOneMore == Cardinality(listed) - 2 <= MaxTasks - 2

\* the walk to the tail makes one step less than the list has tasks
HasRoom == Cardinality(listed) - 1 <= MaxTasks - 2

AddTask(db, callback) ==
    /\ InScript /\ worker.pc # "none"
    /\ HasRoom
    /\ created < MaxCreated /\ db \in databases
    /\ created' = created + 1
    /\ task' = [task EXCEPT ![created + 1] = NewTask(db, callback)]
    /\ listed' = listed \cup {created + 1}
    /\ UNCHANGED <<databases, worker, main, called, crashed>>

\* the four calls: with or without a result, for the level or for an entity, on which the
\* callback then runs
CreateQuery(db, callback) == AddTask(db, callback)
CreateQueryNosave(db) == AddTask(db, FALSE)
CreateEntityQuery(db, callback) == AddTask(db, callback)
CreateEntityQueryNosave(db) == AddTask(db, FALSE)

\* gsc_sqlite_open
Open(db) ==
    /\ InScript
    /\ db \notin databases /\ Cardinality(databases) - 1 <= MaxStores - 2
    /\ databases' = databases \cup {db}
    /\ UNCHANGED <<created, listed, task, worker, main, called, crashed>>

\* gsc_sqlite_close, whatever the tasks still ask of the database
Close(db) ==
    /\ InScript
    /\ db \in databases
    /\ databases' = databases \ {db}
    /\ UNCHANGED <<created, listed, task, worker, main, called, crashed>>

-------------------------------------------------------------------------------
(* gsc_async_sqlite_checkdone: for each task in turn, the next one is read, *)
(* then the task is left, answered, marked or unlinked.                     *)
BeginCheck ==
    /\ main.pc = "idle"
    /\ main' = [pc |-> "check", task |-> Null, next |-> After(Null)]
    /\ UNCHANGED <<created, listed, task, databases, worker, called, crashed>>

Visiting(t) ==
    /\ main.pc = "check" /\ main.next = t /\ t # Null

Proceed(t) == main' = [pc |-> "check", task |-> Null, next |-> After(t)]

\* a task that is not done, or whose mutex is taken, is left for the next call
TryLock == worker.pc \in {"none", "sleep"}
Skip(t) ==
    /\ Visiting(t)
    /\ IF task[t].remove THEN ~TryLock ELSE ~task[t].done
    /\ Proceed(t)
    /\ UNCHANGED <<created, listed, task, databases, worker, called, crashed>>

\* Scr_ExecThread of the callback
Answer(t) ==
    /\ Visiting(t)
    /\ ~task[t].remove /\ task[t].done /\ ~task[t].error /\ task[t].callback
    /\ called' = [called EXCEPT ![t] = @ + 1]
    /\ main' = [pc |-> "callback", task |-> t, next |-> After(t)]
    /\ UNCHANGED <<created, listed, task, databases, worker, crashed>>

\* mutant: an answered task is not marked
ReturnUnmarked(t) ==
    /\ main.pc = "callback" /\ main.task = t
    /\ main' = [main EXCEPT !.pc = "check", !.task = Null]
    /\ UNCHANGED <<created, listed, task, databases, worker, called, crashed>>

\* the callback has returned, or waits
Return(t) ==
    /\ main.pc = "callback" /\ main.task = t
    /\ task' = [task EXCEPT ![t].remove = TRUE]
    /\ main' = [main EXCEPT !.pc = "check", !.task = Null]
    /\ UNCHANGED <<created, listed, databases, worker, called, crashed>>

\* nobody waits for the result, or there is none
Mark(t) ==
    /\ Visiting(t)
    /\ ~task[t].remove /\ task[t].done /\ (task[t].error \/ ~task[t].callback)
    /\ task' = [task EXCEPT ![t].remove = TRUE]
    /\ Proceed(t)
    /\ UNCHANGED <<created, listed, databases, worker, called, crashed>>

\* mutant: without the mutex
UnlinkAnyway(t) ==
    /\ Visiting(t) /\ task[t].remove
    /\ listed' = listed \ {t} /\ task' = Deleted({t})
    /\ Proceed(t)
    /\ UNCHANGED <<created, databases, worker, called, crashed>>

Unlink(t) ==
    /\ Visiting(t) /\ task[t].remove /\ TryLock
    /\ listed' = listed \ {t} /\ task' = Deleted({t})
    /\ Proceed(t)
    /\ UNCHANGED <<created, databases, worker, called, crashed>>

EndCheck ==
    /\ main.pc = "check" /\ main.next = Null
    /\ main' = [main EXCEPT !.pc = "idle"]
    /\ UNCHANGED <<created, listed, task, databases, worker, called, crashed>>

\* free_sqlite_db_stores_and_tasks, which waits for the mutex.  It finalizes what the fields
\* statement hold: nothing has set them before the worker, and the worker leaves them set.
SpawnServer ==
    /\ main.pc = "idle" /\ TryLock
    /\ listed' = {} /\ task' = Deleted(listed) /\ databases' = {}
    /\ crashed' \in {FALSE, \E t \in listed : task[t].statement \in {"unset", "finalized"}}
    /\ UNCHANGED <<created, worker, main, called>>

-------------------------------------------------------------------------------
(* async_sqlite_query_handler                                               *)
Lock ==
    /\ worker.pc = "sleep"
    /\ worker' = [pc |-> "walk", task |-> Null, next |-> After(Null)]
    /\ UNCHANGED <<created, listed, task, databases, main, called, crashed>>

Visit ==
    /\ worker.pc = "walk" /\ worker.next # Null
    /\ worker' = IF task[worker.next].done
                 THEN [worker EXCEPT !.next = After(worker.next)]
                 ELSE [pc |-> "execute", task |-> worker.next, next |-> After(worker.next)]
    /\ UNCHANGED <<created, listed, task, databases, main, called, crashed>>

Executed(statement, rows, error) ==
    [task EXCEPT ![worker.task] = [@ EXCEPT !.statement = statement, !.rows = rows,
                                            !.error = error]]

\* What a task keeps of a query that gave no error: all of it, less than all when rows, columns
\* or characters are more than the task has room for, or, where a column is NULL, what the cell
\* held before.  A task nobody waits for keeps nothing.
Kept == {"all", "cut", "unset"}
KeptBy(t) == IF task[t].callback THEN Kept ELSE {"none"}

\* prepare, step through the rows and finalize: the query is wrong, fails or gives no error
Execute ==
    /\ worker.pc = "execute"
    /\ \/ task' = Executed("null", "none", TRUE)
       \/ task' = Executed("finalized", IF task[worker.task].callback THEN "some" ELSE "none",
                           TRUE)
       \/ \E rows \in KeptBy(worker.task) : task' = Executed("finalized", rows, FALSE)
    /\ worker' = [worker EXCEPT !.pc = "finish"]
    /\ UNCHANGED <<created, listed, databases, main, called, crashed>>

\* mutant: a query with an error is tried again
FinishGood ==
    /\ worker.pc = "finish"
    /\ task' = [task EXCEPT ![worker.task].done = ~task[worker.task].error]
    /\ worker' = [worker EXCEPT !.pc = "walk", !.task = Null]
    /\ UNCHANGED <<created, listed, databases, main, called, crashed>>

Finish ==
    /\ worker.pc = "finish"
    /\ task' = [task EXCEPT ![worker.task].done = TRUE]
    /\ worker' = [worker EXCEPT !.pc = "walk", !.task = Null]
    /\ UNCHANGED <<created, listed, databases, main, called, crashed>>

Unlock ==
    /\ worker.pc = "walk" /\ worker.next = Null
    /\ worker' = [worker EXCEPT !.pc = "sleep"]
    /\ UNCHANGED <<created, listed, task, databases, main, called, crashed>>

\* assumed of the scripts: they close no database a listed task asks a query of
Unused(db) == \A t \in listed : task[t].db # db

Script ==
    \/ Initialize
    \/ \E db \in Databases :
          \/ \E callback \in BOOLEAN :
                CreateQuery(db, callback) \/ CreateEntityQuery(db, callback)
          \/ CreateQueryNosave(db) \/ CreateEntityQueryNosave(db)
          \/ Open(db)
          \/ Unused(db) /\ Close(db)
CheckDone ==
    \/ BeginCheck \/ EndCheck
    \/ \E t \in Ids : Skip(t) \/ Answer(t) \/ Return(t) \/ Mark(t) \/ Unlink(t)
Worker == Lock \/ Visit \/ Execute \/ Finish \/ Unlock

Next == ~crashed /\ (Script \/ CheckDone \/ SpawnServer \/ Worker)

Spec == Init /\ [][Next]_vars

(* The worker runs and the script polls checkdone every frame.  As the      *)
(* worker sleeps for 10 ms after every pass, the steps of checkdone find it *)
(* asleep again and again.                                                  *)
Handle(t) == Skip(t) \/ Answer(t) \/ Return(t) \/ Mark(t) \/ Unlink(t)
FairSpec ==
    /\ Spec
    /\ WF_vars(~crashed /\ Worker) /\ WF_vars(~crashed /\ CheckDone)
    /\ SF_vars(~crashed /\ TryLock /\ BeginCheck) /\ SF_vars(~crashed /\ TryLock /\ EndCheck)
    /\ \A t \in Ids : SF_vars(~crashed /\ TryLock /\ Handle(t))
-------------------------------------------------------------------------------
Task == [db : Databases, callback : BOOLEAN, done : BOOLEAN, error : BOOLEAN, remove : BOOLEAN,
         statement : {"unset", "null", "finalized"}, rows : {"none", "some"} \cup Kept]

\* The types of the variables; what is not in the list is not there any more.
TypeOK ==
    /\ created \in 0..MaxCreated /\ listed \subseteq 1..created
    /\ task \in [Ids -> Task]
    /\ \A t \in Ids \ listed : task[t] = NoTask
    /\ databases \subseteq Databases
    /\ worker \in [pc : {"none", "sleep", "walk", "execute", "finish"},
                   task : Ids \cup {Null}, next : Ids \cup {Null}]
    /\ main \in [pc : {"idle", "check", "callback"},
                 task : Ids \cup {Null}, next : Ids \cup {Null}]
    /\ called \in [Ids -> Nat] /\ crashed \in BOOLEAN

\* No thread follows a pointer to a task the other has deleted, or, as the scripts close only
\* Unused databases, queries one that was closed: the worker reads its next task before a
\* query that may take long.
NoUseAfterFree ==
    /\ worker.pc \notin {"none", "sleep"} => worker.next \in listed \cup {Null}
    /\ worker.pc \in {"execute", "finish"} =>
          worker.task \in listed /\ task[worker.task].db \in databases
    /\ main.pc # "idle" => main.next \in listed \cup {Null}
    /\ main.pc = "callback" => main.task \in listed

\* The list keeps to its limit, which callbacks and calls share.
ListBounded == Cardinality(listed) <= MaxTasks

\* What the script is promised: one call with what the task kept of a query that gave no error,
\* before the task is deleted, unless the level ends.  That this is all the query gave is not
\* promised (148-161).
Phase(t) ==
    IF t > created THEN "none" ELSE IF t \notin listed THEN "ended"
    ELSE IF task[t].done THEN "done" ELSE "running"
Phases == [t \in Ids |-> Phase(t)]
Result(t) == IF t \in listed /\ task[t].done /\ ~task[t].error THEN task[t].rows ELSE "none"
Given == [t \in Ids |-> Result(t)]
Awaited == {t \in listed : task[t].callback}
Queue == INSTANCE TaskQueue WITH
    Results <- Kept, phase <- Phases, result <- Given, wanted <- Awaited, calls <- called
ImplementsQueue == Queue!Spec

\* No task stays in the list for ever.  In a level that goes on it is executed, answered and
\* unlinked; the end of a level drops what is left, and may crash the server over it
\* (75-76), which is not a task's proper end and which no property here rules out.
TaskEnds == \A t \in Ids : t \in listed ~> t \notin listed
===============================================================================
