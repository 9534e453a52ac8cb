-------------------------------- MODULE Tasks --------------------------------
(***************************************************************************)
(* AsyncTask, its worker threads, and the database connection their tasks  *)
(* use (Database, CDBMgr), from the console's `db` command to the end of   *)
(* the process.  There is one connection: CDBMgr::Start makes one.         *)
(*                                                                         *)
(* When the process stops, the logic thread closes the connection first,   *)
(* while the workers still run, and the main thread stops the workers      *)
(* afterwards.  ~Database reads _free without the lock and releases the    *)
(* handler in a later step, so a worker can occupy the connection between  *)
(* the two, or find it in the list after that; what it reads in the deleted*)
(* object is what the destructor has left.                                 *)
(***************************************************************************)
EXTENDS Naturals, Sequences, SequencesExt, FiniteSets

CONSTANTS
  Workers,     (* threads of AsyncTask        *)
  MaxTasks     (* bound: tasks pushed         *)

ASSUME TasksAssumption == MaxTasks \in Nat

NoTask == 0

VARIABLES
  pushed,          (* tasks made so far: a task is its number              *)
  with_over,       (* those that have a _cb_over                           *)
  _lst_task,
  _lst_over,
  deleted_tasks,
  workers_running, (* AsyncTask::_running                                  *)
  worker,          (* where each worker stands                             *)
  ptask,           (* its local of that name                               *)
  db,              (* the Database object: open; ~Database waiting in its  *)
                   (* loop, past it, or past _db_handler.Release()         *)
  db_listed,       (* it is in CDBMgr::_dbs                                *)
  _free,
  stop,            (* how far the end of the process has come              *)
  (* history *)
  intruders        (* workers using the connection they occupied after ~Database's loop *)

tasks == <<pushed, with_over, _lst_task, _lst_over, deleted_tasks, workers_running, worker, ptask,
           db, db_listed, _free, stop, intruders>>

Task == 1..pushed

TasksTypeOK ==
  /\ pushed \in 0..MaxTasks
  /\ with_over \subseteq Task /\ deleted_tasks \subseteq Task
  /\ _lst_task \in Seq(Task) /\ _lst_over \in Seq(Task)
  /\ {workers_running, db_listed, _free} \subseteq BOOLEAN
  /\ worker \in [Workers -> {"test", "take", "find", "occupy", "use", "finish", "stopped"}]
  /\ ptask \in [Workers -> Task \cup {NoTask}]
  /\ db \in {"open", "closing", "tested", "closed"}
  /\ stop \in {"no", "close", "clear", "release", "join", "over"}
  /\ intruders \subseteq Workers

TasksInit ==
  /\ pushed = 0 /\ with_over = {} /\ _lst_task = <<>> /\ _lst_over = <<>> /\ deleted_tasks = {}
  /\ workers_running = TRUE
  /\ worker = [w \in Workers |-> "test"]
  /\ ptask = [w \in Workers |-> NoTask]
  /\ db = "open" /\ db_listed = TRUE /\ _free = TRUE
  /\ stop = "no" /\ intruders = {}

database == <<db, db_listed, _free, intruders>>
-----------------------------------------------------------------------------
(* The logic thread. *)

\* PushTask; `db` gives no _cb_over, and nothing calls Update yet: the interface has both.
PushTask ==
  /\ stop = "no" /\ pushed < MaxTasks
  /\ pushed' = pushed + 1
  /\ _lst_task' = Append(_lst_task, pushed + 1)
  /\ with_over' \in {with_over, with_over \cup {pushed + 1}}
  /\ UNCHANGED <<_lst_over, deleted_tasks, workers_running, worker, ptask, database, stop>>

\* AsyncTask::Update: each _cb_over runs and its task is deleted, under _mutex_over.
TasksUpdate ==
  /\ stop = "no" /\ _lst_over # <<>>
  /\ deleted_tasks' = deleted_tasks \cup ToSet(_lst_over)
  /\ _lst_over' = <<>>
  /\ UNCHANGED <<pushed, with_over, _lst_task, workers_running, worker, ptask, database, stop>>

Using == {w \in Workers : worker[w] = "use"}

\* on_stop, CDBMgr::Close: ~Database is entered.
CloseBegin ==
  /\ stop = "no"
  /\ stop' = "close"
  /\ db' = "closing"
  /\ UNCHANGED <<pushed, with_over, _lst_task, _lst_over, deleted_tasks, workers_running, worker,
                 ptask, db_listed, _free, intruders>>

ReadsFreeAtOnce == TRUE
ReadsFree == _free

\* while (!_free): the loop ends when it reads _free, which is all it does.
CloseTest ==
  /\ stop = "close" /\ db = "closing"
  /\ ReadsFree
  /\ db' = "tested"
  /\ UNCHANGED <<pushed, with_over, _lst_task, _lst_over, deleted_tasks, workers_running, worker,
                 ptask, db_listed, _free, stop, intruders>>

\* _db_handler.Release(), whoever has occupied the connection since the loop ended.
CloseHandler ==
  /\ stop = "close" /\ db = "tested"
  /\ db' = "closed"
  /\ stop' = "clear"
  /\ UNCHANGED <<pushed, with_over, _lst_task, _lst_over, deleted_tasks, workers_running, worker,
                 ptask, db_listed, _free, intruders>>

\* The list is cleared.
CloseClear ==
  /\ stop = "clear"
  /\ db_listed' = FALSE
  /\ stop' = "release"
  /\ UNCHANGED <<pushed, with_over, _lst_task, _lst_over, deleted_tasks, workers_running, worker,
                 ptask, db, _free, intruders>>
-----------------------------------------------------------------------------
(* The main thread: AsyncTask::Release and the destructor. *)

StopWorkers ==
  /\ stop = "release"
  /\ workers_running' = FALSE
  /\ stop' = "join"
  /\ UNCHANGED <<pushed, with_over, _lst_task, _lst_over, deleted_tasks, worker, ptask, database>>

DestroyTasks ==
  /\ stop = "join"
  /\ \A w \in Workers : worker[w] = "stopped"
  /\ deleted_tasks' = deleted_tasks \cup ToSet(_lst_task) \cup ToSet(_lst_over)
  /\ _lst_task' = <<>> /\ _lst_over' = <<>>
  /\ stop' = "over"
  /\ UNCHANGED <<pushed, with_over, workers_running, worker, ptask, database>>
-----------------------------------------------------------------------------
(* The workers. *)

WorkerGoes(w, label) == worker' = [worker EXCEPT ![w] = label]
WorkerKeeps == <<pushed, with_over, workers_running, db, db_listed, stop>>

TestRunning(w) ==
  /\ worker[w] = "test"
  /\ WorkerGoes(w, IF workers_running THEN "take" ELSE "stopped")
  /\ UNCHANGED <<WorkerKeeps, _lst_task, _lst_over, deleted_tasks, ptask, _free, intruders>>

\* The front of the list, under _mutex_task.
PeekFront == UNCHANGED _lst_task
PopFront == _lst_task' = Tail(_lst_task)

Take(w) ==
  /\ worker[w] = "take" /\ _lst_task # <<>>
  /\ ptask' = [ptask EXCEPT ![w] = Head(_lst_task)]
  /\ PopFront
  /\ WorkerGoes(w, "find")
  /\ UNCHANGED <<WorkerKeeps, _lst_over, deleted_tasks, _free, intruders>>

Sleep(w) ==
  /\ worker[w] = "take" /\ _lst_task = <<>>
  /\ WorkerGoes(w, "test")
  /\ UNCHANGED <<WorkerKeeps, _lst_task, _lst_over, deleted_tasks, ptask, _free, intruders>>

\* on_thread_proc_stmt: GetFreeConnection takes the connection from the list, and calls Occupy.
\* A task that gets none is over.
FindConnection(w) ==
  /\ worker[w] = "find"
  /\ WorkerGoes(w, IF db_listed THEN "occupy" ELSE "finish")
  /\ UNCHANGED <<WorkerKeeps, _lst_task, _lst_over, deleted_tasks, ptask, _free, intruders>>

OccupyConnection(w) ==
  /\ worker[w] = "occupy"
  /\ WorkerGoes(w, IF _free THEN "use" ELSE "finish")
  /\ _free' = FALSE
  /\ intruders' = IF _free /\ db \in {"tested", "closed"} THEN intruders \cup {w} ELSE intruders
  /\ UNCHANGED <<WorkerKeeps, _lst_task, _lst_over, deleted_tasks, ptask>>

ReleaseConnection(w) ==
  /\ worker[w] = "use"
  /\ WorkerGoes(w, "finish")
  /\ _free' = TRUE
  /\ intruders' = intruders \ {w}
  /\ UNCHANGED <<WorkerKeeps, _lst_task, _lst_over, deleted_tasks, ptask>>

Finish(w) ==
  /\ worker[w] = "finish"
  /\ IF ptask[w] \in with_over
     THEN _lst_over' = Append(_lst_over, ptask[w]) /\ UNCHANGED deleted_tasks
     ELSE deleted_tasks' = deleted_tasks \cup {ptask[w]} /\ UNCHANGED _lst_over
  /\ ptask' = [ptask EXCEPT ![w] = NoTask]
  /\ WorkerGoes(w, "test")
  /\ UNCHANGED <<WorkerKeeps, _lst_task, _free, intruders>>

Worker(w) ==
  \/ TestRunning(w) \/ Take(w) \/ Sleep(w)
  \/ FindConnection(w) \/ OccupyConnection(w) \/ ReleaseConnection(w) \/ Finish(w)

TasksNext ==
  \/ PushTask \/ TasksUpdate \/ CloseBegin \/ CloseTest \/ CloseHandler \/ CloseClear
  \/ StopWorkers \/ DestroyTasks
  \/ \E w \in Workers : Worker(w)

TasksSpec == TasksInit /\ [][TasksNext]_tasks
-----------------------------------------------------------------------------
(* Properties. *)

\* Every task that was pushed is in exactly one place: the list, the hands of one worker, the
\* list of finished tasks, or deleted; and all are deleted when the process ends.
EachTaskOnce ==
  LET held   == {ptask[w] : w \in Workers} \ {NoTask}
      places == <<ToSet(_lst_task), held, ToSet(_lst_over), deleted_tasks>>
  IN  /\ IsInjective(_lst_task) /\ IsInjective(_lst_over)
      /\ \A v, w \in Workers : ptask[v] = ptask[w] => v = w \/ ptask[v] = NoTask
      /\ \A i, j \in DOMAIN places : i # j => places[i] \cap places[j] = {}
      /\ UNION ToSet(places) = Task
      /\ stop = "over" => deleted_tasks = Task

\* At most one worker uses the connection, also while it is being closed and after; and the
\* handler is released under none that had it before ~Database read _free, at whatever moment it
\* occupied it.  Those that occupy it between that read and the Release are the only ones.
HoldersAreWaitedFor ==
  /\ \A v, w \in Using : v = w
  /\ db \in {"tested", "closed"} => Using \subseteq intruders
=============================================================================
