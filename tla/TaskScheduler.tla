--------------------------- MODULE TaskScheduler ---------------------------
(***************************************************************************)
(* The coroutine scheduler of software simulation                          *)
(* (tapa-lib/tapa/host/private_scheduler.h, task.cpp): a pool of worker    *)
(* threads, each resuming its coroutines in turn, the tasks that are       *)
(* scheduled on them, and the top-level tapa::task that waits for the      *)
(* joined ones and then destroys the pool.                                 *)
(*                                                                         *)
(* The program is a tree: Parent[c] is the task (or the main program)      *)
(* that invokes c.  worker_mtx is modelled as a lock, because the          *)
(* destructor holds it while it joins the workers and a coroutine that     *)
(* waits for it blocks its whole worker; a worker's own mutex guards short *)
(* sections only, which are atomic steps here.  A worker's queue and its   *)
(* list of coroutines are sets: the order inside a round is left open.     *)
(***************************************************************************)
EXTENDS Integers, FiniteSets

CONSTANTS
  Task,      \* the task instances of the program
  Main,      \* the thread that owns the top-level tapa::task
  None,
  Parent,    \* who invokes each task
  Detached,  \* the tasks invoked with tapa::detach
  Server,    \* the tasks that never return
  NWorker,   \* workers in the pool
  MaxYield   \* bound: times a task yields before it returns

ASSUME SchedulerAssumption ==
  /\ IsFiniteSet(Task) /\ Main \notin Task /\ None \notin Task
  /\ Parent \in [Task -> Task \cup {Main}]
  /\ Detached \subseteq Task /\ Server \subseteq Task
  /\ NWorker \in Nat \ {0} /\ MaxYield \in Nat
  /\ Main \notin 1..NWorker /\ None \notin 1..NWorker /\ Main # None

\* Invocations form a tree below main: no set of tasks invokes only itself.
ASSUME TreeAssumption ==
  \A S \in SUBSET Task : S # {} => \E t \in S : Parent[t] \notin S

Worker == 1..NWorker
Thread == Worker \cup {Main}
Body == Task \cup {Main}
Children(p) == {c \in Task : Parent[c] = p}
Joined(c) == c \notin Detached

VARIABLES
  stage,     \* new, queued, live, returned (f is done, not yet counted), finished
             \* or destroyed (unwound by ~worker)
  home,      \* the worker a task was given to
  todo,      \* the children a task has still to invoke
  scope,     \* the tasks that have constructed their tapa::task
  yields,    \* times a task has yielded
  cur,       \* the coroutine a worker is running
  turn,      \* the coroutines a worker has still to resume in this round
  done,      \* worker::done
  exited,    \* the worker thread has left its loop
  lock,      \* the holder of worker_mtx
  adding,    \* the task a thread has enqueued and not yet counted
  joined,    \* joined_tasks
  it,        \* the worker the next task goes to
  mpc        \* where main is: run, delete, pool, stop, join, end

taskVars == <<stage, home, todo, scope, yields>>
workerVars == <<cur, turn, done, exited>>
poolVars == <<lock, adding, joined, it>>
vars == <<taskVars, workerVars, poolVars, mpc>>

Tasks(w) == {t \in Task : stage[t] = "queued" /\ home[t] = w}
Coroutines(w) == {t \in Task : stage[t] \in {"live", "returned"} /\ home[t] = w}

\* The pool exists, its workers wait, main is about to invoke its tasks.
Init ==
  /\ stage = [t \in Task |-> "new"]
  /\ home = [t \in Task |-> 1]
  /\ todo = [p \in Body |-> Children(p)]
  /\ scope = {Main}
  /\ yields = [t \in Task |-> 0]
  /\ cur = [w \in Worker |-> None] /\ turn = [w \in Worker |-> {}]
  /\ done = [w \in Worker |-> FALSE] /\ exited = [w \in Worker |-> FALSE]
  /\ lock = None /\ adding = [x \in Thread |-> None]
  /\ joined = 0 /\ it = 1 /\ mpc = "run"
-----------------------------------------------------------------------------
(* Invoking tasks: task::task, schedule, thread_pool::add_task *)

\* The code that runs on a thread now, None when it runs no task.
Runs(x) == IF x # Main THEN cur[x] ELSE IF mpc = "run" THEN Main ELSE None

\* ~task holds internal::mtx from before it deletes the pool to the end.
MtxHeld == mpc \in {"pool", "stop", "join"}

\* A nested tapa::task finds the pool; it only takes and releases the mutex.
Construct(w) ==
  /\ cur[w] \in Task \ scope /\ Children(cur[w]) # {}
  /\ stage[cur[w]] = "live"
  /\ ~MtxHeld
  /\ scope' = scope \cup {cur[w]}
  /\ UNCHANGED <<stage, home, todo, yields, workerVars, poolVars, mpc>>

Enqueue(x, c) ==
  /\ adding[x] = None
  /\ Runs(x) \in scope /\ c \in todo[Runs(x)]
  /\ lock = None /\ lock' = x
  /\ adding' = [adding EXCEPT ![x] = c]
  /\ stage' = [stage EXCEPT ![c] = "queued"]
  /\ home' = [home EXCEPT ![c] = it]
  /\ todo' = [todo EXCEPT ![Runs(x)] = @ \ {c}]
  /\ UNCHANGED <<scope, yields, workerVars, joined, it, mpc>>

Count(x) ==
  /\ adding[x] # None
  /\ joined' = IF Joined(adding[x]) THEN joined + 1 ELSE joined
  /\ it' = IF it = NWorker THEN 1 ELSE it + 1
  /\ adding' = [adding EXCEPT ![x] = None]
  /\ lock' = None
  /\ UNCHANGED <<taskVars, workerVars, mpc>>
-----------------------------------------------------------------------------
(* The worker's loop *)

AtTop(w) == ~exited[w] /\ cur[w] = None /\ turn[w] = {}

\* Mutant: done ends the loop whatever is queued.
ExitHastyMutant(w) ==
  /\ AtTop(w) /\ done[w]
  /\ exited' = [exited EXCEPT ![w] = TRUE]
  /\ UNCHANGED <<taskVars, cur, turn, done, poolVars, mpc>>

\* Mutant: a worker leaves only when its coroutines have ended.
ExitLateMutant(w) ==
  /\ AtTop(w) /\ done[w] /\ Tasks(w) = {} /\ Coroutines(w) = {}
  /\ exited' = [exited EXCEPT ![w] = TRUE]
  /\ UNCHANGED <<taskVars, cur, turn, done, poolVars, mpc>>

Exit(w) ==
  /\ AtTop(w) /\ done[w] /\ Tasks(w) = {}
  /\ exited' = [exited EXCEPT ![w] = TRUE]
  /\ UNCHANGED <<taskVars, cur, turn, done, poolVars, mpc>>

Drain(w) ==
  /\ AtTop(w) /\ ~(done[w] /\ Tasks(w) = {})
  /\ Tasks(w) \cup Coroutines(w) # {}
  /\ turn' = [turn EXCEPT ![w] = Tasks(w) \cup Coroutines(w)]
  /\ stage' = [t \in Task |-> IF t \in Tasks(w) THEN "live" ELSE stage[t]]
  /\ UNCHANGED <<home, todo, scope, yields, cur, done, exited, poolVars, mpc>>

Resume(w, t) ==
  /\ cur[w] = None /\ t \in turn[w]
  /\ cur' = [cur EXCEPT ![w] = t]
  /\ turn' = [turn EXCEPT ![w] = @ \ {t}]
  /\ UNCHANGED <<taskVars, done, exited, poolVars, mpc>>

\* The running task gives way, as a blocked stream operation does.
Yield(w) ==
  /\ cur[w] # None /\ adding[w] = None
  /\ stage[cur[w]] = "live"
  /\ \/ cur[w] \in Server /\ UNCHANGED yields
     \/ yields[cur[w]] < MaxYield /\ yields' = [yields EXCEPT ![cur[w]] = @ + 1]
  /\ cur' = [cur EXCEPT ![w] = None]
  /\ UNCHANGED <<stage, home, todo, scope, turn, done, exited, poolVars, mpc>>

\* The task's function returns: a detached coroutine is erased, a joined one
\* goes on in the wrapper of add_task.
Return(w) ==
  /\ cur[w] \in Task \ Server /\ adding[w] = None
  /\ stage[cur[w]] = "live" /\ todo[cur[w]] = {}
  /\ IF Joined(cur[w])
     THEN stage' = [stage EXCEPT ![cur[w]] = "returned"] /\ UNCHANGED cur
     ELSE /\ stage' = [stage EXCEPT ![cur[w]] = "finished"]
          /\ cur' = [cur EXCEPT ![w] = None]
  /\ UNCHANGED <<home, todo, scope, yields, turn, done, exited, poolVars, mpc>>

\* The wrapper takes worker_mtx, uncounts the task and wakes wait().
Uncount(w) ==
  /\ cur[w] # None
  /\ stage[cur[w]] = "returned"
  /\ lock = None
  /\ joined' = joined - 1
  /\ stage' = [stage EXCEPT ![cur[w]] = "finished"]
  /\ cur' = [cur EXCEPT ![w] = None]
  /\ UNCHANGED <<home, todo, scope, yields, turn, done, exited, lock, adding, it, mpc>>
-----------------------------------------------------------------------------
(* task::~task of the top-level task *)

\* Mutant: wait() looks for empty task queues instead of the count.
WaitQueuesMutant ==
  /\ mpc = "run" /\ todo[Main] = {} /\ adding[Main] = None
  /\ lock = None /\ \A w \in Worker : Tasks(w) = {}
  /\ mpc' = "delete"
  /\ UNCHANGED <<taskVars, workerVars, poolVars>>

Wait ==
  /\ mpc = "run" /\ todo[Main] = {} /\ adding[Main] = None
  /\ lock = None /\ joined = 0
  /\ mpc' = "delete"
  /\ UNCHANGED <<taskVars, workerVars, poolVars>>

LockMtx ==
  /\ mpc = "delete" /\ mpc' = "pool"
  /\ UNCHANGED <<taskVars, workerVars, poolVars>>

\* ~thread_pool takes worker_mtx and keeps it over workers.clear().
LockPool ==
  /\ mpc = "pool" /\ lock = None
  /\ lock' = Main /\ mpc' = "stop"
  /\ UNCHANGED <<taskVars, workerVars, adding, joined, it>>

\* ~worker, in list order: raise done and wake the thread ...
StopWorker(w) ==
  /\ mpc = "stop" /\ ~done[w] /\ \A v \in 1..(w - 1) : done[v]
  /\ done' = [done EXCEPT ![w] = TRUE]
  /\ mpc' = "join"
  /\ UNCHANGED <<taskVars, cur, turn, exited, poolVars>>

\* ... then join it, and destroy the coroutines it leaves.
JoinWorker(w) ==
  /\ mpc = "join" /\ done[w] /\ \A v \in (w + 1)..NWorker : ~done[v]
  /\ exited[w]
  /\ stage' = [t \in Task |-> IF t \in Coroutines(w) THEN "destroyed" ELSE stage[t]]
  /\ mpc' = "stop"
  /\ UNCHANGED <<home, todo, scope, yields, workerVars, poolVars>>

Deleted ==
  /\ mpc = "stop" /\ \A w \in Worker : done[w]
  /\ lock' = None /\ mpc' = "end"
  /\ UNCHANGED <<taskVars, workerVars, adding, joined, it>>
-----------------------------------------------------------------------------
WorkerStep(w) ==
  \/ Construct(w) \/ (\E c \in Task : Enqueue(w, c)) \/ Count(w)
  \/ Exit(w) \/ Drain(w) \/ (\E t \in Task : Resume(w, t))
  \/ Yield(w) \/ Return(w) \/ Uncount(w)

MainStep ==
  \/ (\E c \in Task : Enqueue(Main, c)) \/ Count(Main)
  \/ Wait \/ LockMtx \/ LockPool \/ Deleted
  \/ \E w \in Worker : StopWorker(w) \/ JoinWorker(w)

Next == MainStep \/ \E w \in Worker : WorkerStep(w)

\* The operating system runs every thread that can run.
Fairness == WF_vars(MainStep) /\ \A w \in Worker : WF_vars(WorkerStep(w))
Spec == Init /\ [][Next]_vars /\ Fairness
-----------------------------------------------------------------------------
(* Properties *)

\* Types of the scheduler's state.
TypeOK ==
  /\ stage \in [Task -> {"new", "queued", "live", "returned", "finished", "destroyed"}]
  /\ home \in [Task -> Worker] /\ todo \in [Body -> SUBSET Task]
  /\ scope \subseteq Body /\ yields \in [Task -> 0..MaxYield]
  /\ cur \in [Worker -> Task \cup {None}] /\ turn \in [Worker -> SUBSET Task]
  /\ done \in [Worker -> BOOLEAN] /\ exited \in [Worker -> BOOLEAN]
  /\ lock \in Thread \cup {None} /\ adding \in [Thread -> Task \cup {None}]
  /\ joined \in Nat /\ it \in Worker
  /\ mpc \in {"run", "delete", "pool", "stop", "join", "end"}

\* Joined tasks that were given to a worker and have not reported back.
Outstanding ==
  {t \in Task : Joined(t) /\ stage[t] \in {"queued", "live", "returned", "destroyed"}}

\* ... and that no thread is still about to count.
Counted == {t \in Outstanding : \A x \in Thread : adding[x] # t}

\* joined_tasks counts the joined tasks under way, except for one that its
\* scheduler has enqueued but, still holding worker_mtx, not yet counted: "The
\* worker cannot decrement this until worker_mtx is released".
JoinedCountExact == joined = Cardinality(Counted)

\* The joined tasks all of whose ancestors are joined.
Awaited ==
  UNION {S \in SUBSET (Task \ Detached) : \A t \in S : Parent[t] \in S \cup {Main}}

\* wait() returns only when every joined task, "including descendants scheduled
\* by upper tasks on other workers", has finished, although joined_tasks may be
\* zero or small while an upper task has children left to invoke.
WaitCoversDescendants == mpc # "run" => \A t \in Awaited : stage[t] = "finished"

\* A worker never leaves its loop with a task in its queue: once done is set
\* nothing more can be enqueued, since the destructor holds worker_mtx.
NoTaskStranded == \A w \in Worker : exited[w] => Tasks(w) = {}

\* A queued task gets its coroutine even when the worker has coroutines that
\* never end.
QueuedTasksStart == \A t \in Task : (stage[t] = "queued") ~> (stage[t] # "queued")

\* The invocation completes: every joined task finishes and ~task gets through
\* wait() and the destructor of the pool.
Completion == <>(mpc = "end")

\* Nothing waits for ever: every queued task is started, whatever else runs on
\* its worker, and the top-level invocation gets through its own destruction.
Progress == QueuedTasksStart /\ Completion
=============================================================================
