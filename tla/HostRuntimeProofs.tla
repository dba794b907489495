------------------------- MODULE HostRuntimeProofs --------------------------
(***************************************************************************)
(* Proofs about the host runtime of tapa-lib: the coroutine scheduler and  *)
(* the accounting of kernel instances.                                     *)
(*                                                                         *)
(* TaskScheduler, for every program tree, every number of workers and      *)
(* every choice of detached tasks.                                         *)
(* joined_tasks alone says nothing about children still to be invoked; the *)
(* argument is that a task is new exactly while its parent has yet to      *)
(* invoke it (TodoInv), that a task which has returned has invoked all its *)
(* children (DoneInv), and that whoever has enqueued a task it has not yet *)
(* counted holds worker_mtx (AddInv).  When wait() sees zero under the     *)
(* lock, an unfinished awaited task whose parent is not such a task can    *)
(* neither be new nor be counted, and TreeAssumption provides one.         *)
(*                                                                         *)
(* KernelService, for any number of instances, any depth and any demand:   *)
(* check_kernel_can_still_serve aborts only an operation that can never    *)
(* complete, provided the instances run one after the other.  (Without     *)
(* that proviso it is false: the overlapping run shows the counterexample.)*)
(***************************************************************************)
EXTENDS TaskScheduler, KernelService, FiniteSetTheorems, TLAPS

-----------------------------------------------------------------------------
(* The scheduler: the inductive invariant *)

AddInv ==
  \A x \in Thread : adding[x] # None =>
    /\ lock = x
    /\ x = Main => mpc = "run"
    /\ stage[adding[x]] # "new"
    /\ Joined(adding[x]) => adding[x] \in Outstanding

TodoInv ==
  \A t \in Task :
    /\ \A p \in Body : t \in todo[p] => p = Parent[t] /\ stage[t] = "new"
    /\ stage[t] = "new" => t \in todo[Parent[t]]

DoneInv ==
  \A t \in Task :
    /\ stage[t] \in {"returned", "finished"} => todo[t] = {}
    /\ stage[t] = "returned" => Joined(t)

StopInv ==
  /\ mpc \in {"stop", "join"} => lock = Main
  /\ \A w \in Worker : done[w] => mpc \in {"stop", "join", "end"}
  /\ \A w \in Worker : exited[w] => done[w] /\ cur[w] = None /\ turn[w] = {}
  /\ mpc = "stop" => \A w \in Worker : done[w] => exited[w]
  /\ \A v, w \in Worker : v < w /\ done[w] => exited[v]
  /\ mpc = "end" => \A w \in Worker : exited[w]

IInv ==
  /\ TypeOK /\ AddInv /\ TodoInv /\ DoneInv /\ StopInv
  /\ JoinedCountExact /\ WaitCoversDescendants /\ NoTaskStranded
-----------------------------------------------------------------------------
(* The actions that change a task's stage, and the rest. *)

StageStep ==
  \/ \E x \in Thread, c \in Task : Enqueue(x, c)
  \/ \E w \in Worker : Drain(w) \/ Return(w) \/ Uncount(w) \/ JoinWorker(w)

OtherStep ==
  \/ \E x \in Thread : Count(x)
  \/ Wait \/ LockMtx \/ LockPool \/ Deleted
  \/ \E w \in Worker : StopWorker(w) \/ Construct(w) \/ Exit(w) \/ Yield(w)
  \/ \E w \in Worker, t \in Task : Resume(w, t)

\* Every step of the scheduler is one of these.
LEMMA NextCases == Next => StageStep \/ OtherStep
  BY DEF Next, MainStep, WorkerStep, StageStep, OtherStep, Thread

\* Facts about the constants in the form the proofs use.
LEMMA Constants ==
  /\ Main \notin Task /\ None \notin Task /\ Main # None
  /\ Main \notin Worker /\ None \notin Worker
  /\ Thread = Worker \cup {Main} /\ Body = Task \cup {Main}
  /\ Parent \in [Task -> Body]
  /\ NWorker \in Nat \ {0} /\ 1 \in Worker
  BY SchedulerAssumption DEF Worker, Thread, Body

\* The code a thread runs is a task, main or nothing.
LEMMA RunsType ==
  ASSUME TypeOK, NEW x \in Thread
  PROVE  Runs(x) \in Body \cup {None}
  BY Constants DEF Runs, TypeOK

\* A new task is not yet outstanding, so the counted tasks are a finite set.
LEMMA CountedFinite == IsFiniteSet(Counted) /\ IsFiniteSet(Counted')
<1>1. Counted \in SUBSET Task /\ Counted' \in SUBSET Task
  BY DEF Counted, Outstanding
<1> QED
  BY <1>1, FS_Subset, SchedulerAssumption
-----------------------------------------------------------------------------
\* A fresh pool with every task still to be invoked satisfies the invariant.
LEMMA InitInv == Init => IInv
<1> SUFFICES ASSUME Init PROVE IInv
  OBVIOUS
<1>1. TypeOK
  BY Constants, SchedulerAssumption DEF Init, TypeOK, Children
<1>2. AddInv /\ StopInv /\ NoTaskStranded /\ WaitCoversDescendants
  BY Constants DEF Init, AddInv, StopInv, NoTaskStranded, WaitCoversDescendants
<1>3. TodoInv /\ DoneInv
  BY Constants DEF Init, TodoInv, DoneInv, Children
<1>4. JoinedCountExact
  <2>1. Counted = {}
    BY DEF Init, Counted, Outstanding
  <2> QED
    BY <2>1, FS_EmptySet DEF JoinedCountExact, Init
<1> QED
  BY <1>1, <1>2, <1>3, <1>4 DEF IInv
-----------------------------------------------------------------------------
(* One lemma per conjunct: what each action does to it. *)

\* A task is new exactly while its parent has yet to invoke it: only add_task
\* moves it out of todo, and only add_task ends its being new.
LEMMA TodoStep == IInv /\ Next => TodoInv'
<1> SUFFICES ASSUME IInv, Next PROVE TodoInv'
  OBVIOUS
<1>0. TypeOK /\ TodoInv
  BY DEF IInv
<1>1. ASSUME NEW x \in Thread, NEW c \in Task, Enqueue(x, c) PROVE TodoInv'
  BY <1>0, <1>1, Constants, RunsType DEF Enqueue, TodoInv, TypeOK
<1>2. ASSUME NEW w \in Worker, Drain(w) \/ Return(w) \/ Uncount(w) \/ JoinWorker(w)
      PROVE  TodoInv'
  BY <1>0, <1>2, Constants DEF Drain, Return, Uncount, JoinWorker, TodoInv, TypeOK,
     Tasks, Coroutines
<1>3. CASE OtherStep
  BY <1>0, <1>3 DEF OtherStep, Count, Wait, LockMtx, LockPool, Deleted, StopWorker,
     Construct, Exit, Yield, Resume, TodoInv, taskVars
<1> QED
  BY <1>1, <1>2, <1>3, NextCases DEF StageStep

\* A task's function returns only when it has invoked all its children, and only
\* a joined one goes through the wrapper that uncounts it.
LEMMA DoneStep == IInv /\ Next => DoneInv'
<1> SUFFICES ASSUME IInv, Next PROVE DoneInv'
  OBVIOUS
<1>0. TypeOK /\ DoneInv
  BY DEF IInv
<1>1. ASSUME NEW x \in Thread, NEW c \in Task, Enqueue(x, c) PROVE DoneInv'
  BY <1>0, <1>1, Constants, RunsType DEF Enqueue, DoneInv, TypeOK
<1>2. ASSUME NEW w \in Worker, Drain(w) \/ Return(w) \/ Uncount(w) \/ JoinWorker(w)
      PROVE  DoneInv'
  BY <1>0, <1>2, Constants DEF Drain, Return, Uncount, JoinWorker, DoneInv, TypeOK,
     Tasks, Coroutines
<1>3. CASE OtherStep
  BY <1>0, <1>3 DEF OtherStep, Count, Wait, LockMtx, LockPool, Deleted, StopWorker,
     Construct, Exit, Yield, Resume, DoneInv, taskVars
<1> QED
  BY <1>1, <1>2, <1>3, NextCases DEF StageStep

\* add_task holds worker_mtx from the enqueueing to the counting, so at most one
\* task is enqueued and uncounted, and it cannot have finished.
LEMMA AddStep == IInv /\ Next => AddInv'
<1> SUFFICES ASSUME IInv, Next PROVE AddInv'
  OBVIOUS
<1>0. TypeOK /\ AddInv /\ StopInv
  BY DEF IInv
<1>1. ASSUME NEW x \in Thread, NEW c \in Task, Enqueue(x, c) PROVE AddInv'
  BY <1>0, <1>1, Constants, RunsType DEF Enqueue, AddInv, TypeOK, Outstanding, Runs
<1>2. ASSUME NEW w \in Worker, Drain(w) \/ Return(w) PROVE AddInv'
  BY <1>0, <1>2, Constants DEF Drain, Return, AddInv, TypeOK, Outstanding, Tasks, poolVars
<1>3. ASSUME NEW w \in Worker, Uncount(w) PROVE AddInv'
  BY <1>0, <1>3, Constants DEF Uncount, AddInv, TypeOK
<1>4. ASSUME NEW w \in Worker, JoinWorker(w) PROVE AddInv'
  BY <1>0, <1>4, Constants DEF JoinWorker, AddInv, StopInv, TypeOK, poolVars
<1>5. ASSUME NEW x \in Thread, Count(x) PROVE AddInv'
  BY <1>0, <1>5, Constants DEF Count, AddInv, TypeOK, Outstanding, taskVars
<1>6. CASE Wait \/ LockMtx \/ LockPool \/ Deleted
  BY <1>0, <1>6, Constants DEF Wait, LockMtx, LockPool, Deleted, AddInv, StopInv, TypeOK,
     Outstanding, taskVars, poolVars
<1>7. ASSUME NEW w \in Worker, StopWorker(w) PROVE AddInv'
  BY <1>0, <1>7, Constants DEF StopWorker, AddInv, StopInv, TypeOK, Outstanding, taskVars,
     poolVars
<1>8. ASSUME NEW w \in Worker,
             Construct(w) \/ Exit(w) \/ Yield(w) \/ \E t \in Task : Resume(w, t)
      PROVE  AddInv'
  BY <1>0, <1>8 DEF Construct, Exit, Yield, Resume, AddInv, Outstanding, taskVars, poolVars
<1> QED
  BY <1>1, <1>2, <1>3, <1>4, <1>5, <1>6, <1>7, <1>8, NextCases DEF StageStep, OtherStep

\* A worker that has exited runs nothing, so it takes no step.
LEMMA ExitedIsStill ==
  ASSUME IInv, NEW w \in Worker, exited[w], NEW c \in Task
  PROVE  /\ ~Enqueue(w, c) /\ ~Construct(w) /\ ~Yield(w) /\ ~Return(w) /\ ~Uncount(w)
         /\ ~Resume(w, c) /\ ~Drain(w) /\ ~Exit(w)
<1>1. cur[w] = None /\ turn[w] = {} /\ scope \subseteq Body /\ w # Main
  BY Constants DEF IInv, StopInv, TypeOK
<1> QED
  BY <1>1, Constants DEF Enqueue, Runs, Construct, Yield, Return, Uncount, Resume, Drain,
     Exit, AtTop

\* The destructor of the pool stops and joins the workers one after the other
\* with worker_mtx held, and a worker that has left its loop runs nothing.
LEMMA StopStep == IInv /\ Next => StopInv'
<1> SUFFICES ASSUME IInv, Next PROVE StopInv'
  OBVIOUS
<1>0. TypeOK /\ AddInv /\ StopInv
  BY DEF IInv
<1>1. ASSUME NEW x \in Thread, NEW c \in Task, Enqueue(x, c) PROVE StopInv'
  BY <1>0, <1>1, Constants DEF Enqueue, StopInv, workerVars
<1>2. ASSUME NEW x \in Thread, Count(x) PROVE StopInv'
  BY <1>0, <1>2, Constants DEF Count, AddInv, StopInv, workerVars
<1>3. CASE Wait \/ LockMtx \/ LockPool \/ Deleted
  BY <1>0, <1>3, Constants DEF Wait, LockMtx, LockPool, Deleted, StopInv, workerVars, poolVars
<1>4. ASSUME NEW w \in Worker, StopWorker(w) PROVE StopInv'
  <2>1. \A v \in Worker : v < w => v \in 1..(w - 1)
    BY Constants DEF Worker
  <2>2. \A v, u \in Worker : v < u /\ done'[u] => exited[v]
    BY <1>0, <1>4, <2>1 DEF StopWorker, StopInv, TypeOK
  <2> QED
    BY <1>0, <1>4, <2>2, Constants DEF StopWorker, StopInv, TypeOK, poolVars
<1>5. ASSUME NEW w \in Worker, JoinWorker(w) PROVE StopInv'
  <2>1. \A v \in Worker : done[v] => exited[v]
    <3> SUFFICES ASSUME NEW v \in Worker, done[v] PROVE exited[v]
      OBVIOUS
    <3>1. v < w \/ v = w \/ v \in (w + 1)..NWorker
      BY Constants DEF Worker
    <3> QED
      BY <1>0, <1>5, <3>1 DEF JoinWorker, StopInv
  <2> QED
    BY <1>0, <1>5, <2>1, Constants DEF JoinWorker, StopInv, workerVars, poolVars
<1>6. ASSUME NEW w \in Worker, Exit(w) PROVE StopInv'
  BY <1>0, <1>6, Constants DEF Exit, AtTop, StopInv, TypeOK, poolVars
<1>7. ASSUME NEW w \in Worker, NEW t \in Task,
             Construct(w) \/ Drain(w) \/ Resume(w, t) \/ Yield(w) \/ Return(w) \/ Uncount(w)
      PROVE  StopInv'
  <2>1. ~exited[w]
    BY <1>7, ExitedIsStill
  <2>2. /\ lock' = lock /\ mpc' = mpc /\ done' = done /\ exited' = exited
        /\ \A v \in Worker \ {w} : cur'[v] = cur[v] /\ turn'[v] = turn[v]
    BY <1>0, <1>7 DEF Construct, Drain, Resume, Yield, Return, Uncount, TypeOK, workerVars,
       poolVars
  <2> QED
    BY <1>0, <2>1, <2>2 DEF StopInv
<1>8. CASE Task = {}
  BY <1>0, <1>3, <1>4, <1>5, <1>6, <1>8, <1>2, NextCases, Constants DEF StageStep, OtherStep,
     Construct, Drain, Return, Uncount, Yield, TypeOK, Tasks, Coroutines
<1> QED
  BY <1>1, <1>2, <1>3, <1>4, <1>5, <1>6, <1>7, <1>8, NextCases DEF StageStep, OtherStep

\* No step puts a task into the queue of a worker that has left its loop: after
\* done is set the lock that add_task needs is never free.
LEMMA StrandStep == IInv /\ Next => NoTaskStranded'
<1> SUFFICES ASSUME IInv, Next PROVE NoTaskStranded'
  OBVIOUS
<1>0. TypeOK /\ NoTaskStranded /\ StopInv
  BY DEF IInv
<1>1. ASSUME NEW x \in Thread, NEW c \in Task, Enqueue(x, c) PROVE NoTaskStranded'
  <2>1. \A w \in Worker : ~exited[w]
    <3> SUFFICES ASSUME NEW w \in Worker, exited[w] PROVE FALSE
      OBVIOUS
    <3>1. mpc = "end"
      BY <1>0, <1>1, Constants DEF StopInv, Enqueue
    <3>2. CASE x \in Worker
      BY <1>0, <1>1, <3>1, <3>2, ExitedIsStill DEF StopInv
    <3>3. CASE x = Main
      BY <1>0, <1>1, <3>1, <3>3, Constants DEF Enqueue, Runs, TypeOK
    <3> QED
      BY <3>2, <3>3, Constants
  <2> QED
    BY <1>1, <2>1 DEF Enqueue, NoTaskStranded, workerVars
<1>2. ASSUME NEW w \in Worker, Drain(w) \/ Return(w) \/ Uncount(w) \/ JoinWorker(w)
      PROVE  NoTaskStranded'
  <2>1. exited' = exited /\ home' = home
    BY <1>2 DEF Drain, Return, Uncount, JoinWorker, workerVars
  <2>2. \A t \in Task : stage'[t] = "queued" => stage[t] = "queued"
    BY <1>0, <1>2 DEF Drain, Return, Uncount, JoinWorker, TypeOK
  <2> QED
    BY <1>0, <2>1, <2>2 DEF NoTaskStranded, Tasks
<1>3. ASSUME NEW w \in Worker, Exit(w) PROVE NoTaskStranded'
  BY <1>0, <1>3 DEF Exit, NoTaskStranded, Tasks, TypeOK, taskVars
<1>4. CASE OtherStep /\ UNCHANGED exited
  BY <1>0, <1>4 DEF OtherStep, Count, Wait, LockMtx, LockPool, Deleted, StopWorker,
     Construct, Exit, Yield, Resume, NoTaskStranded, Tasks, taskVars
<1>5. OtherStep => UNCHANGED exited \/ \E w \in Worker : Exit(w)
  BY DEF OtherStep, Count, Wait, LockMtx, LockPool, Deleted, StopWorker, Construct, Yield,
     Resume, workerVars
<1> QED
  BY <1>1, <1>2, <1>3, <1>4, <1>5, NextCases DEF StageStep

\* joined_tasks follows the set of counted tasks: Count adds one task to it, the
\* wrapper's decrement removes one, and no other step touches either.
LEMMA CountStep == IInv /\ Next => JoinedCountExact'
<1> SUFFICES ASSUME IInv, Next PROVE JoinedCountExact'
  OBVIOUS
<1>0. TypeOK /\ AddInv /\ TodoInv /\ DoneInv /\ JoinedCountExact
  BY DEF IInv
<1>a. UNCHANGED <<joined, Counted>> => JoinedCountExact'
  BY <1>0 DEF JoinedCountExact
<1>1. ASSUME NEW x \in Thread, NEW c \in Task, Enqueue(x, c) PROVE JoinedCountExact'
  <2>1. stage[c] = "new"
    BY <1>0, <1>1, Constants, RunsType DEF TodoInv, Enqueue, TypeOK
  <2>2. \A t \in Task : t # c => stage'[t] = stage[t]
    BY <1>0, <1>1 DEF Enqueue, TypeOK
  <2>3. Counted' = Counted
    BY <1>0, <1>1, <2>1, <2>2, Constants DEF Enqueue, Counted, Outstanding, TypeOK
  <2> QED
    BY <1>1, <1>a, <2>3 DEF Enqueue
<1>2. ASSUME NEW x \in Thread, Count(x) PROVE JoinedCountExact'
  <2> DEFINE c == adding[x]
  <2>1. c \in Task /\ Outstanding' = Outstanding
    BY <1>0, <1>2 DEF Count, TypeOK, Outstanding, taskVars
  <2>2. \A y \in Thread : y # x => adding[y] = None /\ adding'[y] = None
    BY <1>0, <1>2 DEF Count, AddInv, TypeOK
  <2>3. adding'[x] = None
    BY <1>0, <1>2 DEF Count, TypeOK
  <2>4. CASE Joined(c)
    <3>1. c \notin Counted /\ c \in Outstanding
      BY <1>0, <1>2, <2>4 DEF Counted, AddInv, Count
    <3>2. Counted' = Counted \cup {c}
      BY <2>1, <2>2, <2>3, <3>1, Constants DEF Counted, Outstanding
    <3>3. Cardinality(Counted') = Cardinality(Counted) + 1
      BY <3>1, <3>2, CountedFinite, FS_AddElement
    <3> QED
      BY <1>0, <1>2, <2>4, <3>3 DEF Count, JoinedCountExact
  <2>5. CASE ~Joined(c)
    <3>1. c \notin Outstanding
      BY <2>5 DEF Outstanding
    <3>2. Counted' = Counted
      BY <2>1, <2>2, <2>3, <3>1, Constants DEF Counted, Outstanding
    <3> QED
      BY <1>2, <1>a, <2>5, <3>2 DEF Count
  <2> QED
    BY <2>4, <2>5
<1>3. ASSUME NEW w \in Worker, Drain(w) \/ Return(w) \/ JoinWorker(w) PROVE JoinedCountExact'
  <2>1. Outstanding' = Outstanding
    BY <1>0, <1>3 DEF Drain, Return, JoinWorker, Outstanding, Tasks, Coroutines, TypeOK
  <2>2. UNCHANGED <<adding, joined>>
    BY <1>3 DEF Drain, Return, JoinWorker, poolVars
  <2> QED
    BY <1>a, <2>1, <2>2 DEF Counted
<1>4. ASSUME NEW w \in Worker, Uncount(w) PROVE JoinedCountExact'
  <2> DEFINE c == cur[w]
  <2>1. c \in Task /\ stage[c] = "returned" /\ Joined(c)
    BY <1>0, <1>4 DEF Uncount, TypeOK, DoneInv
  <2>2. \A x \in Thread : adding[x] = None /\ adding'[x] = None
    BY <1>0, <1>4, Constants DEF Uncount, AddInv
  <2>3. \A t \in Task : stage'[t] = IF t = c THEN "finished" ELSE stage[t]
    BY <1>0, <1>4 DEF Uncount, TypeOK
  <2>4. c \in Counted
    BY <2>1, <2>2, Constants DEF Counted, Outstanding
  <2>5. Counted' = Counted \ {c}
    BY <2>1, <2>2, <2>3, Constants DEF Counted, Outstanding
  <2>6. Cardinality(Counted') = Cardinality(Counted) - 1
    BY <2>4, <2>5, CountedFinite, FS_RemoveElement
  <2> QED
    BY <1>0, <1>4, <2>6 DEF Uncount, JoinedCountExact
<1>5. CASE OtherStep /\ ~\E x \in Thread : Count(x)
  <2>1. UNCHANGED <<stage, adding, joined>>
    BY <1>5 DEF OtherStep, Wait, LockMtx, LockPool, Deleted, StopWorker, Construct, Exit,
       Yield, Resume, taskVars, poolVars
  <2> QED
    BY <1>a, <2>1 DEF Counted, Outstanding
<1> QED
  BY <1>1, <1>2, <1>3, <1>4, <1>5, NextCases DEF StageStep

\* The parent of an awaited task is main or awaited.
LEMMA AwaitedParent ==
  ASSUME NEW t \in Awaited
  PROVE  t \in Task /\ Joined(t) /\ Parent[t] \in Awaited \cup {Main}
  BY DEF Awaited, Joined

\* When wait() finds joined_tasks at zero, no awaited task is unfinished.
LEMMA ZeroMeansFinished ==
  ASSUME IInv, todo[Main] = {}, lock = None, joined = 0
  PROVE  \A t \in Awaited : stage[t] = "finished"
<1> DEFINE S == {t \in Awaited : stage[t] # "finished"}
<1> SUFFICES ASSUME S # {} PROVE FALSE
  OBVIOUS
<1>0. TypeOK /\ AddInv /\ TodoInv /\ DoneInv /\ JoinedCountExact
  BY DEF IInv
<1>1. S \in SUBSET Task
  BY AwaitedParent
<1>2. PICK t \in S : Parent[t] \notin S
  BY <1>1, TreeAssumption
<1>3. t \in Task /\ Joined(t) /\ Parent[t] \in Awaited \cup {Main}
  BY AwaitedParent
<1>4. todo[Parent[t]] = {}
  BY <1>0, <1>2, <1>3, AwaitedParent DEF DoneInv
<1>5. stage[t] # "new"
  BY <1>0, <1>3, <1>4 DEF TodoInv
<1>6. t \in Counted
  BY <1>0, <1>3, <1>5, Constants DEF Counted, Outstanding, AddInv, TypeOK
<1>7. Counted = {}
  BY <1>0, CountedFinite, FS_EmptySet DEF JoinedCountExact
<1> QED
  BY <1>6, <1>7

\* A finished task stays finished.
LEMMA FinishedIsFinal ==
  ASSUME IInv, Next, NEW t \in Task, stage[t] = "finished"
  PROVE  stage'[t] = "finished"
<1>0. TypeOK /\ TodoInv
  BY DEF IInv
<1>1. ASSUME NEW x \in Thread, NEW c \in Task, Enqueue(x, c) PROVE stage'[t] = "finished"
  <2>1. stage[c] = "new"
    BY <1>0, <1>1, Constants, RunsType DEF TodoInv, Enqueue, TypeOK
  <2> QED
    BY <1>0, <1>1, <2>1 DEF Enqueue, TypeOK
<1>2. ASSUME NEW w \in Worker, Drain(w) \/ Return(w) \/ Uncount(w) \/ JoinWorker(w)
      PROVE  stage'[t] = "finished"
  BY <1>0, <1>2 DEF Drain, Return, Uncount, JoinWorker, Tasks, Coroutines, TypeOK
<1>3. CASE OtherStep
  BY <1>3 DEF OtherStep, Count, Wait, LockMtx, LockPool, Deleted, StopWorker,
     Construct, Exit, Yield, Resume, taskVars
<1> QED
  BY <1>1, <1>2, <1>3, NextCases DEF StageStep

\* wait() returns only with every awaited task finished, and they stay so.
LEMMA WaitStep == IInv /\ Next => WaitCoversDescendants'
<1> SUFFICES ASSUME IInv, Next, mpc' # "run", NEW t \in Awaited PROVE stage'[t] = "finished"
  BY DEF WaitCoversDescendants, Awaited
<1>1. t \in Task
  BY AwaitedParent
<1>2. Wait \/ mpc # "run"
  <2>1. CASE StageStep
    BY <2>1 DEF StageStep, Enqueue, Drain, Return, Uncount, JoinWorker
  <2>2. CASE OtherStep
    BY <2>2 DEF OtherStep, Count, LockMtx, LockPool, Deleted, StopWorker, Construct,
       Exit, Yield, Resume
  <2> QED
    BY <2>1, <2>2, NextCases
<1>3. stage[t] = "finished"
  BY <1>2, ZeroMeansFinished DEF Wait, IInv, WaitCoversDescendants
<1> QED
  BY <1>1, <1>3, FinishedIsFinal

\* Every step keeps the types; that joined_tasks stays a natural number rests on
\* its being the size of a set.
LEMMA TypeStep == IInv /\ Next => TypeOK'
<1> SUFFICES ASSUME IInv, Next PROVE TypeOK'
  OBVIOUS
<1>0. TypeOK
  BY DEF IInv
<1>a. joined' \in Nat
  BY CountStep, CountedFinite, FS_CardinalityType DEF JoinedCountExact
<1>1. ASSUME NEW x \in Thread, NEW c \in Task, Enqueue(x, c) PROVE TypeOK'
  BY <1>0, <1>1, <1>a, Constants DEF Enqueue, TypeOK, workerVars
<1>2. ASSUME NEW x \in Thread, Count(x) PROVE TypeOK'
  <2>1. it' \in Worker
    BY <1>0, <1>2, Constants DEF Count, TypeOK, Worker
  <2> QED
    BY <1>0, <1>2, <1>a, <2>1, Constants DEF Count, TypeOK, taskVars, workerVars
<1>3. ASSUME NEW w \in Worker, Drain(w) \/ Return(w) \/ Uncount(w) \/ JoinWorker(w)
      PROVE  TypeOK'
  <2>1. CASE Drain(w)
    BY <1>0, <2>1 DEF Drain, TypeOK, Tasks, Coroutines, poolVars
  <2>2. CASE Return(w)
    BY <1>0, <2>2 DEF Return, TypeOK, poolVars
  <2>3. CASE Uncount(w)
    BY <1>0, <1>a, <2>3 DEF Uncount, TypeOK
  <2>4. CASE JoinWorker(w)
    BY <1>0, <2>4 DEF JoinWorker, TypeOK, Coroutines, poolVars, workerVars
  <2> QED
    BY <1>3, <2>1, <2>2, <2>3, <2>4
<1>4. CASE Wait \/ LockMtx \/ LockPool \/ Deleted
  BY <1>0, <1>4, Constants DEF Wait, LockMtx, LockPool, Deleted, TypeOK, taskVars,
     workerVars, poolVars
<1>5. ASSUME NEW w \in Worker, StopWorker(w) \/ Construct(w) \/ Exit(w)
      PROVE  TypeOK'
  <2>1. CASE StopWorker(w)
    BY <1>0, <2>1 DEF StopWorker, TypeOK, taskVars, poolVars
  <2>2. CASE Construct(w)
    BY <1>0, <2>2, Constants DEF Construct, TypeOK, workerVars, poolVars
  <2>3. CASE Exit(w)
    BY <1>0, <2>3 DEF Exit, TypeOK, taskVars, poolVars
  <2> QED
    BY <1>5, <2>1, <2>2, <2>3
<1>6. ASSUME NEW w \in Worker, Yield(w) PROVE TypeOK'
  <2>1. yields' \in [Task -> 0..MaxYield]
    <3>1. \A n \in 0..MaxYield : n < MaxYield => n + 1 \in 0..MaxYield
      BY SchedulerAssumption
    <3>2. yields \in [Task -> 0..MaxYield] /\ cur[w] \in Task
      BY <1>0, <1>6 DEF Yield, TypeOK
    <3>3. \/ yields' = yields
          \/ yields[cur[w]] < MaxYield /\ yields' = [yields EXCEPT ![cur[w]] = @ + 1]
      BY <1>6 DEF Yield
    <3> QED
      BY <3>1, <3>2, <3>3
  <2> QED
    BY <1>0, <1>6, <2>1 DEF Yield, TypeOK, poolVars
<1>7. ASSUME NEW w \in Worker, NEW t \in Task, Resume(w, t) PROVE TypeOK'
  BY <1>0, <1>7 DEF Resume, TypeOK, taskVars, poolVars
<1> QED
  BY <1>1, <1>2, <1>3, <1>4, <1>5, <1>6, <1>7, NextCases DEF StageStep, OtherStep

\* The invariant holds in every state the scheduler reaches.
LEMMA Invariance == Spec => []IInv
<1>1. IInv /\ [Next]_vars => IInv'
  <2> SUFFICES ASSUME IInv, [Next]_vars PROVE IInv'
    OBVIOUS
  <2>1. CASE Next
    BY <2>1, TypeStep, AddStep, TodoStep, DoneStep, StopStep, CountStep, WaitStep, StrandStep
       DEF IInv
  <2>2. CASE UNCHANGED vars
    <3> USE <2>2 DEF vars, taskVars, workerVars, poolVars, IInv
    <3>1. TypeOK'
      BY DEF TypeOK
    <3>2. AddInv'
      BY DEF AddInv, Outstanding
    <3>3. TodoInv' /\ DoneInv'
      BY DEF TodoInv, DoneInv
    <3>4. StopInv'
      BY DEF StopInv
    <3>5. JoinedCountExact'
      BY DEF JoinedCountExact, Counted, Outstanding
    <3>6. WaitCoversDescendants' /\ NoTaskStranded'
      BY DEF WaitCoversDescendants, NoTaskStranded, Tasks
    <3> QED
      BY <3>1, <3>2, <3>3, <3>4, <3>5, <3>6
  <2> QED
    BY <2>1, <2>2
<1> QED
  BY <1>1, InitInv, PTL DEF Spec
-----------------------------------------------------------------------------
(* What follows for the scheduler *)

\* The state of the scheduler keeps its types; joined_tasks, a size_t, never
\* falls below zero.
THEOREM TypeCorrect == Spec => []TypeOK
  BY Invariance, PTL DEF IInv

\* Whatever tree of joined and detached tasks a program invokes, task::~task
\* gets past wait() only after every task whose ancestors are all joined.
THEOREM WaitIsComplete == Spec => []WaitCoversDescendants
  BY Invariance, PTL DEF IInv

\* joined_tasks is exact whenever worker_mtx is free.
THEOREM CountIsExact == Spec => []JoinedCountExact
  BY Invariance, PTL DEF IInv

\* No worker thread ends with a task still in its queue.
THEOREM NothingStranded == Spec => []NoTaskStranded
  BY Invariance, PTL DEF IInv
-----------------------------------------------------------------------------
(* Kernel instances *)

\* The types that the argument needs.
ServiceTypes ==
  /\ inFlight \in Nat /\ finished \in Nat /\ next \in Nat /\ bfin \in Nat
  /\ phase \in [Inst -> {"new", "scheduled", "finishing", "done"}]
  /\ isArg \in [Inst -> BOOLEAN] /\ boundAt \in [Inst -> Nat]
  /\ room \in [Inst -> Nat] /\ did \in [Inst -> Nat] /\ fin \in [Inst -> Nat]
  /\ pc \in [Inst -> {"op", "total", "compare", "every", "again", "abort"}]

\* One instance at a time: all before the one invoked last have finished, and
\* the counters say how far that one is.
OneAtATime ==
  /\ \A k \in Inst : k < next <=> phase[k] # "new"
  /\ \A k \in Inst : k + 1 < next => phase[k] = "done"
  /\ next = 1 => finished = 0 /\ inFlight = 0
  /\ \A k \in Inst : k + 1 = next =>
       /\ phase[k] = "scheduled" => finished + 1 = k /\ inFlight = 1
       /\ phase[k] = "finishing" => finished = k /\ inFlight = 1
       /\ phase[k] = "done" => finished = k /\ inFlight = 0

\* The invoking thread is between its loads only while nothing runs, so the
\* total it adds up is the number of earlier instances.
BoundInOrder ==
  /\ bpc # "bind" => /\ next \in Inst
                     /\ \A k \in Inst : k < next => phase[k] = "done"
                     /\ bfin + 1 = next
  /\ \A k \in Inst : isArg[k] => boundAt[k] + 1 = k
  /\ \A k \in Inst : isArg[k] <=> (k < next \/ (k = next /\ bpc = "schedule"))

\* What a host task has learned by the time it is at each place.
Knows(k) ==
  /\ pc[k] # "op" => did[k] < Want
  /\ fin[k] <= finished
  /\ pc[k] = "compare" => isArg[k]
  /\ pc[k] \in {"every", "again", "abort"} => k < next
  /\ pc[k] \in {"again", "abort"} => phase[k] = "done"
  /\ pc[k] = "abort" => room[k] = 0
HostKnows == \A k \in Inst : Knows(k)

ServiceInv == ServiceTypes /\ OneAtATime /\ BoundInOrder /\ HostKnows
-----------------------------------------------------------------------------
\* Instances are numbered from 1.
LEMMA InstFacts ==
  /\ NInst \in Nat /\ Inst \subseteq Nat
  /\ \A k \in Inst : k > 0
  /\ \A k \in Inst : k > 1 => k - 1 \in Inst
  BY ServiceAssumption DEF Inst

\* Initially no instance is bound and nobody waits.
LEMMA ServiceInitHolds == ServiceInit => ServiceInv
<1> SUFFICES ASSUME ServiceInit PROVE ServiceInv
  OBVIOUS
<1>1. ServiceTypes
  <2>1. room \in [Inst -> Nat]
    <3>1. {0, Depth} \subseteq Nat
      BY ServiceAssumption
    <3> QED BY <3>1 DEF ServiceInit
  <2> QED BY <2>1 DEF ServiceInit, ServiceTypes
<1>2. OneAtATime
  BY InstFacts DEF ServiceInit, OneAtATime
<1>3. BoundInOrder
  BY InstFacts DEF ServiceInit, BoundInOrder
<1>4. HostKnows
  BY DEF ServiceInit, HostKnows, Knows
<1> QED BY <1>1, <1>2, <1>3, <1>4 DEF ServiceInv

\* While an instance is under way it is the last one that was invoked, so the
\* counters are as OneAtATime says for it.
LEMMA UnderWay ==
  ASSUME ServiceInv, NEW k \in Inst, phase[k] \in {"scheduled", "finishing"}
  PROVE  /\ next = k + 1 /\ inFlight = 1 /\ bpc = "bind"
         /\ phase[k] = "scheduled" => finished + 1 = k
         /\ phase[k] = "finishing" => finished = k
<1>1. k \in Nat /\ next \in Nat
  BY InstFacts DEF ServiceInv, ServiceTypes
<1>2. k < next /\ ~(k + 1 < next)
  BY DEF ServiceInv, OneAtATime
<1>3. k + 1 = next
  BY <1>1, <1>2
<1>4. bpc = "bind"
  BY <1>2 DEF ServiceInv, BoundInOrder
<1> QED BY <1>3, <1>4 DEF ServiceInv, OneAtATime

\* When every instance invoked so far has finished, the counters say so.
LEMMA Quiet ==
  ASSUME ServiceTypes, OneAtATime, next \in Inst, \A k \in Inst : k < next => phase[k] = "done"
  PROVE  finished + 1 = next /\ inFlight = 0
<1>1. next \in Nat /\ next > 0 /\ finished \in Nat
  BY InstFacts DEF ServiceTypes
<1>2. CASE next = 1
  BY <1>1, <1>2 DEF OneAtATime
<1>3. CASE next > 1
  <2>1. next - 1 \in Inst /\ next - 1 < next /\ (next - 1) + 1 = next
    BY <1>1, <1>3, InstFacts
  <2>2. phase[next - 1] = "done"
    BY <2>1
  <2>3. finished = next - 1 /\ inFlight = 0
    BY <2>1, <2>2 DEF OneAtATime
  <2> QED BY <1>1, <2>3
<1> QED BY <1>1, <1>2, <1>3

\* Between its loads the invoking thread finds the counters at rest.
LEMMA AtRest ==
  ASSUME ServiceInv, bpc # "bind"
  PROVE  /\ next \in Inst /\ bfin + 1 = next /\ finished + 1 = next /\ inFlight = 0
         /\ \A k \in Inst : k < next => phase[k] = "done"
  BY Quiet DEF ServiceInv, BoundInOrder
-----------------------------------------------------------------------------
\* Every step keeps the types.
LEMMA TypesKept == ServiceInv /\ [ServiceNext]_serviceVars => ServiceTypes'
<1> SUFFICES ASSUME ServiceInv, [ServiceNext]_serviceVars PROVE ServiceTypes'
  OBVIOUS
<1>t. ServiceTypes
  BY DEF ServiceInv
<1>1. CASE LoadAtBind
  BY <1>1, <1>t DEF LoadAtBind, ServiceTypes, counters, host
<1>2. CASE Bind
  <2>1. next \in Inst /\ bfin + inFlight \in Nat
    BY <1>2, <1>t, AtRest DEF Bind, ServiceTypes
  <2>2. boundAt' \in [Inst -> Nat] /\ isArg' \in [Inst -> BOOLEAN]
    BY <1>2, <1>t, <2>1 DEF Bind, ServiceTypes
  <2> QED BY <1>2, <1>t, <2>2 DEF Bind, ServiceTypes, counters, host
<1>3. CASE Schedule
  <2>1. next \in Inst
    BY <1>3, AtRest DEF Schedule
  <2>2. phase' \in [Inst -> {"new", "scheduled", "finishing", "done"}]
    BY <1>3, <1>t, <2>1 DEF Schedule, ServiceTypes
  <2> QED BY <1>3, <1>t, <2>2 DEF Schedule, ServiceTypes, host
<1>4. ASSUME NEW k \in Inst, Serve(k) PROVE ServiceTypes'
  <2>1. room[k] \in Nat
    BY <1>t DEF ServiceTypes
  <2>2. room' \in [Inst -> Nat]
    BY <1>4, <1>t, <2>1 DEF Serve, ServiceTypes
  <2> QED BY <1>4, <1>t, <2>2 DEF Serve, ServiceTypes, counters, binding, host
<1>5. ASSUME NEW k \in Inst, AddFinished(k) PROVE ServiceTypes'
  <2>1. phase' \in [Inst -> {"new", "scheduled", "finishing", "done"}]
    BY <1>5, <1>t DEF AddFinished, ServiceTypes
  <2> QED BY <1>5, <1>t, <2>1 DEF AddFinished, ServiceTypes, binding, host
<1>6. ASSUME NEW k \in Inst, SubInFlight(k) PROVE ServiceTypes'
  <2>1. inFlight' \in Nat
    BY <1>6, UnderWay DEF SubInFlight
  <2>2. phase' \in [Inst -> {"new", "scheduled", "finishing", "done"}]
    BY <1>6, <1>t DEF SubInFlight, ServiceTypes
  <2> QED BY <1>6, <1>t, <2>1, <2>2 DEF SubInFlight, ServiceTypes, binding, host
<1>7. ASSUME NEW k \in Inst, Transfer(k) PROVE ServiceTypes'
  <2>1. room[k] - 1 \in Nat /\ did[k] + 1 \in Nat
    BY <1>7, <1>t DEF Transfer, ServiceTypes
  <2>2. room' \in [Inst -> Nat] /\ did' \in [Inst -> Nat]
    BY <1>7, <1>t, <2>1 DEF Transfer, ServiceTypes
  <2> QED BY <1>7, <1>t, <2>2 DEF Transfer, ServiceTypes, counters, binding
<1>8. ASSUME NEW k \in Inst, LoadTotal(k) PROVE ServiceTypes'
  <2>1. fin' \in [Inst -> Nat]
    BY <1>8, <1>t DEF LoadTotal, ServiceTypes
  <2>2. pc' \in [Inst -> {"op", "total", "compare", "every", "again", "abort"}]
    BY <1>8, <1>t DEF LoadTotal, Goto, ServiceTypes
  <2> QED BY <1>8, <1>t, <2>1, <2>2 DEF LoadTotal, ServiceTypes, counters, binding
<1>9. ASSUME NEW k \in Inst, Block(k) \/ Compare(k) \/ EveryFinished(k) \/ Recheck(k) PROVE ServiceTypes'
  <2>1. pc' \in [Inst -> {"op", "total", "compare", "every", "again", "abort"}]
    BY <1>9, <1>t DEF Block, Compare, EveryFinished, Recheck, Goto, ServiceTypes
  <2> QED BY <1>9, <1>t, <2>1 DEF Block, Compare, EveryFinished, Recheck, ServiceTypes, counters, binding
<1>10. CASE UNCHANGED serviceVars
  BY <1>10, <1>t DEF serviceVars, ServiceTypes, counters, binding, host
<1> QED BY <1>1, <1>2, <1>3, <1>4, <1>5, <1>6, <1>7, <1>8, <1>9, <1>10
        DEF ServiceNext, BindStep, HostStep, InstStep

\* Every step keeps the instances one at a time, if they are sequential.
LEMMA OneAtATimeKept == ServiceInv /\ [ServiceNext]_serviceVars => OneAtATime'
<1> SUFFICES ASSUME ServiceInv, [ServiceNext]_serviceVars PROVE OneAtATime'
  OBVIOUS
<1>t. ServiceTypes /\ OneAtATime
  BY DEF ServiceInv
<1>n. /\ Inst \subseteq Nat /\ next \in Nat /\ finished \in Nat /\ inFlight \in Nat
      /\ phase \in [Inst -> {"new", "scheduled", "finishing", "done"}]
  BY <1>t, InstFacts DEF ServiceTypes
<1>1. CASE LoadAtBind \/ Bind
  BY <1>1, <1>t DEF LoadAtBind, Bind, OneAtATime, counters
<1>2. CASE Schedule
  <2>1. /\ next \in Inst /\ inFlight = 0 /\ finished + 1 = next
        /\ \A k \in Inst : k < next => phase[k] = "done"
    BY <1>2, AtRest DEF Schedule
  <2>2. /\ next' = next + 1 /\ finished' = finished /\ inFlight' = 1
        /\ phase' = [phase EXCEPT ![next] = "scheduled"]
    BY <1>2, <2>1 DEF Schedule
  <2>3. phase'[next] = "scheduled" /\ \A k \in Inst : k # next => phase'[k] = phase[k]
    BY <1>n, <2>1, <2>2
  <2>4. next > 0
    BY <2>1, InstFacts
  <2> QED BY ONLY <1>n, <1>t, <2>1, <2>2, <2>3, <2>4 DEF OneAtATime
<1>3. ASSUME NEW k \in Inst, Serve(k) \/ HostStep(k) PROVE OneAtATime'
  BY <1>3, <1>t DEF Serve, HostStep, Transfer, Block, LoadTotal, Compare, EveryFinished, Recheck,
                    OneAtATime, counters, binding
<1>4. ASSUME NEW k \in Inst, AddFinished(k) PROVE OneAtATime'
  <2>1. next = k + 1 /\ finished + 1 = k /\ inFlight = 1
    BY <1>4, UnderWay DEF AddFinished
  <2>2. phase'[k] = "finishing" /\ \A j \in Inst : j # k => phase'[j] = phase[j]
    BY <1>4, <1>n DEF AddFinished
  <2>3. next' = next /\ finished' = finished + 1 /\ inFlight' = inFlight /\ phase[k] = "scheduled"
    BY <1>4 DEF AddFinished, binding
  <2>4. k > 0
    BY InstFacts
  <2> QED BY ONLY <1>n, <1>t, <2>1, <2>2, <2>3, <2>4, k \in Inst DEF OneAtATime
<1>5. ASSUME NEW k \in Inst, SubInFlight(k) PROVE OneAtATime'
  <2>1. next = k + 1 /\ finished = k /\ inFlight = 1
    BY <1>5, UnderWay DEF SubInFlight
  <2>2. phase'[k] = "done" /\ \A j \in Inst : j # k => phase'[j] = phase[j]
    BY <1>5, <1>n DEF SubInFlight
  <2>3. next' = next /\ finished' = finished /\ inFlight' = inFlight - 1 /\ phase[k] = "finishing"
    BY <1>5 DEF SubInFlight, binding
  <2>4. k > 0
    BY InstFacts
  <2> QED BY ONLY <1>n, <1>t, <2>1, <2>2, <2>3, <2>4, k \in Inst DEF OneAtATime
<1>6. CASE UNCHANGED serviceVars
  BY <1>6, <1>t DEF serviceVars, OneAtATime, counters, binding
<1> QED BY <1>1, <1>2, <1>3, <1>4, <1>5, <1>6 DEF ServiceNext, BindStep, InstStep

\* Every step keeps the bindings in the order of the instances.
LEMMA BoundInOrderKept == ASSUME Sequential PROVE ServiceInv /\ [ServiceNext]_serviceVars => BoundInOrder'
<1> SUFFICES ASSUME ServiceInv, [ServiceNext]_serviceVars PROVE BoundInOrder'
  OBVIOUS
<1>t. ServiceTypes /\ OneAtATime /\ BoundInOrder
  BY DEF ServiceInv
<1>n. /\ Inst \subseteq Nat /\ next \in Nat /\ finished \in Nat /\ inFlight \in Nat /\ bfin \in Nat
      /\ boundAt \in [Inst -> Nat] /\ isArg \in [Inst -> BOOLEAN]
      /\ phase \in [Inst -> {"new", "scheduled", "finishing", "done"}]
  BY <1>t, InstFacts DEF ServiceTypes
<1>1. CASE LoadAtBind
  <2>1. next \in Inst /\ (\A k \in Inst : k < next => phase[k] = "done") /\ finished + 1 = next
    BY <1>1, <1>t, Quiet DEF LoadAtBind
  <2>2. /\ bfin' = finished /\ bpc' = "store" /\ bpc = "bind"
        /\ UNCHANGED <<isArg, boundAt, next, phase>>
    BY <1>1 DEF LoadAtBind
  <2> QED BY <1>t, <2>1, <2>2 DEF BoundInOrder
<1>2. CASE Bind
  <2>1. /\ next \in Inst /\ bfin + 1 = next /\ inFlight = 0 /\ next \in Nat
        /\ \A k \in Inst : k < next => phase[k] = "done"
    BY <1>2, <1>n, AtRest DEF Bind
  <2>2. /\ boundAt'[next] = bfin + inFlight /\ isArg'[next] = TRUE
        /\ \A k \in Inst : k # next => boundAt'[k] = boundAt[k] /\ isArg'[k] = isArg[k]
    BY <1>2, <1>n, <2>1 DEF Bind
  <2>3. /\ bpc' = "schedule" /\ bpc = "store" /\ next' = next /\ bfin' = bfin /\ phase' = phase
    BY <1>2 DEF Bind
  <2>4. boundAt'[next] + 1 = next
    BY <1>n, <2>1, <2>2
  <2> QED BY <1>n, <1>t, <2>1, <2>2, <2>3, <2>4 DEF BoundInOrder
<1>3. CASE Schedule
  <2>1. next \in Inst
    BY <1>3, AtRest DEF Schedule
  <2>2. bpc' = "bind" /\ bpc = "schedule" /\ next' = next + 1 /\ UNCHANGED <<isArg, boundAt>>
    BY <1>3 DEF Schedule
  <2>3. \A k \in Inst : k < next + 1 <=> (k < next \/ k = next)
    BY <1>n
  <2> QED BY <1>t, <2>2, <2>3 DEF BoundInOrder
<1>4. ASSUME NEW k \in Inst, Serve(k) \/ HostStep(k) PROVE BoundInOrder'
  BY <1>4, <1>t DEF Serve, HostStep, Transfer, Block, LoadTotal, Compare, EveryFinished, Recheck,
                    BoundInOrder, binding
<1>5. ASSUME NEW k \in Inst, AddFinished(k) \/ SubInFlight(k) PROVE BoundInOrder'
  <2>1. bpc = "bind"
    BY <1>5, UnderWay DEF AddFinished, SubInFlight
  <2> QED BY <1>5, <1>t, <2>1 DEF AddFinished, SubInFlight, BoundInOrder, binding
<1>6. CASE UNCHANGED serviceVars
  BY <1>6, <1>t DEF serviceVars, BoundInOrder, binding
<1> QED BY <1>1, <1>2, <1>3, <1>4, <1>5, <1>6 DEF ServiceNext, BindStep, InstStep

\* A host task's move changes only where it is itself.
LEMMA GotoFacts ==
  ASSUME ServiceTypes, NEW k \in Inst, NEW l, Goto(k, l)
  PROVE  pc'[k] = l /\ \A j \in Inst : j # k => pc'[j] = pc[j]
  BY DEF ServiceTypes, Goto

\* Every step keeps what the host tasks know: a total above the one at bind
\* time means that the instance has been invoked, and a moment without any in
\* flight means that it has finished.
LEMMA HostKnowsKept == ServiceInv /\ [ServiceNext]_serviceVars => HostKnows'
<1> SUFFICES ASSUME ServiceInv, [ServiceNext]_serviceVars, NEW j \in Inst
             PROVE  Knows(j)'
  BY DEF HostKnows
<1>t. ServiceTypes /\ Knows(j)
  BY DEF ServiceInv, HostKnows
<1>n. /\ j \in Nat /\ next \in Nat /\ finished \in Nat /\ inFlight \in Nat
      /\ fin[j] \in Nat /\ did[j] \in Nat /\ Want \in Nat
      /\ phase \in [Inst -> {"new", "scheduled", "finishing", "done"}]
  BY <1>t, InstFacts, ServiceAssumption DEF ServiceTypes
<1>1. CASE LoadAtBind
  BY <1>1, <1>t DEF Knows, LoadAtBind, counters, host
<1>2. CASE Bind
  <2>1. next \in Inst
    BY <1>2, AtRest DEF Bind
  <2>2. isArg[j] => isArg'[j]
    BY <1>2, <1>t, <2>1 DEF Bind, ServiceTypes
  <2> QED BY <1>2, <1>t, <2>2 DEF Knows, Bind, counters, host
<1>3. CASE Schedule
  <2>1. next \in Inst /\ phase[next] = "new"
    BY <1>3, <1>n, AtRest DEF Schedule, ServiceInv, OneAtATime
  <2>2. phase[j] = "done" => phase'[j] = "done"
    BY <1>3, <1>n, <2>1 DEF Schedule
  <2>3. j < next => j < next'
    BY <1>3, <1>n DEF Schedule
  <2> QED BY <1>3, <1>t, <2>2, <2>3 DEF Knows, Schedule, host
<1>4. ASSUME NEW k \in Inst, Serve(k) PROVE Knows(j)'
  BY <1>4, <1>t DEF Knows, Serve, counters, binding, host, Alive
<1>5. ASSUME NEW k \in Inst, AddFinished(k) \/ SubInFlight(k) PROVE Knows(j)'
  <2>1. phase[j] = "done" => phase'[j] = "done"
    BY <1>5, <1>n DEF AddFinished, SubInFlight
  <2>2. fin[j] <= finished => fin[j] <= finished'
    BY <1>5, <1>n DEF AddFinished, SubInFlight
  <2> QED BY <1>5, <1>t, <2>1, <2>2 DEF Knows, AddFinished, SubInFlight, binding, host
<1>6. ASSUME NEW k \in Inst, Transfer(k) PROVE Knows(j)'
  <2>1. pc[j] # "op" => j # k
    BY <1>6 DEF Transfer
  <2>2. j # k => did'[j] = did[j] /\ room'[j] = room[j]
    BY <1>6, <1>t DEF Transfer, ServiceTypes
  <2> QED BY <1>6, <1>t, <2>1, <2>2 DEF Knows, Transfer, counters, binding
<1>7. ASSUME NEW k \in Inst, Block(k) PROVE Knows(j)'
  <2>1. pc'[k] = "total" /\ (j # k => pc'[j] = pc[j])
    BY <1>7, <1>t, GotoFacts DEF Block
  <2> QED BY <1>7, <1>t, <2>1 DEF Knows, Block, counters, binding
<1>8. ASSUME NEW k \in Inst, LoadTotal(k) PROVE Knows(j)'
  <2>1. pc'[k] = (IF isArg[k] THEN "compare" ELSE "op") /\ (j # k => pc'[j] = pc[j])
    BY <1>8, <1>t, GotoFacts DEF LoadTotal
  <2>2. fin'[j] <= finished
    BY <1>8, <1>t, <1>n DEF LoadTotal, ServiceTypes, Knows
  <2> QED BY <1>8, <1>t, <2>1, <2>2 DEF Knows, LoadTotal, counters, binding
<1>9. ASSUME NEW k \in Inst, Compare(k) PROVE Knows(j)'
  <2>1. isArg[k] /\ boundAt[k] + 1 = k /\ fin[k] <= finished
    BY <1>9 DEF Compare, ServiceInv, HostKnows, Knows, BoundInOrder
  <2>2. ASSUME fin[k] + inFlight > boundAt[k] PROVE k < next
    <3> SUFFICES ASSUME ~(k < next) PROVE FALSE
      OBVIOUS
    <3>1. k = next /\ bpc = "schedule"
      BY <2>1 DEF ServiceInv, BoundInOrder
    <3>2. finished + 1 = next /\ inFlight = 0
      BY <3>1, AtRest
    <3>3. fin[k] \in Nat /\ boundAt[k] \in Nat /\ k \in Nat
      BY <1>t, InstFacts DEF ServiceTypes
    <3> QED BY ONLY <2>1, <2>2, <3>1, <3>2, <3>3, <1>n
  <2>3. /\ pc'[k] = (IF fin[k] + inFlight > boundAt[k] THEN "every" ELSE "op")
        /\ j # k => pc'[j] = pc[j]
    BY <1>9, <1>t, GotoFacts DEF Compare
  <2> QED BY <1>9, <1>t, <2>2, <2>3 DEF Knows, Compare, counters, binding
<1>10. ASSUME NEW k \in Inst, EveryFinished(k) PROVE Knows(j)'
  <2>1. k < next
    BY <1>10 DEF EveryFinished, ServiceInv, HostKnows, Knows
  <2>2. ASSUME inFlight = 0 PROVE phase[k] = "done"
    <3>1. phase[k] # "new"
      BY <2>1 DEF ServiceInv, OneAtATime
    <3>2. phase[k] \notin {"scheduled", "finishing"}
      BY <2>2, UnderWay
    <3> QED BY <3>1, <3>2, <1>n
  <2>3. /\ pc'[k] = (IF finished > 0 /\ inFlight = 0 THEN "again" ELSE "op")
        /\ j # k => pc'[j] = pc[j]
    BY <1>10, <1>t, GotoFacts DEF EveryFinished
  <2> QED BY <1>10, <1>t, <2>1, <2>2, <2>3 DEF Knows, EveryFinished, counters, binding
<1>11. ASSUME NEW k \in Inst, Recheck(k) PROVE Knows(j)'
  <2>1. /\ pc'[k] = (IF room[k] = 0 THEN "abort" ELSE "op")
        /\ j # k => pc'[j] = pc[j]
    BY <1>11, <1>t, GotoFacts DEF Recheck
  <2> QED BY <1>11, <1>t, <2>1 DEF Knows, Recheck, counters, binding
<1>12. CASE UNCHANGED serviceVars
  BY <1>12, <1>t DEF Knows, serviceVars, counters, binding, host
<1> QED BY <1>1, <1>2, <1>3, <1>4, <1>5, <1>6, <1>7, <1>8, <1>9, <1>10, <1>11, <1>12
        DEF ServiceNext, BindStep, InstStep, HostStep

\* The invariant is inductive when instances run one after the other.
LEMMA ServiceInvariance == ASSUME Sequential PROVE ServiceSpec => []ServiceInv
<1>1. ServiceInv /\ [ServiceNext]_serviceVars => ServiceInv'
  BY TypesKept, OneAtATimeKept, BoundInOrderKept, HostKnowsKept DEF ServiceInv
<1> QED BY ServiceInitHolds, <1>1, PTL DEF ServiceSpec

\* check_kernel_can_still_serve: with instances that run one after the other,
\* the abort is justified whatever the interleaving of the two counters' loads
\* with binding, scheduling, transfers and completion.
THEOREM AbortCorrect == ASSUME Sequential PROVE ServiceSpec => []AbortIsJustified
<1>1. ServiceInv => AbortIsJustified
  BY DEF ServiceInv, HostKnows, Knows, AbortIsJustified
<1> QED BY ServiceInvariance, <1>1, PTL

\* note_frt_instance_finished never takes frt_instances_in_flight below zero,
\* and adds to frt_instances_finished before it subtracts.
THEOREM CountersNeverWrap ==
  ASSUME Sequential
  PROVE  ServiceSpec => [](\A k \in Inst : phase[k] = "finishing" => inFlight = 1 /\ finished = k)
<1>1. ServiceInv => \A k \in Inst : phase[k] = "finishing" => inFlight = 1 /\ finished = k
  BY UnderWay
<1> QED BY ServiceInvariance, <1>1, PTL
=============================================================================
