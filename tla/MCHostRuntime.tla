--------------------------- MODULE MCHostRuntime ---------------------------
(***************************************************************************)
(* The host library's scheduler and its bookkeeping of kernel instances,   *)
(* checked in one run.  Neither reads the other's state, so a behaviour is *)
(* about one of them (layer), and the other stays as it starts.            *)
(*                                                                         *)
(* Main invokes an upper task and a joined leaf; the upper task invokes a  *)
(* joined leaf and a detached server.  In the D definitions main detaches  *)
(* an upper task that detaches a server, as tests/apps/network does.       *)
(***************************************************************************)
EXTENDS TaskScheduler, KernelService, TLC

CONSTANTS upper, leaf, child, server, stage0, switch
MCTask == {upper, leaf, child, server}
MCParent == (upper :> Main @@ leaf :> Main @@ child :> upper @@ server :> upper)
MCDetached == {server}
MCServer == {server}
MCTaskD == {leaf, stage0, switch}
MCParentD == (leaf :> Main @@ stage0 :> Main @@ switch :> stage0)
MCDetachedD == {stage0, switch}
MCServerD == {switch}

VARIABLE layer
mcVars == <<layer, vars, serviceVars>>

MCInit ==
  /\ layer \in {"scheduler", "service"}
  /\ Init /\ ServiceInit
  /\ layer = "scheduler" => \A k \in Inst : serves[k] = 0 /\ room[k] = 0

MainThread == layer = "scheduler" /\ MainStep
WorkerThread(w) == layer = "scheduler" /\ WorkerStep(w)
Invoker == layer = "service" /\ BindStep
HostTask(k) == layer = "service" /\ HostStep(k)
Instance(k) == layer = "service" /\ InstStep(k)

MCNext ==
  \/ (MainThread \/ \E w \in Worker : WorkerThread(w)) /\ UNCHANGED <<layer, serviceVars>>
  \/ (Invoker \/ \E k \in Inst : HostTask(k) \/ Instance(k)) /\ UNCHANGED <<layer, vars>>

\* The fairness of TaskScheduler and of KernelService.
MCSpec ==
  /\ MCInit /\ [][MCNext]_mcVars
  /\ WF_vars(MainThread) /\ \A w \in Worker : WF_vars(WorkerThread(w))
  /\ WF_serviceVars(Invoker)
  /\ \A k \in Inst : WF_serviceVars(HostTask(k)) /\ WF_serviceVars(Instance(k))

\* Progress in the behaviours that are about the scheduler.
SchedulerProgress == layer = "scheduler" => Progress

\* Completion in the behaviours that are about the scheduler: "An invocation
\* waits for all joined tasks [...] Detached tasks do not hold up completion"
\* (docs/src/howto/software-simulation.md).
SchedulerCompletes == layer = "scheduler" => Completion

\* NoSilentHang in the behaviours that are about kernel instances.
HostIsAnswered == layer = "service" => NoSilentHang
=============================================================================
