--------------------------- MODULE KernelService ---------------------------
(***************************************************************************)
(* How a blocked stream operation of the host program finds out that no    *)
(* kernel instance will ever serve it (tapa-lib/tapa/host/task.cpp,        *)
(* task.h, stream.h).                                                      *)
(*                                                                         *)
(* Instances 1, 2, ... are invoked in this order by one thread; each is    *)
(* bound to one stream, on whose other end a host task performs blocking   *)
(* operations.  What the host task can transfer now is the stream's room:  *)
(* elements when it reads, free slots when it writes.  The two global      *)
(* counters are separate atomics, so every load of one is a step.          *)
(***************************************************************************)
EXTENDS Naturals

CONSTANTS
  NInst,      \* kernel instances the program invokes
  Depth,      \* depth of each stream
  Want,       \* bound: transfers each host task performs
  Sequential  \* is an instance bound only after the earlier ones finished

ASSUME ServiceAssumption ==
  NInst \in Nat /\ Depth \in Nat \ {0} /\ Want \in Nat /\ Sequential \in BOOLEAN

Inst == 1..NInst

VARIABLES
  inFlight, finished, \* frt_instances_in_flight, frt_instances_finished
  phase,     \* of each instance: new, scheduled, finishing, done
  serves,    \* transfers a kernel performs before it stops
  served,    \* transfers it has performed
  room,      \* transfers the host task can perform at once
  isArg, boundAt, \* is_frt_arg_ and bound_at_ of each stream
  next, bpc, bfin, \* the invoking thread: instance, position, loaded counter
  did,       \* transfers a host task has performed
  pc, fin    \* where a host task is, and the counter it has loaded
counters == <<inFlight, finished>>
binding == <<isArg, boundAt, next, bpc, bfin>>
host == <<did, pc, fin>>
serviceVars == <<counters, binding, host, phase, serves, served, room>>

\* LOG(FATAL) ends the process.
Alive == \A k \in Inst : pc[k] # "abort"

ServiceInit ==
  /\ inFlight = 0 /\ finished = 0
  /\ phase = [k \in Inst |-> "new"]
  /\ serves \in [Inst -> 0..Want]
  /\ served = [k \in Inst |-> 0]
  /\ room \in [Inst -> {0, Depth}]    \* the host reads, or writes
  /\ isArg = [k \in Inst |-> FALSE] /\ boundAt = [k \in Inst |-> 0]
  /\ next = 1 /\ bpc = "bind" /\ bfin = 0
  /\ did = [k \in Inst |-> 0]
  /\ pc = [k \in Inst |-> "op"] /\ fin = [k \in Inst |-> 0]
-----------------------------------------------------------------------------
(* Invoking an instance: get_frt_stream, then schedule_frt_instance *)

LoadAtBind ==
  /\ Alive /\ bpc = "bind" /\ next \in Inst
  /\ Sequential => \A k \in Inst : k < next => phase[k] = "done"
  /\ bfin' = finished /\ bpc' = "store"
  /\ UNCHANGED <<counters, isArg, boundAt, next, host, phase, serves, served, room>>

\* Mutant: the stream is bound to the total that includes its own instance.
BindLateMutant ==
  /\ Alive /\ bpc = "store"
  /\ boundAt' = [boundAt EXCEPT ![next] = bfin + inFlight + 1]
  /\ isArg' = [isArg EXCEPT ![next] = TRUE]
  /\ bpc' = "schedule"
  /\ UNCHANGED <<counters, next, bfin, host, phase, serves, served, room>>

Bind ==
  /\ Alive /\ bpc = "store"
  /\ boundAt' = [boundAt EXCEPT ![next] = bfin + inFlight]
  /\ isArg' = [isArg EXCEPT ![next] = TRUE]
  /\ bpc' = "schedule"
  /\ UNCHANGED <<counters, next, bfin, host, phase, serves, served, room>>

Schedule ==
  /\ Alive /\ bpc = "schedule"
  /\ inFlight' = inFlight + 1
  /\ phase' = [phase EXCEPT ![next] = "scheduled"]
  /\ next' = next + 1 /\ bpc' = "bind"
  /\ UNCHANGED <<finished, isArg, boundAt, bfin, host, serves, served, room>>
-----------------------------------------------------------------------------
(* The instance: external while it runs, then note_frt_instance_finished *)

Serve(k) ==
  /\ Alive /\ phase[k] = "scheduled" /\ served[k] < serves[k] /\ room[k] < Depth
  /\ served' = [served EXCEPT ![k] = @ + 1]
  /\ room' = [room EXCEPT ![k] = @ + 1]
  /\ UNCHANGED <<counters, binding, host, phase, serves>>

AddFinished(k) ==
  /\ Alive /\ phase[k] = "scheduled" /\ served[k] = serves[k]
  /\ finished' = finished + 1
  /\ phase' = [phase EXCEPT ![k] = "finishing"]
  /\ UNCHANGED <<inFlight, binding, host, serves, served, room>>

SubInFlight(k) ==
  /\ Alive /\ phase[k] = "finishing"
  /\ inFlight' = inFlight - 1
  /\ phase' = [phase EXCEPT ![k] = "done"]
  /\ UNCHANGED <<finished, binding, host, serves, served, room>>
-----------------------------------------------------------------------------
(* A host task: blocking reads or writes with check_kernel_can_still_serve *)

Goto(k, label) == pc' = [pc EXCEPT ![k] = label]

Transfer(k) ==
  /\ Alive /\ pc[k] = "op" /\ did[k] < Want /\ room[k] > 0
  /\ room' = [room EXCEPT ![k] = @ - 1]
  /\ did' = [did EXCEPT ![k] = @ + 1]
  /\ UNCHANGED <<counters, binding, pc, fin, phase, serves, served>>

Block(k) ==
  /\ Alive /\ pc[k] = "op" /\ did[k] < Want /\ room[k] = 0
  /\ Goto(k, "total")
  /\ UNCHANGED <<counters, binding, did, fin, phase, serves, served, room>>

\* is_kernel_bound: the flag and the first counter ...
LoadTotal(k) ==
  /\ Alive /\ pc[k] = "total"
  /\ fin' = [fin EXCEPT ![k] = finished]
  /\ Goto(k, IF isArg[k] THEN "compare" ELSE "op")
  /\ UNCHANGED <<counters, binding, did, phase, serves, served, room>>

\* Mutant: a bound stream counts as served from the moment it is an argument.
CompareMutant(k) ==
  /\ Alive /\ pc[k] = "compare"
  /\ Goto(k, "every")
  /\ UNCHANGED <<counters, binding, did, fin, phase, serves, served, room>>

\* ... then the second, and the total at bind time.
Compare(k) ==
  /\ Alive /\ pc[k] = "compare"
  /\ Goto(k, IF fin[k] + inFlight > boundAt[k] THEN "every" ELSE "op")
  /\ UNCHANGED <<counters, binding, did, fin, phase, serves, served, room>>

EveryFinished(k) ==
  /\ Alive /\ pc[k] = "every"
  /\ Goto(k, IF finished > 0 /\ inFlight = 0 THEN "again" ELSE "op")
  /\ UNCHANGED <<counters, binding, did, fin, phase, serves, served, room>>

\* The operation is given up only if it is still blocked.
Recheck(k) ==
  /\ Alive /\ pc[k] = "again"
  /\ Goto(k, IF room[k] = 0 THEN "abort" ELSE "op")
  /\ UNCHANGED <<counters, binding, did, fin, phase, serves, served, room>>

HostStep(k) ==
  \/ Transfer(k) \/ Block(k) \/ LoadTotal(k) \/ Compare(k) \/ EveryFinished(k) \/ Recheck(k)
InstStep(k) == Serve(k) \/ AddFinished(k) \/ SubInFlight(k)
BindStep == LoadAtBind \/ Bind \/ Schedule

ServiceNext == BindStep \/ \E k \in Inst : HostStep(k) \/ InstStep(k)

\* Threads run; a kernel performs its transfers when it can and then ends.
ServiceFairness ==
  /\ WF_serviceVars(BindStep)
  /\ \A k \in Inst : WF_serviceVars(HostStep(k)) /\ WF_serviceVars(InstStep(k))
ServiceSpec == ServiceInit /\ [][ServiceNext]_serviceVars /\ ServiceFairness
-----------------------------------------------------------------------------
(* Properties *)

\* Types of the counters and of the tasks' state.
ServiceTypeOK ==
  /\ inFlight \in 0..NInst /\ finished \in 0..NInst
  /\ phase \in [Inst -> {"new", "scheduled", "finishing", "done"}]
  /\ serves \in [Inst -> 0..Want] /\ served \in [Inst -> 0..Want]
  /\ room \in [Inst -> 0..Depth] /\ isArg \in [Inst -> BOOLEAN]
  /\ boundAt \in [Inst -> 0..(NInst + 1)] /\ next \in 1..(NInst + 1)
  /\ bpc \in {"bind", "store", "schedule"} /\ bfin \in 0..NInst
  /\ did \in [Inst -> 0..Want] /\ fin \in [Inst -> 0..NInst]
  /\ pc \in [Inst -> {"op", "total", "compare", "every", "again", "abort"}]

\* check_kernel_can_still_serve aborts only an operation that can never
\* complete: the instance behind the stream has finished and left nothing.
\* In particular it does not abort while that instance is yet to be scheduled,
\* nor when the last transfer came in between two of its looks.
AbortIsJustified ==
  \A k \in Inst : pc[k] = "abort" => phase[k] = "done" /\ room[k] = 0 /\ did[k] < Want

\* No host task waits for ever for a kernel that has stopped: all transfers
\* are made or the process aborts.
NoSilentHang == <>(~Alive \/ \A k \in Inst : did[k] = Want)
=============================================================================
