------------------------ MODULE RuntimeInstanceProofs -----------------------
(***************************************************************************)
(* Proofs about the co-simulation of module RuntimeInstance: what a host   *)
(* program may conclude from the end of a run, whichever of the poll, the  *)
(* timeout, the interrupt and the simulator's own end comes first.         *)
(*                                                                         *)
(* The inductive invariant says where the program and the simulation can   *)
(* be together (Together), what the simulator's end says of the run        *)
(* (Simulated), and where the results are at each point (Results).  The    *)
(* resumption of a run with a read-write buffer is set apart: there        *)
(* write_to_device overwrites the results before they are read.            *)
(***************************************************************************)
EXTENDS RuntimeInstance, TLAPS

\* A resumed run whose results write_to_device replaces by the host's input.
Overwritten == mode = "resume" /\ access = "ReadWrite"

\* The host program and the state of its simulation.
Together ==
  /\ pc \in {"bind", "write", "exec"} => state = "idle" /\ child = "none"
  /\ pc = "read" => state # "idle"
  /\ pc = "read" /\ mode = "resume" => state = "resuming"
  /\ pc = "read" /\ mode = "run" => state = "running"
  /\ pc \in {"poll", "finish"} => state # "idle"
  /\ pc \in {"grace", "kill"} => state = "running"
  /\ pc \in {"end", "exited"} => state # "running"
  /\ pc = "grace" => from \in {"poll", "finish"}
  /\ result = "ok" => pc = "end"

\* The simulation and its process.
Simulated ==
  /\ state = "running" => mode = "run"
  /\ state = "resuming" => mode = "resume"
  /\ child = "live" => state = "running"
  /\ pc \in {"poll", "finish"} /\ state = "finished" /\ mode = "run" /\ err = "none" => child = "ok"
  /\ result = "ok" /\ mode = "run" => child = "ok"

\* Where the results are.
Results ==
  /\ child = "ok" /\ Stores => seg = "result"
  /\ mode = "resume" /\ Stores /\ ~Overwritten => seg = "result"
  /\ pc \in {"poll", "finish", "grace"} /\ mode # "setup" => readback
  /\ result = "ok" /\ mode # "setup" /\ Stores /\ ~Overwritten => host = "result"

\* The run is one of those considered, or rests beside a device.
Considered == <<mode, access>> \in Setups \/ mode = "run"

Inductive == TypeOK /\ Together /\ Simulated /\ Results /\ Considered

\* Every first state has the invariant: a co-simulation that has been opened,
\* or a device beside which none is.
LEMMA RunStarts == RuntimeInit => Inductive
<1> SUFFICES ASSUME RuntimeInit PROVE Inductive
  OBVIOUS
<1>1. CASE Init
  <2>1. PICK s \in Setups : mode = s[1] /\ access = s[2]
    BY <1>1 DEF Init
  <2>2. /\ mode \in Modes /\ access \in Accesses /\ <<mode, access>> = s
    BY <2>1, DeviceAssumption
  <2> QED
    BY <1>1, <2>2 DEF Init, Inductive, TypeOK, Together, Simulated, Results, Considered, Overwritten,
         Stores, Modes, Accesses
<1>2. CASE ~Init
  BY <1>2 DEF RuntimeInit, Inductive, TypeOK, Together, Simulated, Results, Considered, Overwritten,
         Stores, Modes, Accesses
<1> QED
  BY <1>1, <1>2

\* No step of the device, of the simulator or of the clock breaks it.
LEMMA RunGoesOn == Inductive /\ [CosimStep \/ NativeStep]_<<vars, native>> => Inductive'
<1> SUFFICES ASSUME Inductive, Next \/ UNCHANGED vars PROVE Inductive'
  BY DEF CosimStep, NativeStep
<1> USE DEF Inductive, TypeOK, Together, Simulated, Results, Considered, Overwritten, Stores, Loads, config
<1>1. CASE CosimSetBufferArg
  BY <1>1 DEF CosimSetBufferArg
<1>2. CASE WriteToDevice
  BY <1>2 DEF WriteToDevice, Accesses
<1>3. CASE CosimExec
  BY <1>3 DEF CosimExec, Modes
<1>4. CASE ReadFromDevice
  BY <1>4 DEF ReadFromDevice, CopyBackToHost, Modes
<1>5. CASE Polled
  BY <1>5 DEF Polled
<1>6. CASE Observe
  BY <1>6 DEF Observe
<1>7. CASE TimeOut
  BY <1>7 DEF TimeOut
<1>8. CASE Terminated
  BY <1>8 DEF Terminated, Reap
<1>9. CASE CosimFinish
  BY <1>9 DEF CosimFinish, CopyBackToHost, Modes
<1>10. CASE Kill
  BY <1>10 DEF Kill
<1>11. CASE Killed
  BY <1>11 DEF Killed, Reap
<1>12. CASE Simulate
  BY <1>12 DEF Simulate
<1>13. CASE Elapse
  BY <1>13 DEF Elapse
<1>14. CASE UNCHANGED vars
  BY <1>14 DEF vars
<1> QED
  BY <1>1, <1>2, <1>3, <1>4, <1>5, <1>6, <1>7, <1>8, <1>9, <1>10, <1>11, <1>12, <1>13, <1>14
     DEF Next, RunStep

\* The invariant holds throughout.
LEMMA RunInvariant == RuntimeSpec => []Inductive
BY RunStarts, RunGoesOn, PTL DEF RuntimeSpec

\* finish reports no success for a simulation that failed or was timed out, and
\* no simulator outlives the program, in any run mode and with any buffer.
THEOREM EndIsReported == RuntimeSpec => [](FailureIsReported /\ NoSimulatorLeft)
<1>1. Inductive => FailureIsReported /\ NoSimulatorLeft
  BY DEF Inductive, Simulated, Together, FailureIsReported, NoSimulatorLeft, Ended
<1> QED
  BY <1>1, RunInvariant, PTL

\* Unless a run with a read-write buffer is resumed, success also means that the
\* kernel's results are in the host's buffer: the run ends truthfully.
THEOREM RunEnds ==
  ASSUME <<"resume", "ReadWrite">> \notin Setups
  PROVE  RuntimeSpec => []RunEndsTruthfully
<1>1. Inductive => RunEndsTruthfully
  BY DEF Inductive, Simulated, Together, Results, Considered, Overwritten,
         RunEndsTruthfully, HostGetsResults, FailureIsReported, NoSimulatorLeft, Ended
<1> QED
  BY <1>1, RunInvariant, PTL

\* read_from_device and finish copy to the host's buffer only when no simulator
\* writes the segments any more.
THEOREM CopiesWait == RuntimeSpec => NoCopyWhileLive
<1>1. Inductive /\ [CosimStep \/ NativeStep]_<<vars, native>> => [host' # host => child # "live"]_vars
  <2> SUFFICES ASSUME Inductive, Next \/ UNCHANGED vars, host' # host PROVE child # "live"
    BY DEF CosimStep, NativeStep
  <2>1. ReadFromDevice \/ CosimFinish
    BY DEF Next, RunStep, CosimSetBufferArg, WriteToDevice, CosimExec, Polled, Observe, TimeOut, Terminated,
           Kill, Killed, Simulate, Elapse, vars
  <2> QED
    BY <2>1 DEF ReadFromDevice, CosimFinish, Inductive, Simulated
<1> QED
  BY <1>1, RunInvariant, PTL DEF RuntimeSpec, NoCopyWhileLive
=============================================================================
