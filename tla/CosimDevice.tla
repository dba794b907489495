---------------------------- MODULE CosimDevice ----------------------------
(***************************************************************************)
(* The co-simulation back end of the runtime (frt/src/cosim/mod.rs), the   *)
(* simulator process it starts, and the host program that drives it: the   *)
(* synchronous invoke (write, exec, read, finish) or the task of           *)
(* schedule_frt_instance, which polls is_finished before it finishes.      *)
(* Buffers are one: what the host holds and what the shared segment holds  *)
(* is the input, the kernel's result, something in between, or zeroes.     *)
(***************************************************************************)
EXTENDS Naturals

CONSTANT Setups   \* the pairs <<run mode, buffer access>> to consider

Modes == {"run", "setup", "resume"}   \* setup_only, resume_from_post_sim
Accesses == {"PlaceHolder", "ReadOnly", "WriteOnly", "ReadWrite"}
ASSUME DeviceAssumption == Setups \subseteq Modes \X Accesses

VARIABLES
  mode, access, limited, async, \* run mode, buffer access, is there a timeout, does the host poll
  state, err,   \* SimulationState: idle, running, resuming, finished(error)
  readback,     \* readback_scheduled
  child, late,  \* the simulator: none, live, ok, failed or killed; timeout elapsed
  seg, host,    \* contents of the shared segment and of the host's buffer
  pc, from,     \* the host program's next call; where a timeout struck
  result        \* what the program learnt: none, ok, error
vars == <<mode, access, limited, async, state, err, readback, child, late, seg, host,
          pc, from, result>>
config == <<mode, access, limited, async>>

Loads == access \in {"ReadOnly", "ReadWrite"}
Stores == access \in {"WriteOnly", "ReadWrite"}
Ended == pc \in {"end", "exited"}

\* CosimDevice::open; in resume mode the segments are those of a finished run.
Init ==
  /\ \E s \in Setups : mode = s[1] /\ access = s[2]
  /\ limited \in BOOLEAN /\ async \in BOOLEAN
  /\ state = "idle" /\ err = "none" /\ readback = FALSE
  /\ child = "none" /\ late = FALSE
  /\ seg = (IF mode = "resume" THEN IF Stores THEN "result" ELSE "input" ELSE "zero")
  /\ host = "input"
  /\ pc = "bind" /\ from = "bind" /\ result = "none"
-----------------------------------------------------------------------------
(* set_buffer_arg, write_to_device, exec, read_from_device *)

\* The segment is replaced by one of the right size with the old contents.
CosimSetBufferArg ==
  /\ pc = "bind" /\ pc' = "write"
  /\ UNCHANGED <<config, state, err, readback, child, late, seg, host, from, result>>

WriteToDevice ==
  /\ pc = "write" /\ pc' = "exec"
  /\ seg' = IF Loads THEN host ELSE seg
  /\ UNCHANGED <<config, state, err, readback, child, late, host, from, result>>

\* prepare or spawn may fail, which ends the program.
CosimExec ==
  /\ pc = "exec"
  /\ \/ /\ pc' = "read"
        /\ state' = CASE mode = "resume" -> "resuming"
                      [] mode = "setup" -> "finished"
                      [] mode = "run" -> "running"
        /\ child' = IF mode = "run" THEN "live" ELSE child
        /\ UNCHANGED result
     \/ /\ mode # "resume" /\ pc' = "end" /\ result' = "error"
        /\ UNCHANGED <<state, child>>
  /\ UNCHANGED <<config, err, readback, late, seg, host, from>>

CopyBackToHost == host' = IF Stores THEN seg ELSE host

\* Mutant: the segments are copied at once.
ReadNowMutant ==
  /\ pc = "read" /\ pc' = IF async THEN "poll" ELSE "finish"
  /\ CopyBackToHost /\ readback' = TRUE
  /\ UNCHANGED <<config, state, err, child, late, seg, from, result>>

\* While the simulation is under way the copy is put off to finish.
ReadFromDevice ==
  /\ pc = "read" /\ pc' = IF async THEN "poll" ELSE "finish"
  /\ IF state \in {"running", "resuming"}
     THEN readback' = TRUE /\ UNCHANGED host
     ELSE readback' = FALSE /\ CopyBackToHost
  /\ UNCHANGED <<config, state, err, child, late, seg, from, result>>
-----------------------------------------------------------------------------
(* poll_simulation and wait_simulation, as is_finished and finish use them *)

\* is_finished answers true
Polled ==
  /\ pc = "poll" /\ state \in {"finished", "resuming"}
  /\ state' = "finished" /\ pc' = "finish"
  /\ UNCHANGED <<config, err, readback, child, late, seg, host, from, result>>

\* try_wait or wait returns the exit status.
Observe ==
  /\ pc \in {"poll", "finish"} /\ state = "running" /\ child # "live"
  /\ state' = "finished"
  /\ err' = IF child = "ok" THEN "none" ELSE "failed"
  /\ UNCHANGED <<config, readback, child, late, seg, host, pc, from, result>>

\* The simulator has not exited and its time is up: terminate it.
TimeOut ==
  /\ pc \in {"poll", "finish"} /\ state = "running" /\ child = "live"
  /\ limited /\ late
  /\ pc' = "grace" /\ from' = pc
  /\ UNCHANGED <<config, state, err, readback, child, late, seg, host, result>>

\* Mutant: the grace period never ends.
ReapPatientMutant ==
  /\ child # "live" /\ UNCHANGED child

\* terminate_running_simulation after SIGINT: the simulator has exited, or the
\* grace is over and SIGKILL ends it.
Reap == child' = IF child = "live" THEN "killed" ELSE child

Terminated ==
  /\ pc = "grace"
  /\ Reap
  /\ state' = "finished" /\ err' = "timeout" /\ pc' = from
  /\ UNCHANGED <<config, readback, late, seg, host, from, result>>

\* Mutant: the scheduled read is forgotten.
FinishNoCopyMutant ==
  /\ pc = "finish" /\ state # "running"
  /\ pc' = "end" /\ state' = "finished" /\ err' = "none"
  /\ result' = IF err # "none" THEN "error" ELSE "ok"
  /\ UNCHANGED <<config, readback, host, child, late, seg, from>>

CosimFinish ==
  /\ pc = "finish" /\ state # "running"
  /\ pc' = "end" /\ state' = "finished" /\ err' = "none"
  /\ IF err # "none"
     THEN result' = "error" /\ UNCHANGED <<readback, host>>
     ELSE /\ result' = "ok" /\ readback' = FALSE
          /\ IF readback THEN CopyBackToHost ELSE UNCHANGED host
  /\ UNCHANGED <<config, child, late, seg, from>>
-----------------------------------------------------------------------------
(* SIGINT in the host: kill, then exit *)

Kill ==
  /\ pc \notin {"grace", "kill", "end", "exited"}
  /\ IF state = "running"
     THEN pc' = "kill" /\ UNCHANGED state
     ELSE pc' = "exited" /\ state' = "finished"
  /\ UNCHANGED <<config, err, readback, child, late, seg, host, from, result>>

Killed ==
  /\ pc = "kill"
  /\ Reap
  /\ state' = "finished" /\ err' = "none" /\ pc' = "exited"
  /\ UNCHANGED <<config, readback, late, seg, host, from, result>>
-----------------------------------------------------------------------------
(* The simulator process and the clock, external *)

Simulate ==
  /\ child = "live"
  /\ \/ Stores /\ seg' = "partial" /\ UNCHANGED child
     \/ child' = "ok" /\ seg' = IF Stores THEN "result" ELSE seg
     \/ child' = "failed" /\ UNCHANGED seg
     \/ pc \in {"grace", "kill"} /\ child' = "killed" /\ UNCHANGED seg
  /\ UNCHANGED <<config, state, err, readback, late, host, pc, from, result>>

Elapse ==
  /\ limited /\ state = "running" /\ ~late /\ late' = TRUE
  /\ UNCHANGED <<config, state, err, readback, child, seg, host, pc, from, result>>

RunStep ==
  \/ CosimSetBufferArg \/ WriteToDevice \/ CosimExec \/ ReadFromDevice \/ Polled \/ Observe
  \/ TimeOut \/ Terminated \/ CosimFinish \/ Killed

Next == RunStep \/ Kill \/ Simulate \/ Elapse

\* The host program and time go on; the simulator may hang.
Spec == Init /\ [][Next]_vars /\ WF_vars(RunStep) /\ WF_vars(Elapse)
-----------------------------------------------------------------------------
(* Properties *)

\* Types; an error is held only by a finished simulation, and a running one
\* has a process.
TypeOK ==
  /\ mode \in Modes /\ access \in Accesses /\ {limited, async, readback, late} \subseteq BOOLEAN
  /\ state \in {"idle", "running", "resuming", "finished"}
  /\ err \in {"none", "failed", "timeout"}
  /\ child \in {"none", "live", "ok", "failed", "killed"}
  /\ {seg, host} \subseteq {"zero", "input", "partial", "result"}
  /\ pc \in {"bind", "write", "exec", "read", "poll", "finish", "grace", "kill", "end", "exited"}
  /\ result \in {"none", "ok", "error"}
  /\ err # "none" => state = "finished"
  /\ state = "running" => child # "none"

\* finish never reports success for a simulation that failed or was timed out,
\* whichever of poll and finish saw it end.
FailureIsReported == result = "ok" /\ mode = "run" => child = "ok"

\* When finish reports success the host's buffer holds the kernel's results:
\* the read scheduled before the end is carried out after it, and a resumed run
\* "copies output buffers back, and lets the application check the results"
\* (docs/src/howto/fast-cosim.md).  Not so for a read-write buffer of a resumed
\* run: write_to_device puts the host's input over the results first.
HostGetsResults == result = "ok" /\ mode # "setup" /\ Stores => host = "result"

\* The host's buffer is never written while the simulator still writes the
\* segments.
NoCopyWhileLive == [][host' # host => child # "live"]_vars

\* No simulator outlives the program, killed, timed out or not.
NoSimulatorLeft == Ended => child # "live"

\* With a timeout, a simulator that hangs and ignores SIGINT does not hang the
\* host program.
TimeoutEndsRun == limited => <>Ended

\* What a host program can rely on when its run is over: success means that
\* the simulation succeeded and that its results are in the host's buffers,
\* and either way no simulator is left behind.  Setups decides whether resumed
\* runs of read-write buffers, which break HostGetsResults, are among them.
RunEndsTruthfully == FailureIsReported /\ HostGetsResults /\ NoSimulatorLeft
=============================================================================
