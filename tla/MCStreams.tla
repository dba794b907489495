----------------------------- MODULE MCStreams -----------------------------
(***************************************************************************)
(* The three carriers of a stream, checked in one run: the ring, the       *)
(* benches of a simulated kernel and the forwarder of hybrid               *)
(* co-simulation.  Each module takes the queues below it to be atomic, so  *)
(* they share no state: a behaviour is about one of them (carrier), and    *)
(* the others stay as they start.                                          *)
(***************************************************************************)
EXTENDS SharedMemoryQueue, CosimStreams, HybridForwarder

VARIABLE carrier
mcVars == <<carrier, queueVars, vars, forwarderVars>>

MCInit ==
  /\ carrier \in {"ring", "bench", "forwarder"}
  /\ QueueInit /\ Init /\ ForwarderInit
  /\ carrier # "bench" => dir = "out" /\ bench = "vh"

\* The host has all it is to get, or the simulator has exited.
Over ==
  \/ carrier = "bench" /\ dir = "out" /\ ~Running /\ queue = <<>>
  \/ carrier = "bench" /\ dir = "in" /\ Exited
  \/ carrier = "forwarder" /\ (Len(taken) = Want \/ ~Alive)

BenchHost == carrier = "bench" /\ HostStep
BenchClock == carrier = "bench" /\ BenchStep
ForwarderKernel == carrier = "forwarder" /\ KernelStep
ForwarderTask == carrier = "forwarder" /\ ForwardStep
ForwarderReader == carrier = "forwarder" /\ ReadStep

MCNext ==
  \/ carrier = "ring" /\ QueueNext /\ UNCHANGED <<carrier, vars, forwarderVars>>
  \/ (BenchHost \/ BenchClock) /\ UNCHANGED <<carrier, queueVars, forwarderVars>>
  \/ (ForwarderKernel \/ ForwarderTask \/ ForwarderReader) /\ UNCHANGED <<carrier, queueVars, vars>>
  \/ Over /\ UNCHANGED mcVars

\* The fairness of CosimStreams and of HybridForwarder.
MCSpec ==
  /\ MCInit /\ [][MCNext]_mcVars
  /\ WF_vars(BenchHost) /\ WF_vars(BenchClock)
  /\ WF_forwarderVars(ForwarderKernel)
  /\ WF_forwarderVars(ForwarderTask) /\ WF_forwarderVars(ForwarderReader)

\* AllElementsArrive in the behaviours that are about a bench.
BenchDelivers == carrier = "bench" => AllElementsArrive

\* NoSilentHang in the behaviours that are about the forwarder.
ReaderIsAnswered == carrier = "forwarder" => NoSilentHang
=============================================================================
