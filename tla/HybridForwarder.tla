-------------------------- MODULE HybridForwarder --------------------------
(***************************************************************************)
(* Hybrid co-simulation: a kernel writes a stream that tasks running in    *)
(* software read.  The kernel is given a fresh queue of beats; a forwarder *)
(* task moves them into the stream with the end-of-transmission bit        *)
(* cleared (stream_access::use in tapa-lib/tapa/host/stream.h) until the   *)
(* kernel is done, then marks the stream so that a reader blocked on it    *)
(* can tell that nothing more will come.  The i-th beat carries i.         *)
(***************************************************************************)
EXTENDS Naturals, Sequences

CONSTANTS
  BeatDepth,   \* kHybridForwardDepth
  StreamDepth, \* depth of the stream the software reads
  Want         \* bound: elements the software task reads

ASSUME ForwarderAssumption ==
  BeatDepth \in Nat \ {0} /\ StreamDepth \in Nat \ {0} /\ Want \in Nat

VARIABLES
  beats,      \* the kernel's queue
  written,    \* beats the kernel has pushed
  kernel,     \* running, finished, or done (kernel_done is stored)
  fpc, beat,  \* the forwarder: poll, ask, hold or exit; the beat it holds
  stream,     \* the queue the software task reads
  marked,     \* kernel_done_ of that queue
  rpc, taken  \* the reader: op, check, again or abort; what it has read
forwarderVars == <<beats, written, kernel, fpc, beat, stream, marked, rpc, taken>>

Alive == rpc # "abort"

ForwarderInit ==
  /\ beats = <<>> /\ written = 0 /\ kernel = "running"
  /\ fpc = "poll" /\ beat = 0
  /\ stream = <<>> /\ marked = FALSE
  /\ rpc = "op" /\ taken = <<>>
-----------------------------------------------------------------------------
(* The kernel instance, external up to its end: schedule_frt_instance       *)

KernelPush ==
  /\ Alive /\ kernel = "running" /\ written < Want /\ Len(beats) < BeatDepth
  /\ written' = written + 1 /\ beats' = Append(beats, written + 1)
  /\ UNCHANGED <<kernel, fpc, beat, stream, marked, rpc, taken>>

\* The kernel ends, possibly before it has written all the reader wants.
KernelFinish ==
  /\ Alive /\ kernel = "running"
  /\ kernel' = "finished"
  /\ UNCHANGED <<beats, written, fpc, beat, stream, marked, rpc, taken>>

\* on_finish of hybrid_run
StoreKernelDone ==
  /\ Alive /\ kernel = "finished"
  /\ kernel' = "done"
  /\ UNCHANGED <<beats, written, fpc, beat, stream, marked, rpc, taken>>
-----------------------------------------------------------------------------
(* The forwarder's loop *)

Poll ==
  /\ Alive /\ fpc = "poll"
  /\ IF beats = <<>>
     THEN fpc' = "ask" /\ UNCHANGED <<beats, beat>>
     ELSE fpc' = "hold" /\ beat' = Head(beats) /\ beats' = Tail(beats)
  /\ UNCHANGED <<written, kernel, stream, marked, rpc, taken>>

\* Mutant: the stream is never marked.
AskUnmarkedMutant ==
  /\ Alive /\ fpc = "ask"
  /\ fpc' = IF kernel = "done" THEN "exit" ELSE "poll"
  /\ UNCHANGED <<beats, written, kernel, beat, stream, marked, rpc, taken>>

Ask ==
  /\ Alive /\ fpc = "ask"
  /\ IF kernel = "done"
     THEN fpc' = "exit" /\ marked' = TRUE
     ELSE fpc' = "poll" /\ UNCHANGED marked
  /\ UNCHANGED <<beats, written, kernel, beat, stream, rpc, taken>>

\* Mutant: a full stream loses the beat.
ForwardLossyMutant ==
  /\ Alive /\ fpc = "hold"
  /\ stream' = IF Len(stream) < StreamDepth THEN Append(stream, beat) ELSE stream
  /\ fpc' = "poll"
  /\ UNCHANGED <<beats, written, kernel, beat, marked, rpc, taken>>

Forward ==
  /\ Alive /\ fpc = "hold" /\ Len(stream) < StreamDepth
  /\ stream' = Append(stream, beat)
  /\ fpc' = "poll"
  /\ UNCHANGED <<beats, written, kernel, beat, marked, rpc, taken>>
-----------------------------------------------------------------------------
(* The software task: istream::read and check_kernel_can_still_serve *)

Read ==
  /\ rpc = "op" /\ Len(taken) < Want
  /\ IF stream = <<>>
     THEN rpc' = "check" /\ UNCHANGED <<stream, taken>>
     ELSE taken' = Append(taken, Head(stream)) /\ stream' = Tail(stream) /\ UNCHANGED rpc
  /\ UNCHANGED <<beats, written, kernel, fpc, beat, marked>>

Check ==
  /\ rpc = "check"
  /\ rpc' = IF marked THEN "again" ELSE "op"
  /\ UNCHANGED <<beats, written, kernel, fpc, beat, stream, marked, taken>>

Again ==
  /\ rpc = "again"
  /\ rpc' = IF stream = <<>> THEN "abort" ELSE "op"
  /\ UNCHANGED <<beats, written, kernel, fpc, beat, stream, marked, taken>>

KernelStep == KernelPush \/ KernelFinish \/ StoreKernelDone
ForwardStep == Poll \/ Ask \/ Forward
ReadStep == Read \/ Check \/ Again
ForwarderNext == KernelStep \/ ForwardStep \/ ReadStep

\* All three are tasks of the scheduler, which resumes each again and again.
ForwarderSpec ==
  /\ ForwarderInit /\ [][ForwarderNext]_forwarderVars
  /\ WF_forwarderVars(KernelStep) /\ WF_forwarderVars(ForwardStep) /\ WF_forwarderVars(ReadStep)
-----------------------------------------------------------------------------
(* Properties *)

\* The comment on stream_use: the forwarder moves the kernel's elements "until
\* the kernel is done and the queue drained", so a marked stream has nothing
\* left behind it.  The forwarder looks at the queue before it looks at
\* kernel_done, and the kernel may push and finish in between.
QueueDrained == marked => beats = <<>>

\* Types and capacities.
TypeOK ==
  /\ beats \in Seq(1..Want) /\ Len(beats) <= BeatDepth
  /\ stream \in Seq(1..Want) /\ Len(stream) <= StreamDepth
  /\ written \in 0..Want /\ taken \in Seq(1..Want)
  /\ kernel \in {"running", "finished", "done"} /\ marked \in BOOLEAN
  /\ fpc \in {"poll", "ask", "hold", "exit"} /\ beat \in 0..Want
  /\ rpc \in {"op", "check", "again", "abort"}

InHand == IF fpc = "hold" THEN <<beat>> ELSE <<>>

\* No beat is lost, repeated or overtaken on its way: what was read, what is in
\* the stream, in the forwarder's hand and in the kernel's queue is exactly
\* what the kernel pushed.
EveryBeatAccountedFor ==
  taken \o stream \o InHand \o beats = [i \in 1..written |-> i]

\* The reader gives up only after the forwarder has exited and the reader has
\* taken all that it forwarded.
AbortAfterForwarded ==
  rpc = "abort" => kernel = "done" /\ fpc = "exit" /\ stream = <<>>

\* The reader never waits for ever: it gets what it wants or aborts.
NoSilentHang == <>(Len(taken) = Want \/ rpc = "abort")

\* What the forwarder keeps to, whatever the interleaving: every beat it moves
\* arrives once and in order, and its reader is told of the kernel's end only
\* after the forwarder has stopped and the reader has taken all that was moved.
\* That every beat is moved is QueueDrained, which does not hold.
ForwarderIsFaithful == EveryBeatAccountedFor /\ AbortAfterForwarded
=============================================================================
