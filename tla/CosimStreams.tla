---------------------------- MODULE CosimStreams ---------------------------
(***************************************************************************)
(* A stream in co-simulation: a generated test bench clocks the simulated  *)
(* kernel and moves elements between it and a shared-memory queue through  *)
(* the DPI step functions (frt-dpi/src/stream.rs); the host is at the      *)
(* queue's other end.  The four benches differ in what is sampled when:    *)
(*   vh  Verilator, HLS ap_fifo    tb_verilator.cpp.j2, mode hls           *)
(*   vv  Verilator, Vitis AXIS     tb_verilator.cpp.j2, mode vitis         *)
(*   xh  xsim, HLS ap_fifo         tb_xsim.sv.j2, mode hls                 *)
(*   xv  xsim, Vitis AXIS          tb_xsim.sv.j2, mode vitis               *)
(* A clock cycle is a few steps, and the host may act between any two of   *)
(* them.  Queue operations are atomic: module SharedMemoryQueue shows that *)
(* the ring implements an atomic FIFO.  The k-th element carries k.        *)
(*                                                                         *)
(* Output stream: the push, the probe that yields the next full_n or       *)
(* tready, and the clock edge.  Input stream: the HLS benches show the     *)
(* kernel the head of the queue (peek) and pop it a step after the kernel  *)
(* has read it; the Vitis benches pop a token into a holding register.     *)
(* Streams share no state, so a behaviour is about one, of either          *)
(* direction.                                                              *)
(***************************************************************************)
EXTENDS Naturals, Sequences

CONSTANTS
  Depth,        \* depth of the shared-memory queue
  Count,        \* bound: elements that pass through the stream
  MaxGap,       \* bound: cycles the kernel waits before it presents a beat
  MaxStall,     \* bound: cycles the kernel goes without asking for a token
  DrainLimit,   \* kDrainCycleLimit: cycles a bench drains before it gives up
  IdleCycles,   \* quiet cycles that end a drain
  EarlyKernel,  \* may an HLS kernel present a beat on the edge that starts it
  HoldsWrite    \* does an HLS kernel drive write while full_n is low

ASSUME StreamAssumption ==
  /\ Depth \in Nat \ {0} /\ Count \in Nat \ {0} /\ MaxGap \in Nat /\ MaxStall \in Nat
  /\ IdleCycles \in Nat \ {0} /\ DrainLimit \in Nat
  /\ {EarlyKernel, HoldsWrite} \subseteq BOOLEAN

Hls == {"vh", "xh"}
Verilator == {"vh", "vv"}
Benches == {"vh", "vv", "xh", "xv"}

VARIABLES
  dir,       \* the direction of this behaviour's stream: out or in
  bench,     \* its bench
  outputs,   \* has the kernel output streams
  step,      \* the step of the cycle that comes next
  queue,     \* elements in the shared-memory queue
  \* output stream
  received,  \* beats the host has popped
  pend,      \* the beat the kernel presents, 0 when none
  accepted,  \* beats the kernel has seen accepted
  gap,       \* cycles since the kernel last presented a beat
  done,      \* ap_done or interrupt
  ready,     \* full_n or tready as registered at the previous edge
  offer,     \* the verdict of this cycle's write_ready
  write,     \* vh: dut->write as of the last eval
  knownFull, \* known_full of stream_hls_ostream_step
  phase,     \* run, drain, tail, then ok or failed
  idle, drained, \* idle_cycles and drain_cycle_count
  dropped,   \* a push was refused
  \* input stream
  sent,      \* tokens the host has pushed
  lastValid, \* last_istream_valid of the DPI stream
  have, data, \* empty_n / tvalid and the payload as the kernel sees them
  haveNext, dataNext, \* xsim: the values the non-blocking assignments carry
  want,      \* the kernel asks for a token (read / tready)
  stall,     \* cycles since it last asked
  consumed,  \* stream_in_consumed: a handshake the DPI has yet to hear of
  got,       \* tokens the kernel has read
  after      \* cycles since completion, 0 before

kernelVars == <<pend, accepted, gap, done>>
benchVars == <<bench, ready, write, phase, idle, drained>>
outVars == <<received, kernelVars, ready, offer, write, knownFull, phase, idle, drained, dropped>>
inVars == <<sent, lastValid, have, data, haveNext, dataNext, want, stall, consumed, got, after>>
vars == <<dir, bench, outputs, step, queue, outVars, inVars>>

Running == phase \in {"run", "drain", "tail"}

\* full_n or tready as the kernel sees it at the coming edge: Verilator's
\* benches drive it before the edge, xsim's register it at the edge.
SeenReady == IF bench \in Verilator THEN offer ELSE ready

\* The steps of a cycle in the order each bench takes them.
FirstStep(b) == IF b = "vv" THEN "offer" ELSE "push"
After(s) == CASE s = "push"  -> IF bench = "vv" THEN "edge" ELSE "offer"
              [] s = "offer" -> IF bench = "vv" THEN "push" ELSE "edge"
              [] s = "edge"  -> FirstStep(bench)

OstreamInit ==
  /\ bench \in Benches
  /\ step = FirstStep(bench)
  /\ queue = <<>> /\ received = <<>>
  /\ pend \in IF bench = "vh" /\ ~EarlyKernel THEN {0} ELSE {0, 1}
  /\ accepted = 0 /\ gap = 0 /\ done = FALSE
  /\ ready = (bench \notin Verilator)   \* xsim initialises its registers to 1
  /\ offer = FALSE /\ knownFull = FALSE
  /\ write = (bench = "vh" /\ pend # 0 /\ HoldsWrite)
  /\ phase = "run" /\ idle = 0 /\ drained = 0 /\ dropped = FALSE
-----------------------------------------------------------------------------
(* The kernel: external, any hardware that obeys the stream's handshake.   *)
(* An ap_fifo kernel that HLS made drives write only under full_n, custom  *)
(* RTL may hold it; the kernel is done only when its last write was        *)
(* accepted.  An AXIS kernel holds tvalid, and its logic may be done while *)
(* beats wait in the adapter.                                              *)

Driving == pend # 0 /\ (bench \in Hls /\ ~HoldsWrite => SeenReady)
Accepts == pend # 0 /\ SeenReady

OstreamKernel ==
  LET taken == accepted + (IF Accepts THEN 1 ELSE 0)
      more == taken < Count
  IN /\ accepted' = taken
     /\ IF pend # 0 /\ ~Accepts
        THEN UNCHANGED <<pend, gap>>
        ELSE \/ pend' = taken + 1 /\ more /\ gap' = 0
             \/ pend' = 0 /\ gap' = (IF more THEN gap + 1 ELSE 0) /\ gap' <= MaxGap
     /\ \/ done' = (taken = Count)
        \/ bench \notin Hls /\ done' = TRUE
        \/ taken < Count /\ done' = done
-----------------------------------------------------------------------------
(* stream_hls_ostream_step and stream_try_write: the push *)

\* Mutant: tvalid is paired with a fresh probe instead of the registered tready.
FreshProbeMutant == IF bench = "vh" THEN write ELSE pend # 0 /\ Len(queue) < Depth

\* The HLS benches push on write alone, the Vitis ones on the handshake.
Pushing == CASE bench = "vh" -> write
             [] bench = "xh" -> Driving
             [] OTHER        -> Accepts

\* Mutant: once full, known_full is never taken back.
StickyFullMutant ==
  /\ Running /\ step = "push"
  /\ step' = After("push")
  /\ queue' = IF Pushing /\ Len(queue) < Depth THEN Append(queue, pend) ELSE queue
  /\ knownFull' = (knownFull \/ (Pushing /\ Len(queue) + 1 >= Depth))
  /\ UNCHANGED <<bench, received, kernelVars, ready, offer, write, idle, drained, dropped, phase>>

Push ==
  /\ Running /\ step = "push"
  /\ step' = After("push")
  /\ IF Pushing /\ Len(queue) < Depth
     THEN /\ queue' = Append(queue, pend)
          /\ knownFull' = (Len(queue) + 1 >= Depth)
          /\ UNCHANGED <<dropped, phase>>
     ELSE /\ knownFull' = Pushing
          /\ dropped' = (dropped \/ Pushing)
          \* xv ends the simulation with $fatal; the others go on
          /\ phase' = IF Pushing /\ bench = "xv" THEN "failed" ELSE phase
          /\ UNCHANGED queue
  /\ UNCHANGED <<bench, received, kernelVars, ready, offer, write, idle, drained>>

\* write_ready: the HLS step passes what its push learned, the Vitis
\* can_write probes afresh.
Offer ==
  /\ Running /\ step = "offer"
  /\ step' = After("offer")
  /\ offer' = ((bench \in Hls => ~knownFull) /\ Len(queue) < Depth)
  /\ UNCHANGED <<queue, received, kernelVars, knownFull, benchVars, dropped>>
-----------------------------------------------------------------------------
(* Completion and drain, decided at the edge.  Verilator's loops look at   *)
(* the outputs after the edge, xsim's at the outputs before it.            *)

BusyAfterEdge == pend' # 0 /\ (bench = "vh" => offer \/ HoldsWrite)
Busy == IF bench \in Verilator THEN BusyAfterEdge ELSE Driving
DoneSeen == IF bench = "xh" THEN done ELSE done'

WatchDone ==
  /\ phase = "run"
  /\ phase' = IF DoneSeen THEN "drain" ELSE "run"
  /\ UNCHANGED <<idle, drained>>

\* Mutant: the first quiet cycle ends the drain.
HastyDrainMutant ==
  /\ phase = "drain"
  /\ phase' = IF Busy THEN "drain" ELSE "ok"
  /\ UNCHANGED <<idle, drained>>

Drain ==
  /\ phase = "drain"
  /\ LET quiet == IF Busy THEN 0 ELSE idle + 1
         enough == IF bench = "xh" THEN 1 ELSE IdleCycles
     IN \/ /\ bench # "xh" /\ drained >= DrainLimit
           /\ phase' = "failed"
           /\ UNCHANGED <<idle, drained>>
        \/ /\ bench = "xh" \/ drained < DrainLimit
           /\ idle' = IF quiet >= enough THEN 0 ELSE quiet
           /\ drained' = IF bench = "xh" THEN 0 ELSE drained + 1
           /\ phase' = IF quiet < enough THEN "drain"
                       ELSE IF bench \in Verilator THEN "ok" ELSE "tail"

\* xsim: repeat (2) @(posedge ap_clk) before $finish
Tail2 ==
  /\ phase = "tail"
  /\ idle' = idle + 1
  /\ phase' = IF idle' = 2 THEN "ok" ELSE "tail"
  /\ UNCHANGED drained

OstreamEdge ==
  /\ Running /\ step = "edge"
  /\ step' = After("edge")
  /\ OstreamKernel
  /\ ready' = offer
  /\ write' = (bench = "vh" /\ BusyAfterEdge)
  /\ WatchDone \/ Drain \/ Tail2
  /\ UNCHANGED <<bench, queue, received, offer, knownFull, dropped>>

\* The host pops a beat; it goes on reading after the simulator has exited.
HostRead ==
  /\ queue # <<>>
  /\ received' = Append(received, Head(queue))
  /\ queue' = Tail(queue)
  /\ UNCHANGED <<step, kernelVars, offer, knownFull, benchVars, dropped>>

BenchPushes == Push \/ Offer \/ OstreamEdge
-----------------------------------------------------------------------------
(* The input stream. *)

Finished == Len(got) = Count
\* Cycles a bench still clocks after it has seen the kernel done: Verilator
\* drains only when there are output streams, xsim always goes on.
Epilogue == IF bench \in Verilator /\ ~outputs THEN 0 ELSE 2
Exited == Finished /\ after > Epilogue

IstreamInit ==
  /\ bench \in Benches
  /\ step = "pop"
  /\ queue = <<>> /\ sent = 0 /\ got = <<>>
  /\ lastValid = FALSE /\ have = FALSE /\ data = 0
  /\ haveNext = FALSE /\ dataNext = 0
  /\ want \in BOOLEAN /\ stall = 0
  /\ consumed = FALSE /\ after = 0

\* The host's blocking write: it waits while the queue is full.
HostWrite ==
  /\ sent < Count /\ Len(queue) < Depth
  /\ sent' = sent + 1
  /\ queue' = Append(queue, sent + 1)
  /\ UNCHANGED <<bench, step, lastValid, have, data, haveNext, dataNext, want, stall,
                 consumed, got, after>>
-----------------------------------------------------------------------------
(* stream_istream_step, called with consumed (Verilator, HLS) or with the  *)
(* handshake at this edge (xsim, HLS); stream_try_read, called when the    *)
(* holding register is empty (Vitis).                                      *)

\* Mutant: the request after the edge is taken for the handshake at the edge.
LateConsumeMutant == have /\ want

Consume == IF bench = "vh" THEN consumed ELSE have /\ want

HlsPop ==
  /\ bench \in Hls /\ step = "pop" /\ ~Exited
  /\ queue' = IF lastValid /\ Consume /\ queue # <<>> THEN Tail(queue) ELSE queue
  /\ step' = "peek"
  /\ UNCHANGED <<bench, sent, lastValid, have, data, haveNext, dataNext, want, stall,
                 consumed, got, after>>

HlsPeek ==
  /\ bench \in Hls /\ step = "peek"
  /\ lastValid' = (queue # <<>>)
  /\ haveNext' = (queue # <<>>)
  /\ dataNext' = IF queue # <<>> THEN Head(queue) ELSE dataNext
  /\ step' = "edge"
  /\ UNCHANGED <<bench, queue, sent, have, data, want, stall, consumed, got, after>>

VitisFetch ==
  /\ bench \notin Hls /\ step = "pop" /\ ~Exited
  /\ IF ~have /\ queue # <<>>
     THEN /\ haveNext' = TRUE /\ dataNext' = Head(queue)
          /\ queue' = Tail(queue)
     ELSE /\ haveNext' = (have /\ (bench = "xv" => ~want))
          /\ UNCHANGED <<queue, dataNext>>
  /\ step' = "edge"
  /\ UNCHANGED <<bench, sent, lastValid, have, data, want, stall, consumed, got, after>>
-----------------------------------------------------------------------------
(* The clock edge.  Verilator drives the fetched token before the edge and *)
(* captures the handshake there; xsim registers it at the edge, and the    *)
(* kernel sees the previous one.                                           *)

SeenHave == IF bench \in Verilator THEN haveNext ELSE have
SeenData == IF bench \in Verilator THEN dataNext ELSE data
Handshake == SeenHave /\ want

\* The kernel, external: it takes the token it asked for and was shown, and
\* asks again whenever it likes within MaxStall cycles.
IstreamKernel ==
  /\ got' = IF Handshake THEN Append(got, SeenData) ELSE got
  /\ IF want /\ ~Handshake
     THEN UNCHANGED <<want, stall>>
     ELSE \/ want' = (Len(got') < Count) /\ stall' = 0
          \/ want' = FALSE /\ stall' = (IF Len(got') < Count THEN stall + 1 ELSE 0)
             /\ stall' <= MaxStall

IstreamEdge ==
  /\ step = "edge"
  /\ IstreamKernel
  /\ data' = dataNext
  /\ have' = (haveNext /\ (bench = "vv" => ~want))
  /\ consumed' = (bench = "vh" /\ Handshake)
  \* completion is seen at this edge, or has been, or is yet to come
  /\ \/ Len(got') = Count /\ after' = after + 1
     \/ after = 0 /\ after' = 0
  /\ step' = "pop"
  /\ UNCHANGED <<bench, queue, sent, lastValid, haveNext, dataNext>>

BenchFetches == HlsPop \/ HlsPeek \/ VitisFetch \/ IstreamEdge
-----------------------------------------------------------------------------
(* Either direction.  The host's task and the simulator each go on.        *)

NoOstream ==
  /\ received = <<>> /\ pend = 0 /\ accepted = 0 /\ gap = 0 /\ done = FALSE /\ ready = FALSE
  /\ offer = FALSE /\ write = FALSE /\ knownFull = FALSE /\ phase = "run" /\ idle = 0
  /\ drained = 0 /\ dropped = FALSE
NoIstream ==
  /\ sent = 0 /\ lastValid = FALSE /\ have = FALSE /\ data = 0 /\ haveNext = FALSE
  /\ dataNext = 0 /\ want = FALSE /\ stall = 0 /\ consumed = FALSE /\ got = <<>> /\ after = 0

Init ==
  \/ dir = "out" /\ outputs = TRUE /\ OstreamInit /\ NoIstream
  \/ dir = "in" /\ outputs \in BOOLEAN /\ IstreamInit /\ NoOstream

HostStep ==
  \/ dir = "out" /\ HostRead /\ UNCHANGED <<dir, outputs, inVars>>
  \/ dir = "in" /\ HostWrite /\ UNCHANGED <<dir, outputs, outVars>>
BenchStep ==
  \/ dir = "out" /\ BenchPushes /\ UNCHANGED <<dir, outputs, inVars>>
  \/ dir = "in" /\ BenchFetches /\ UNCHANGED <<dir, outputs, outVars>>

Next == HostStep \/ BenchStep

Spec == Init /\ [][Next]_vars /\ WF_vars(HostStep) /\ WF_vars(BenchStep)
-----------------------------------------------------------------------------
(* Properties *)

pushed == received \o queue

\* Types of an output stream's state.
OstreamTypeOK ==
  /\ bench \in Benches /\ step \in {"push", "offer", "edge"}
  /\ queue \in Seq(1..Count) /\ received \in Seq(1..Count)
  /\ pend \in 0..Count /\ accepted \in 0..Count /\ gap \in 0..MaxGap
  /\ {done, ready, offer, write, knownFull, dropped} \subseteq BOOLEAN
  /\ phase \in {"run", "drain", "tail", "ok", "failed"}
  /\ idle \in 0..IdleCycles /\ drained \in 0..DrainLimit

\* The queue carries the beats the kernel wrote, each once and in order: no
\* bench pushes a beat the kernel still holds twice or skips one.
BeatsInOrder == \A i \in DOMAIN pushed : pushed[i] = i

\* What the custom-RTL tutorial lets a producer rely on: "a write transfers data
\* on a rising clock edge only when both `*_write` and `*_full_n` are asserted.
\* A producer may hold a pending write while `*_full_n` is low", so a held beat
\* moves once.  The HLS benches push on write alone.
HeldBeatsMoveOnce == dir = "out" => BeatsInOrder

\* A beat the kernel saw accepted is in the queue or already with the host.
AcceptedIsPushed == accepted <= Len(pushed)

\* No push is ever refused: "tready was only raised after the queue reported
\* room, and this testbench is the queue's only producer, so the push cannot
\* fail", and the "write=1 but queue full" warning of the HLS step is dead.
PushNeverFails == ~dropped

\* The promise of the output step functions: no beat is refused, lost,
\* repeated or overtaken between the kernel's handshake and the host's read.
\* The benches keep it for a kernel as HLS makes it, which drives write only
\* under full_n (HoldsWrite is FALSE) and presents its first beat after the edge
\* that starts it (EarlyKernel is FALSE).  They break it for custom RTL that
\* holds write while full_n is low: the HLS benches push on write alone.
BeatsDelivered == dir = "out" => BeatsInOrder /\ AcceptedIsPushed /\ PushNeverFails

\* A bench that ends well has handed every beat of the kernel over: the drain
\* does not strand beats that wait in the output FIFOs.
DrainedAtExit == phase = "ok" => accepted = Count /\ Len(pushed) = Count

\* Types of an input stream's state.
IstreamTypeOK ==
  /\ bench \in Benches /\ step \in {"pop", "peek", "edge"}
  /\ queue \in Seq(1..Count) /\ got \in Seq(1..Count) /\ sent \in 0..Count
  /\ {lastValid, have, haveNext, want, consumed} \subseteq BOOLEAN
  /\ {data, dataNext} \subseteq 0..Count
  /\ stall \in 0..MaxStall /\ after \in 0..(Epilogue + 1)

\* The kernel reads the host's tokens, each once and in order: no bench shows
\* a token again after the kernel has taken it, or drops one it has not.
TokensInOrder == \A i \in DOMAIN got : got[i] = i

\* A token leaves the queue only to be read: what was popped is with the
\* kernel or in the holding register.
NoTokenLost == (sent - Len(queue)) <= Len(got) + (IF have \/ haveNext THEN 1 ELSE 0)

\* When the simulator exits, the tokens the kernel has read have left the
\* queue, so what remains there is what the kernel did not read, as the
\* host's leftover report takes it to be.  The one exception: the Verilator HLS
\* bench reports a handshake a cycle later, and without output streams to drain
\* it runs no cycle after completion, so the last token may still be there.
Unreported == IF bench = "vh" /\ ~outputs THEN 1 ELSE 0
ReadTokensHaveLeft == Exited => sent - Len(queue) >= Len(got) - Unreported

\* The promise of the input step functions: the kernel reads what the host
\* wrote, and the queue is left with exactly what the kernel did not read, but
\* for the last token in the Verilator HLS bench of a kernel without outputs.
TokensDelivered == dir = "in" => TokensInOrder /\ NoTokenLost /\ ReadTokensHaveLeft

\* full_n and tready never stick low and empty_n and tvalid never stay low:
\* every element gets to the other end, unless the drain gave up on a slow
\* host.
AllElementsArrive ==
  <>(IF dir = "out" THEN Len(received) = Count \/ phase = "failed" ELSE Len(got) = Count)
=============================================================================
