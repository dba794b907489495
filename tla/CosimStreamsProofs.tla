------------------------- MODULE CosimStreamsProofs -------------------------
(***************************************************************************)
(* Proofs about the streams of co-simulation, for every depth of the queue *)
(* and any number of elements: those of all four benches, and the one a    *)
(* forwarder feeds in hybrid co-simulation.                                *)
(*                                                                         *)
(* An output stream is proved right for a kernel that drives write only    *)
(* under full_n and presents nothing on the edge that starts it: with      *)
(* either the Verilator HLS bench loses or repeats a beat.  The drain is   *)
(* proved right when the kernel never pauses for as long as the bench      *)
(* waits.  The input stream is proved right without an assumption.         *)
(*                                                                         *)
(* The forwarder loses, repeats and reorders no beat, and its reader is    *)
(* told of the kernel's end only when it has taken all that was forwarded. *)
(***************************************************************************)
EXTENDS CosimStreams, HybridForwarder, SequenceTheorems, TLAPS

-----------------------------------------------------------------------------
(* Sequences *)

\* s counts on from a.
CountsFrom(s, a) == \A i \in 1..Len(s) : s[i] = a + i

\* Append position by position.
LEMMA AppendFacts ==
  ASSUME NEW S, NEW s \in Seq(S), NEW e \in S
  PROVE  /\ Append(s, e) \in Seq(S) /\ Len(Append(s, e)) = Len(s) + 1
         /\ \A i \in 1..Len(s) : Append(s, e)[i] = s[i]
         /\ Append(s, e)[Len(s) + 1] = e
  OBVIOUS

\* What is left of a queue when its first element is taken.
LEMMA TakeFacts ==
  ASSUME NEW S, NEW s \in Seq(S), s # <<>>
  PROVE  /\ Len(s) \in Nat \ {0} /\ Head(s) \in S /\ Head(s) = s[1]
         /\ Tail(s) \in Seq(S) /\ Len(Tail(s)) = Len(s) - 1
         /\ \A i \in 1..Len(s) - 1 : Tail(s)[i] = s[i + 1]
  OBVIOUS

\* A sequence is empty exactly when its length is 0.
LEMMA EmptyFacts ==
  ASSUME NEW S, NEW s \in Seq(S)
  PROVE  Len(s) \in Nat /\ (s = <<>> <=> Len(s) = 0)
  OBVIOUS

\* A sequence that counts goes on counting when the next number is appended.
LEMMA CountAppend ==
  ASSUME NEW S, NEW s \in Seq(S), NEW a \in Nat, CountsFrom(s, a),
         NEW e \in S, e = a + Len(s) + 1
  PROVE  /\ Append(s, e) \in Seq(S) /\ Len(Append(s, e)) = Len(s) + 1
         /\ CountsFrom(Append(s, e), a)
<1> DEFINE t == Append(s, e)
<1>1. /\ t \in Seq(S) /\ Len(t) = Len(s) + 1
      /\ \A i \in 1..Len(s) : t[i] = s[i]
      /\ t[Len(s) + 1] = e
  BY AppendFacts
<1>2. ASSUME NEW i \in 1..Len(t) PROVE t[i] = a + i
  <2>1. Len(s) \in Nat
    BY EmptyFacts
  <2>2. CASE i \in 1..Len(s)
    BY <1>1, <2>2 DEF CountsFrom
  <2>3. CASE i = Len(s) + 1
    BY <1>1, <2>1, <2>3
  <2> QED BY <1>1, <2>1, <2>2, <2>3
<1> QED BY <1>1, <1>2 DEF CountsFrom

\* The rest of a sequence that counts from a counts from a + 1.
LEMMA CountTail ==
  ASSUME NEW S, NEW s \in Seq(S), s # <<>>, NEW a \in Nat, CountsFrom(s, a)
  PROVE  /\ Head(s) = a + 1 /\ Head(s) \in S /\ Tail(s) \in Seq(S)
         /\ Len(s) \in Nat \ {0} /\ Len(Tail(s)) = Len(s) - 1
         /\ CountsFrom(Tail(s), a + 1)
<1>1. /\ Len(s) \in Nat \ {0} /\ Head(s) \in S /\ Head(s) = s[1]
      /\ Tail(s) \in Seq(S) /\ Len(Tail(s)) = Len(s) - 1
      /\ \A i \in 1..Len(s) - 1 : Tail(s)[i] = s[i + 1]
  BY TakeFacts
<1>2. ASSUME NEW i \in 1..Len(Tail(s)) PROVE Tail(s)[i] = (a + 1) + i
  <2>1. i \in 1..Len(s) - 1 /\ i + 1 \in 1..Len(s)
    BY <1>1
  <2> QED BY <1>1, <2>1 DEF CountsFrom
<1>3. s[1] = a + 1
  BY <1>1 DEF CountsFrom
<1> QED BY <1>1, <1>2, <1>3 DEF CountsFrom
-----------------------------------------------------------------------------
(* Output streams: the inductive invariant *)

\* Beats that have entered the queue.
Pushed == Len(received) + Len(queue)
Room == Len(queue) < Depth

\* The part of OstreamTypeOK the argument needs.
OutTypes ==
  /\ bench \in Benches /\ step \in {"push", "offer", "edge"}
  /\ queue \in Seq(1..Count) /\ received \in Seq(1..Count)
  /\ pend \in 0..Count /\ accepted \in 0..Count

\* What the host has and what is in the queue counts on.
OutNumbered ==
  /\ CountsFrom(received, 0)
  /\ CountsFrom(queue, Len(received))

\* The beat the kernel presents, if any, is yet to be pushed, or in the queue
\* and yet to be acknowledged.
Fresh == accepted = Pushed /\ pend \in {0, Pushed + 1}
InQueue == pend = Pushed /\ accepted + 1 = Pushed /\ pend # 0

\* Verilator, HLS: write is as of the last edge.  full_n goes low only in the
\* cycle of a push, so a kernel that sees it low is presenting the beat that
\* was pushed, and a kernel that presents none sees it high.
VhOut ==
  /\ step = "push" =>
       \/ write /\ pend # 0 /\ Fresh /\ Room
       \/ ~write /\ pend = 0 /\ Fresh /\ Room
       \/ ~write /\ InQueue
  /\ step = "offer" =>
       \/ InQueue
       \/ pend = 0 /\ Fresh /\ Room /\ ~knownFull
  /\ step = "edge" =>
       \/ InQueue /\ (offer => Room)
       \/ pend = 0 /\ Fresh /\ Room /\ offer

\* Verilator, Vitis: tready is probed before the push it goes with.
VvOut ==
  /\ step = "offer" => Fresh
  /\ step = "push" => Fresh /\ (offer => Room)
  /\ step = "edge" => IF pend # 0 /\ offer THEN InQueue ELSE Fresh

\* xsim: the ready that was registered at the edge before.
XOut ==
  /\ step = "push" => Fresh /\ (ready => Room)
  /\ step # "push" => IF pend # 0 /\ ready THEN InQueue ELSE Fresh
  /\ step = "edge" => (offer => Room)

OutBench ==
  /\ bench = "vh" => VhOut
  /\ bench = "vv" => VvOut
  /\ bench \in {"xh", "xv"} => XOut

OutInv == OutTypes /\ OutNumbered /\ OutBench /\ ~dropped
-----------------------------------------------------------------------------
\* The lengths are numbers, and queue and received are empty at length 0.
LEMMA OutLengths ==
  ASSUME OutTypes
  PROVE  /\ Len(queue) \in Nat /\ Len(received) \in Nat /\ Pushed \in Nat
         /\ Depth \in Nat \ {0} /\ Count \in Nat \ {0}
         /\ pend \in Nat /\ accepted \in Nat /\ pend <= Count /\ accepted <= Count
<1>1. Len(queue) \in Nat /\ Len(received) \in Nat
  BY EmptyFacts DEF OutTypes
<1> QED BY <1>1, StreamAssumption DEF OutTypes, Pushed

\* A push finds room, and pushes the beat that comes next: the one a push goes
\* with was presented after the last push was acknowledged.
LEMMA PushIsFresh ==
  ASSUME ~HoldsWrite, OutInv, step = "push", Pushing
  PROVE  Room /\ accepted = Pushed /\ pend = Pushed + 1
<1>1. pend \in Nat /\ Pushed \in Nat
  BY OutLengths DEF OutInv
<1>2. CASE bench = "vh"
  BY <1>1, <1>2 DEF OutInv, OutBench, VhOut, Pushing, Fresh, InQueue
<1>3. CASE bench = "vv"
  BY <1>1, <1>3 DEF OutInv, OutBench, VvOut, Pushing, Accepts, SeenReady, Verilator, Fresh
<1>4. CASE bench = "xh"
  BY <1>1, <1>4 DEF OutInv, OutBench, XOut, Pushing, Driving, SeenReady, Verilator, Hls, Fresh
<1>5. CASE bench = "xv"
  BY <1>1, <1>5 DEF OutInv, OutBench, XOut, Pushing, Accepts, SeenReady, Verilator, Fresh
<1> QED BY <1>2, <1>3, <1>4, <1>5 DEF OutInv, OutTypes, Benches

\* The kernel's next beat, if it presents one, is the one after those it has
\* seen accepted.
LEMMA PresentsNext ==
  ASSUME OutInv, pend # 0
  PROVE  pend = accepted + 1
<1>1. Fresh \/ InQueue
  BY DEF OutInv, OutBench, OutTypes, Benches, VhOut, VvOut, XOut
<1> QED BY <1>1, OutLengths DEF OutInv, Fresh, InQueue

\* The kernel's part of an edge.
LEMMA KernelStepFacts ==
  ASSUME OutInv, OstreamKernel
  PROVE  /\ accepted' = IF Accepts THEN accepted + 1 ELSE accepted
         /\ IF pend # 0 /\ ~Accepts THEN pend' = pend ELSE pend' \in {0, accepted' + 1}
         /\ pend' \in 0..Count /\ accepted' \in 0..Count
<1>1. /\ pend \in 0..Count /\ accepted \in 0..Count /\ Count \in Nat
      /\ pend # 0 => pend = accepted + 1
  BY PresentsNext, StreamAssumption DEF OutInv, OutTypes
<1>2. Accepts => accepted + 1 <= Count
  BY <1>1 DEF Accepts
<1> QED BY <1>1, <1>2 DEF OstreamKernel
-----------------------------------------------------------------------------
\* HostRead moves a beat from the queue to the host.
LEMMA OutHostRead ==
  ASSUME OutInv, HostRead
  PROVE  OutInv'
<1>1. /\ Head(queue) = Len(received) + 1 /\ Head(queue) \in 1..Count /\ Tail(queue) \in Seq(1..Count)
      /\ Len(queue) \in Nat \ {0} /\ Len(Tail(queue)) = Len(queue) - 1
      /\ CountsFrom(Tail(queue), Len(received) + 1)
  BY CountTail, OutLengths DEF HostRead, OutInv, OutTypes, OutNumbered
<1>2. /\ received' \in Seq(1..Count) /\ Len(received') = Len(received) + 1
      /\ CountsFrom(received', 0)
  <2>1. received \in Seq(1..Count) /\ CountsFrom(received, 0) /\ Head(queue) = 0 + Len(received) + 1
    BY <1>1, OutLengths DEF OutInv, OutTypes, OutNumbered
  <2> QED BY <1>1, <2>1, CountAppend DEF HostRead
<1>3. OutNumbered'
  BY <1>1, <1>2 DEF HostRead, OutNumbered
<1>4. OutTypes'
  BY <1>1, <1>2 DEF HostRead, OutInv, OutTypes, kernelVars, benchVars
<1>5. Pushed' = Pushed /\ (Room => Room')
  <2>1. Len(queue') = Len(queue) - 1 /\ Len(received') = Len(received) + 1
    BY <1>1, <1>2 DEF HostRead
  <2> QED BY <2>1, OutLengths DEF Pushed, Room, OutInv
<1>6. OutBench'
  BY <1>5 DEF HostRead, OutInv, OutBench, VhOut, VvOut, XOut, Fresh, InQueue, kernelVars, benchVars
<1> QED BY <1>3, <1>4, <1>6 DEF OutInv, HostRead

\* Push adds the kernel's next beat, or nothing.
LEMMA OutPush ==
  ASSUME ~HoldsWrite, OutInv, Push
  PROVE  OutInv'
<1>l. /\ Len(queue) \in Nat /\ Len(received) \in Nat /\ Pushed \in Nat /\ Depth \in Nat \ {0}
      /\ pend \in Nat /\ accepted \in Nat /\ pend <= Count
  BY OutLengths DEF OutInv
<1>1. CASE Pushing
  <2>1. Room /\ accepted = Pushed /\ pend = Pushed + 1
    BY <1>1, PushIsFresh DEF Push
  <2>2. /\ queue' = Append(queue, pend) /\ step' = After("push")
        /\ UNCHANGED <<dropped, phase, bench, received, kernelVars, ready, offer, write>>
    BY <1>1, <2>1 DEF Push, Room
  <2>3. pend = Len(received) + Len(queue) + 1 /\ pend \in 1..Count
    BY <1>l, <2>1 DEF Pushed
  <2>4. queue' \in Seq(1..Count) /\ Len(queue') = Len(queue) + 1 /\ CountsFrom(queue', Len(received))
    <3> DEFINE a == Len(received)
    <3>1. /\ queue \in Seq(1..Count) /\ a \in Nat /\ CountsFrom(queue, a)
          /\ pend \in 1..Count /\ pend = a + Len(queue) + 1 /\ queue' = Append(queue, pend)
      BY <1>l, <2>2, <2>3 DEF OutInv, OutTypes, OutNumbered
    <3> HIDE DEF a
    <3>2. queue' \in Seq(1..Count) /\ Len(queue') = Len(queue) + 1 /\ CountsFrom(queue', a)
      BY ONLY <3>1, CountAppend
    <3> QED BY <3>2 DEF a
  <2>5. OutNumbered'
    BY <2>2, <2>4 DEF OutInv, OutNumbered
  <2>6. OutTypes'
    BY <2>2, <2>4 DEF OutInv, OutTypes, Push, After, kernelVars
  <2>7. Pushed' = Pushed + 1
    BY <1>l, <2>2, <2>4 DEF Pushed
  <2>8. InQueue'
    BY <1>l, <2>1, <2>2, <2>7 DEF InQueue, kernelVars
  <2>9. OutBench'
    <3>1. CASE bench = "vh"
      BY <2>2, <2>8, <3>1 DEF After, OutBench, VhOut
    <3>2. CASE bench = "vv"
      BY <1>1, <2>2, <2>8, <3>2 DEF After, OutBench, VvOut, Pushing, Accepts, SeenReady, Verilator,
                                    kernelVars
    <3>3. CASE bench \in {"xh", "xv"}
      BY <1>1, <2>2, <2>8, <3>3 DEF After, OutBench, XOut, Pushing, Driving, Accepts, SeenReady,
                                    Verilator, Hls, kernelVars
    <3> QED BY <3>1, <3>2, <3>3 DEF OutInv, OutTypes, Benches
  <2> QED BY <2>2, <2>5, <2>6, <2>9 DEF OutInv
<1>2. CASE ~Pushing
  <2>1. /\ queue' = queue /\ step' = After("push") /\ ~knownFull' /\ step = "push"
        /\ ~dropped'
        /\ UNCHANGED <<phase, bench, received, kernelVars, ready, offer, write>>
    BY <1>2 DEF Push, OutInv
  <2>2. OutTypes' /\ OutNumbered'
    BY <2>1 DEF OutInv, OutTypes, OutNumbered, After, kernelVars
  <2>3. Pushed' = Pushed /\ (Room <=> Room')
    BY <2>1 DEF Pushed, Room
  <2>4. OutBench'
    <3>1. CASE bench = "vh"
      BY <1>2, <2>1, <2>3, <3>1
         DEF After, OutInv, OutBench, VhOut, Pushing, Fresh, InQueue, kernelVars
    <3>2. CASE bench = "vv"
      BY <1>2, <2>1, <2>3, <3>2
         DEF After, OutInv, OutBench, VvOut, Pushing, Accepts, SeenReady, Verilator, Fresh, kernelVars
    <3>3. CASE bench \in {"xh", "xv"}
      BY <1>2, <2>1, <2>3, <3>3
         DEF After, OutInv, OutBench, XOut, Pushing, Driving, Accepts, SeenReady, Verilator, Hls,
             Fresh, kernelVars
    <3> QED BY <3>1, <3>2, <3>3 DEF OutInv, OutTypes, Benches
  <2> QED BY <2>1, <2>2, <2>4 DEF OutInv
<1> QED BY <1>1, <1>2

\* Offer looks at the queue and leaves it alone.
LEMMA OutOffer ==
  ASSUME OutInv, Offer
  PROVE  OutInv'
<1>1. /\ step = "offer" /\ step' = After("offer")
      /\ offer' = ((bench \in Hls => ~knownFull) /\ Room)
      /\ UNCHANGED <<queue, received, kernelVars, knownFull, benchVars, dropped>>
  BY DEF Offer, Room
<1>2. OutTypes' /\ OutNumbered'
  BY <1>1 DEF OutInv, OutTypes, OutNumbered, After, kernelVars, benchVars
<1>3. Pushed' = Pushed /\ (Room <=> Room')
  BY <1>1 DEF Pushed, Room
<1>4. OutBench'
  <2>1. CASE bench = "vh"
    BY <1>1, <1>3, <2>1
       DEF After, OutInv, OutBench, VhOut, Fresh, InQueue, kernelVars, benchVars, Hls
  <2>2. CASE bench = "vv"
    BY <1>1, <1>3, <2>2 DEF After, OutInv, OutBench, VvOut, Fresh, kernelVars, benchVars
  <2>3. CASE bench \in {"xh", "xv"}
    BY <1>1, <1>3, <2>3
       DEF After, OutInv, OutBench, XOut, Fresh, InQueue, kernelVars, benchVars
  <2> QED BY <2>1, <2>2, <2>3 DEF OutInv, OutTypes, Benches
<1> QED BY <1>1, <1>2, <1>4 DEF OutInv

\* At the edge the kernel sees its beat accepted exactly when it is in the
\* queue, and may present the next.
LEMMA OutEdge ==
  ASSUME ~HoldsWrite, OutInv, OstreamEdge
  PROVE  OutInv'
<1>l. Pushed \in Nat /\ pend \in Nat /\ accepted \in Nat
  BY OutLengths DEF OutInv
<1>1. /\ step = "edge" /\ step' = After("edge") /\ ready' = offer
      /\ write' = (bench = "vh" /\ pend' # 0 /\ offer)
      /\ UNCHANGED <<bench, queue, received, offer, knownFull, dropped>>
  BY DEF OstreamEdge, BusyAfterEdge
<1>2. /\ accepted' = IF Accepts THEN accepted + 1 ELSE accepted
      /\ IF pend # 0 /\ ~Accepts THEN pend' = pend ELSE pend' \in {0, accepted' + 1}
      /\ pend' \in 0..Count /\ accepted' \in 0..Count
  BY KernelStepFacts DEF OstreamEdge
<1>3. OutTypes' /\ OutNumbered'
  BY <1>1, <1>2 DEF OutInv, OutTypes, OutNumbered, After, FirstStep, Benches
<1>4. Pushed' = Pushed /\ (Room <=> Room')
  BY <1>1 DEF Pushed, Room
<1>5. OutBench'
  <2>1. CASE bench = "vh"
    <3>1. step' = "push"
      BY <1>1, <2>1 DEF After, FirstStep
    <3>2. Accepts <=> pend # 0 /\ offer
      BY <2>1 DEF Accepts, SeenReady, Verilator
    <3>3. CASE InQueue /\ (offer => Room)
      <4>1. CASE offer
        <5>1. accepted' = Pushed /\ pend' \in {0, Pushed + 1} /\ Room
          BY <1>l, <1>2, <3>2, <3>3, <4>1 DEF InQueue
        <5>2. write' <=> pend' # 0
          BY <1>1, <2>1, <4>1
        <5> QED BY <1>1, <1>4, <2>1, <3>1, <5>1, <5>2 DEF OutBench, VhOut, Fresh
      <4>2. CASE ~offer
        <5>1. accepted' = accepted /\ pend' = pend /\ ~write'
          BY <1>1, <1>2, <3>2, <3>3, <4>2 DEF InQueue
        <5> QED BY <1>1, <1>4, <2>1, <3>1, <3>3, <5>1 DEF OutBench, VhOut, InQueue
      <4> QED BY <4>1, <4>2
    <3>4. CASE pend = 0 /\ Fresh /\ Room /\ offer
      <4>1. accepted' = Pushed /\ pend' \in {0, Pushed + 1}
        BY <1>l, <1>2, <3>2, <3>4 DEF Fresh
      <4>2. write' <=> pend' # 0
        BY <1>1, <2>1, <3>4
      <4> QED BY <1>1, <1>4, <2>1, <3>1, <3>4, <4>1, <4>2 DEF OutBench, VhOut, Fresh
    <3> QED BY <1>1, <2>1, <3>3, <3>4 DEF OutInv, OutBench, VhOut
  <2>2. CASE bench = "vv"
    <3>1. step' = "offer" /\ (Accepts <=> pend # 0 /\ offer)
      BY <1>1, <2>2 DEF After, FirstStep, Accepts, SeenReady, Verilator
    <3>2. accepted' = Pushed /\ pend' \in {0, Pushed + 1}
      BY <1>l, <1>1, <1>2, <2>2, <3>1 DEF OutInv, OutBench, VvOut, Fresh, InQueue
    <3> QED BY <1>1, <1>4, <2>2, <3>1, <3>2 DEF OutBench, VvOut, Fresh
  <2>3. CASE bench \in {"xh", "xv"}
    <3>1. step' = "push" /\ (Accepts <=> pend # 0 /\ ready)
      BY <1>1, <2>3 DEF After, FirstStep, Accepts, SeenReady, Verilator
    <3>2. accepted' = Pushed /\ pend' \in {0, Pushed + 1} /\ (offer => Room)
      BY <1>l, <1>1, <1>2, <2>3, <3>1 DEF OutInv, OutBench, XOut, Fresh, InQueue
    <3> QED BY <1>1, <1>4, <2>3, <3>1, <3>2 DEF OutBench, XOut, Fresh
  <2> QED BY <2>1, <2>2, <2>3 DEF OutInv, OutTypes, Benches
<1> QED BY <1>1, <1>3, <1>5 DEF OutInv
-----------------------------------------------------------------------------
(* Output streams: the end of the drain *)

\* A bench leaves the drain only when the kernel has nothing left to present.
\* An HLS kernel is done only then; an AXIS kernel that has more to come is
\* quiet for no longer than its gap, which the bench outwaits.
DrainTypes == gap \in 0..MaxGap /\ idle \in Nat /\ drained \in Nat
HlsDone == bench \in Hls /\ (done \/ phase \in {"drain", "tail", "ok"}) => accepted = Count
Outwaits ==
  /\ phase = "run" => idle = 0
  /\ pend # 0 => gap = 0
  /\ phase = "drain" /\ bench \notin Hls /\ accepted < Count =>
       idle <= IF pend = 0 THEN gap ELSE IF bench = "vv" THEN 0 ELSE MaxGap + 1
OverIsOver == phase \in {"tail", "ok"} => accepted = Count
OutDrain == DrainTypes /\ HlsDone /\ Outwaits /\ OverIsOver

\* Once all are accepted, nothing is presented, and nothing ever again.
LEMMA AllAccepted ==
  ASSUME OutInv, accepted = Count
  PROVE  pend = 0 /\ Pushed = Count /\ (OstreamKernel => accepted' = Count /\ pend' = 0)
<1>1. pend = 0
  BY PresentsNext, OutLengths DEF OutInv
<1>2. Pushed = Count
  BY <1>1, OutLengths
     DEF OutInv, OutTypes, OutBench, Benches, VhOut, VvOut, XOut, Fresh, InQueue
<1>3. OstreamKernel => accepted' = Count /\ pend' = 0
  BY <1>1, OutLengths DEF OstreamKernel, Accepts, OutInv
<1> QED BY <1>1, <1>2, <1>3

\* Only the edge disturbs what the drain goes by.
LEMMA DrainKept ==
  ASSUME MaxGap + 1 < IdleCycles, OutInv, OutDrain, ~dropped',
         HostRead \/ Push \/ Offer \/ OstreamEdge
  PROVE  OutDrain'
<1>1. CASE HostRead
  BY <1>1 DEF HostRead, OutDrain, DrainTypes, HlsDone, Outwaits, OverIsOver, kernelVars, benchVars
<1>2. CASE Offer
  BY <1>2 DEF Offer, OutDrain, DrainTypes, HlsDone, Outwaits, OverIsOver, kernelVars, benchVars
<1>3. CASE Push
  <2>1. UNCHANGED <<bench, phase, idle, drained, kernelVars>>
    BY <1>3 DEF Push
  <2> QED BY <2>1 DEF OutDrain, DrainTypes, HlsDone, Outwaits, OverIsOver, kernelVars
<1>4. CASE OstreamEdge
  <2>l. /\ MaxGap \in Nat /\ IdleCycles \in Nat /\ Count \in Nat /\ Depth \in Nat
        /\ gap \in 0..MaxGap /\ idle \in Nat /\ drained \in Nat
        /\ accepted \in Nat /\ pend \in Nat /\ accepted <= Count
    BY StreamAssumption, OutLengths DEF OutInv, OutDrain, DrainTypes
  <2>1. bench' = bench /\ OstreamKernel /\ (WatchDone \/ Drain \/ Tail2)
    BY <1>4 DEF OstreamEdge
  <2>b. bench' = bench
    BY <2>1
  <2>2. /\ accepted' = IF Accepts THEN accepted + 1 ELSE accepted
        /\ IF pend # 0 /\ ~Accepts THEN pend' = pend ELSE pend' \in {0, accepted' + 1}
        /\ pend' \in 0..Count /\ accepted' \in 0..Count
    BY <2>1, KernelStepFacts
  <2>3. DrainTypes'
    <3>1. gap' \in 0..MaxGap
      BY <2>l, <2>1 DEF OstreamKernel
    <3>2. idle' \in Nat /\ drained' \in Nat
      BY <2>l, <2>1 DEF WatchDone, Drain, Tail2
    <3> QED BY <3>1, <3>2 DEF DrainTypes
  <2>4. accepted = Count => accepted' = Count
    BY <2>1, AllAccepted
  <2>5. HlsDone'
    <3>1. CASE accepted = Count
      BY <2>4, <3>1 DEF HlsDone
    <3>2. CASE accepted # Count /\ bench \in Hls
      <4>1. ~done /\ phase \notin {"drain", "tail", "ok"}
        BY <3>2 DEF OutDrain, HlsDone
      <4>2. WatchDone
        BY <2>1, <4>1 DEF Drain, Tail2
      <4>3. done' => accepted' = Count
        BY <2>1, <3>2, <4>1 DEF OstreamKernel
      <4>4. phase' \in {"drain", "tail", "ok"} => done'
        BY <4>1, <4>2 DEF WatchDone, DoneSeen
      <4> QED BY <4>3, <4>4 DEF HlsDone
    <3>3. CASE bench \notin Hls
      BY <2>1, <3>3 DEF HlsDone
    <3> QED BY <3>1, <3>2, <3>3
  <2>6. pend' # 0 => gap' = 0
    BY <2>1 DEF OstreamKernel, OutDrain, Outwaits
  <2>7. pend = 0 /\ pend' = 0 /\ accepted' < Count => gap' = gap + 1
    BY <2>l, <2>1 DEF OstreamKernel
  <2>8. CASE WatchDone
    <3>1. phase = "run" /\ phase' \in {"run", "drain"} /\ idle' = 0
      BY <2>8 DEF WatchDone, OutDrain, Outwaits
    <3>2. Outwaits'
      BY <2>l, <2>3, <2>6, <3>1 DEF Outwaits, DrainTypes
    <3> QED BY <2>3, <2>5, <3>1, <3>2 DEF OutDrain, OverIsOver
  <2>9. CASE Tail2
    <3>1. phase = "tail" /\ phase' \in {"tail", "ok"}
      BY <2>9 DEF Tail2
    <3>2. accepted' = Count
      BY <2>4, <3>1 DEF OutDrain, OverIsOver
    <3> QED BY <2>3, <2>5, <2>6, <3>1, <3>2 DEF OutDrain, OverIsOver, Outwaits
  <2>10. CASE Drain
    <3>1. phase = "drain" /\ phase' \in {"drain", "tail", "ok", "failed"}
      BY <2>10 DEF Drain
    <3>2. CASE accepted = Count
      <4>1. accepted' = Count
        BY <2>4, <3>2
      <4> QED BY <2>3, <2>5, <2>6, <2>l, <3>1, <4>1 DEF OutDrain, OverIsOver, Outwaits
    <3>3. CASE accepted # Count
      <4>1. bench \notin Hls /\ accepted < Count
        BY <2>l, <3>1, <3>3 DEF OutDrain, HlsDone
      <4>2. idle <= IF pend = 0 THEN gap ELSE IF bench = "vv" THEN 0 ELSE MaxGap + 1
        BY <3>1, <4>1 DEF OutDrain, Outwaits
      <4>3. Busy <=> IF bench = "vv" THEN pend' # 0 ELSE pend # 0
        BY <4>1, <2>1 DEF Busy, BusyAfterEdge, Driving, Hls, Verilator, OutInv, OutTypes, Benches
      <4> DEFINE quiet == IF Busy THEN 0 ELSE idle + 1
      <4>4. CASE phase' = "failed"
        BY <2>3, <2>5, <2>6, <4>4 DEF OutDrain, OverIsOver, Outwaits
      <4>5. CASE phase' # "failed"
        <5>1. quiet < IdleCycles => phase' = "drain" /\ idle' = quiet
          <6>1. /\ idle' = IF quiet >= IdleCycles THEN 0 ELSE quiet
                /\ quiet < IdleCycles => phase' = "drain"
            BY <2>10, <4>1, <4>5 DEF Drain, Hls
          <6>2. quiet < IdleCycles => ~(quiet >= IdleCycles)
            BY <2>l
          <6> QED BY <6>1, <6>2
        <5>2. CASE bench = "vv"
          <6>1. CASE pend' # 0
            BY <2>l, <2>3, <2>5, <2>6, <4>3, <5>1, <5>2, <6>1
               DEF OutDrain, OverIsOver, Outwaits, DrainTypes
          <6>2. CASE pend' = 0 /\ accepted' < Count
            <7>1. gap' = gap + 1
              BY <2>l, <2>1, <2>2, <6>2 DEF OstreamKernel
            <7>2. idle <= gap
              BY <2>l, <4>2, <5>2
            <7>3. quiet = idle + 1
              BY <4>3, <5>2, <6>2
            <7>4. gap' <= MaxGap
              BY <2>3 DEF DrainTypes
            <7> QED BY <2>l, <2>3, <2>5, <2>6, <5>1, <6>2, <7>1, <7>2, <7>3, <7>4
                    DEF OutDrain, OverIsOver, Outwaits
          <6>3. CASE accepted' = Count
            BY <2>l, <2>3, <2>5, <2>6, <3>1, <6>3 DEF OutDrain, OverIsOver, Outwaits
          <6> QED BY <2>2, <2>l, <6>1, <6>2, <6>3
        <5>3. CASE bench # "vv"
          <6>1. CASE pend # 0
            BY <2>l, <2>3, <2>5, <2>6, <4>3, <5>1, <5>3, <6>1
               DEF OutDrain, OverIsOver, Outwaits, DrainTypes
          <6>2. CASE pend = 0
            <7>1. quiet = idle + 1 /\ idle <= gap
              BY <4>2, <4>3, <5>3, <6>2
            <7>2. quiet <= gap + 1 /\ quiet < IdleCycles
              BY <2>l, <7>1
            <7>3. phase' = "drain" /\ idle' <= gap + 1 /\ idle' <= MaxGap + 1
              BY <2>l, <5>1, <7>1, <7>2
            <7>4. Outwaits'
              <8>1. CASE pend' = 0
                <9>1. accepted' < Count => gap' = gap + 1
                  BY <2>7, <6>2, <8>1
                <9> QED BY <2>6, <7>3, <8>1, <9>1 DEF Outwaits
              <8>2. CASE pend' # 0
                BY <2>b, <2>6, <5>3, <7>3, <8>2 DEF Outwaits
              <8> QED BY <8>1, <8>2
            <7> QED BY <2>3, <2>5, <7>3, <7>4 DEF OutDrain, OverIsOver
          <6> QED BY <6>1, <6>2
        <5> QED BY <5>2, <5>3
      <4> QED BY <4>4, <4>5
    <3> QED BY <3>2, <3>3
  <2> QED BY <2>1, <2>8, <2>9, <2>10
<1> QED BY <1>1, <1>2, <1>3, <1>4
-----------------------------------------------------------------------------
(* Input streams: the inductive invariant *)

\* Tokens that have left the queue.
Popped == sent - Len(queue)

\* The part of IstreamTypeOK the argument needs.
InTypes ==
  /\ bench \in Benches /\ step \in {"pop", "peek", "edge"}
  /\ bench \notin Hls => step # "peek"
  /\ queue \in Seq(1..Count) /\ got \in Seq(1..Count)
  /\ sent \in 0..Count /\ Len(queue) <= sent /\ after \in Nat

\* What the kernel has read counts on, and so does what is in the queue.
InNumbered ==
  /\ CountsFrom(got, 0)
  /\ CountsFrom(queue, Popped)

\* Verilator, HLS: the token shown is the head of the queue, and a token read
\* is popped a step later.
VhIn ==
  /\ step = "pop" => IF consumed THEN Popped + 1 = Len(got) /\ queue # <<>> /\ lastValid
                     ELSE Popped = Len(got)
  /\ step # "pop" => Popped = Len(got)
  /\ step = "edge" /\ haveNext => queue # <<>> /\ dataNext = Len(got) + 1

\* xsim, HLS: the token shown is the head as of the edge before, and is popped
\* before the edge at which the kernel reads it.
XhIn ==
  /\ IF step # "pop" /\ have /\ want THEN Popped = Len(got) + 1 ELSE Popped = Len(got)
  /\ have => data = Len(got) + 1
  /\ have /\ step = "pop" => queue # <<>> /\ lastValid
  /\ step = "edge" /\ haveNext => queue # <<>> /\ dataNext = Popped + 1

\* Vitis: the holding register has the one token between queue and kernel.
VvIn ==
  /\ step = "pop" => IF have THEN Popped = Len(got) + 1 /\ dataNext = Len(got) + 1
                     ELSE Popped = Len(got)
  /\ step = "edge" => IF haveNext THEN Popped = Len(got) + 1 /\ dataNext = Len(got) + 1
                      ELSE Popped = Len(got)
XvIn ==
  /\ have => Popped = Len(got) + 1 /\ data = Len(got) + 1 /\ dataNext = Len(got) + 1
  /\ step = "pop" /\ ~have => Popped = Len(got)
  /\ step = "edge" =>
       IF have THEN haveNext <=> ~want
       ELSE IF haveNext THEN Popped = Len(got) + 1 /\ dataNext = Len(got) + 1
       ELSE Popped = Len(got)

InBench ==
  /\ bench = "vh" => VhIn /\ (step = "edge" /\ haveNext => lastValid)
  /\ bench = "xh" => XhIn /\ (step = "edge" /\ haveNext => lastValid)
  /\ bench = "vv" => VvIn
  /\ bench = "xv" => XvIn

\* The kernel asks for no more than it needs, and completion comes after the
\* last token, whose pop is at most a cycle behind.
InEnd ==
  /\ want => Len(got) < Count
  /\ Len(got) < Count => after = 0
  /\ consumed => after <= 1

InInv == InTypes /\ InNumbered /\ InBench /\ InEnd
-----------------------------------------------------------------------------
\* The lengths are numbers.
LEMMA InLengths ==
  ASSUME InTypes
  PROVE  /\ Len(queue) \in Nat /\ Len(got) \in Nat /\ Popped \in Nat /\ sent \in Nat
         /\ Count \in Nat /\ sent = Popped + Len(queue) /\ sent <= Count
<1>1. Len(queue) \in Nat /\ Len(got) \in Nat
  BY EmptyFacts DEF InTypes
<1> QED BY <1>1, StreamAssumption DEF InTypes, Popped

\* Taking the head of the queue, with nothing read meanwhile.
LEMMA PopFacts ==
  ASSUME InInv, queue # <<>>, queue' = Tail(queue), UNCHANGED <<sent, got>>
  PROVE  /\ Head(queue) = Popped + 1 /\ Popped' = Popped + 1
         /\ queue' \in Seq(1..Count) /\ Len(queue') <= sent' /\ InNumbered'
<1>1. Popped \in Nat /\ Len(queue) \in Nat /\ sent \in Nat /\ Len(queue) <= sent
  BY InLengths DEF InInv, InTypes
<1>2. /\ Head(queue) = Popped + 1 /\ Tail(queue) \in Seq(1..Count)
      /\ Len(Tail(queue)) = Len(queue) - 1
      /\ CountsFrom(Tail(queue), Popped + 1)
  BY <1>1, CountTail DEF InInv, InTypes, InNumbered
<1>3. Popped' = Popped + 1
  BY <1>1, <1>2 DEF Popped
<1>4. InNumbered'
  BY <1>2, <1>3 DEF InInv, InNumbered
<1> QED BY <1>1, <1>2, <1>3, <1>4

\* The host appends the next token.
LEMMA InHostWrite ==
  ASSUME InInv, HostWrite
  PROVE  InInv'
<1>l. /\ Len(queue) \in Nat /\ Len(got) \in Nat /\ Popped \in Nat /\ sent \in Nat
      /\ Count \in Nat /\ sent = Popped + Len(queue)
  BY InLengths DEF InInv
<1>1. /\ queue' = Append(queue, sent + 1)
      /\ sent' = sent + 1 /\ sent < Count
      /\ UNCHANGED <<bench, step, lastValid, have, data, haveNext, dataNext, want, consumed, got, after>>
  BY DEF HostWrite
<1>2. queue' \in Seq(1..Count) /\ Len(queue') = Len(queue) + 1 /\ CountsFrom(queue', Popped)
  <2>1. sent + 1 \in 1..Count /\ sent + 1 = Popped + Len(queue) + 1
    BY <1>l, <1>1
  <2> QED BY <1>l, <1>1, <2>1, CountAppend DEF InInv, InTypes, InNumbered
<1>3. Popped' = Popped /\ queue' # <<>>
  <2>1. Popped' = Popped
    BY <1>l, <1>1, <1>2 DEF Popped
  <2>2. Len(queue') # 0
    BY <1>l, <1>2
  <2> QED BY <1>2, <2>1, <2>2, EmptyFacts
<1>4. InTypes'
  BY <1>l, <1>1, <1>2 DEF InInv, InTypes
<1>5. InNumbered'
  BY <1>1, <1>2, <1>3 DEF InInv, InNumbered
<1>6. InBench'
  BY <1>1, <1>3 DEF InInv, InBench, VhIn, XhIn, VvIn, XvIn
<1>7. InEnd'
  BY <1>1 DEF InInv, InEnd
<1> QED BY <1>4, <1>5, <1>6, <1>7 DEF InInv

\* The HLS step pops exactly the token whose handshake it is told of.
LEMMA InHlsPop ==
  ASSUME InInv, HlsPop
  PROVE  InInv'
<1>l. Len(queue) \in Nat /\ Len(got) \in Nat /\ Popped \in Nat
  BY InLengths DEF InInv
<1>1. /\ step = "pop" /\ step' = "peek" /\ bench \in Hls
      /\ UNCHANGED <<bench, sent, lastValid, have, data, haveNext, dataNext, want, consumed, got, after>>
  BY DEF HlsPop
<1>2. InEnd'
  BY <1>1 DEF InInv, InEnd
<1>3. CASE Consume
  <2>1. queue # <<>> /\ lastValid
    BY <1>1, <1>3 DEF Consume, InInv, InBench, VhIn, XhIn, Hls
  <2>2. queue' = Tail(queue)
    BY <1>3, <2>1 DEF HlsPop
  <2>3. /\ Popped' = Popped + 1 /\ queue' \in Seq(1..Count) /\ Len(queue') <= sent' /\ InNumbered'
    BY <1>1, <2>1, <2>2, PopFacts
  <2>4. InTypes'
    BY <1>1, <2>3 DEF InInv, InTypes
  <2>5. InBench'
    BY <1>l, <1>1, <1>3, <2>3 DEF Consume, InInv, InBench, VhIn, XhIn, Hls
  <2> QED BY <1>2, <2>3, <2>4, <2>5 DEF InInv
<1>4. CASE ~Consume
  <2>1. queue' = queue /\ Popped' = Popped
    BY <1>1, <1>4 DEF HlsPop, Popped
  <2>2. InTypes' /\ InNumbered'
    BY <1>1, <2>1 DEF InInv, InTypes, InNumbered
  <2>3. InBench'
    BY <1>l, <1>1, <1>4, <2>1 DEF Consume, InInv, InBench, VhIn, XhIn, Hls
  <2> QED BY <1>2, <2>2, <2>3 DEF InInv
<1> QED BY <1>3, <1>4

\* The HLS step then shows the head of the queue.
LEMMA InHlsPeek ==
  ASSUME InInv, HlsPeek
  PROVE  InInv'
<1>l. Len(queue) \in Nat /\ Len(got) \in Nat /\ Popped \in Nat
  BY InLengths DEF InInv
<1>1. /\ step = "peek" /\ step' = "edge" /\ bench \in Hls
      /\ lastValid' = (queue # <<>>) /\ haveNext' = (queue # <<>>)
      /\ queue # <<>> => dataNext' = Head(queue)
      /\ UNCHANGED <<bench, queue, sent, have, data, want, consumed, got, after>>
  BY DEF HlsPeek
<1>2. queue # <<>> => Head(queue) = Popped + 1
  BY <1>l, CountTail DEF InInv, InTypes, InNumbered
<1>3. Popped' = Popped
  BY <1>1 DEF Popped
<1>4. InTypes' /\ InNumbered' /\ InEnd'
  BY <1>1, <1>3 DEF InInv, InTypes, InNumbered, InEnd
<1>5. InBench'
  BY <1>l, <1>1, <1>2, <1>3 DEF InInv, InBench, VhIn, XhIn, Hls
<1> QED BY <1>4, <1>5 DEF InInv

\* The Vitis benches pop a token into the holding register when it is empty.
LEMMA InVitisFetch ==
  ASSUME InInv, VitisFetch
  PROVE  InInv'
<1>l. Len(queue) \in Nat /\ Len(got) \in Nat /\ Popped \in Nat
  BY InLengths DEF InInv
<1>1. /\ step = "pop" /\ step' = "edge" /\ bench \notin Hls
      /\ UNCHANGED <<bench, sent, lastValid, have, data, want, consumed, got, after>>
  BY DEF VitisFetch
<1>2. InEnd'
  BY <1>1 DEF InInv, InEnd
<1>3. CASE ~have /\ queue # <<>>
  <2>1. haveNext' = TRUE /\ dataNext' = Head(queue) /\ queue' = Tail(queue)
    BY <1>3 DEF VitisFetch
  <2>2. /\ Head(queue) = Popped + 1 /\ Popped' = Popped + 1
        /\ queue' \in Seq(1..Count) /\ Len(queue') <= sent' /\ InNumbered'
    BY <1>1, <1>3, <2>1, PopFacts
  <2>3. InTypes'
    BY <1>1, <2>2 DEF InInv, InTypes
  <2>4. InBench'
    BY <1>l, <1>1, <1>3, <2>1, <2>2 DEF InInv, InBench, VvIn, XvIn, Hls
  <2> QED BY <1>2, <2>2, <2>3, <2>4 DEF InInv
<1>4. CASE ~(~have /\ queue # <<>>)
  <2>1. haveNext' = (have /\ (bench = "xv" => ~want)) /\ UNCHANGED <<queue, dataNext>>
    BY <1>4 DEF VitisFetch
  <2>2. Popped' = Popped
    BY <1>1, <2>1 DEF Popped
  <2>3. InTypes' /\ InNumbered'
    BY <1>1, <2>1, <2>2 DEF InInv, InTypes, InNumbered
  <2>4. InBench'
    BY <1>l, <1>1, <2>1, <2>2 DEF InInv, InBench, VvIn, XvIn, Hls
  <2> QED BY <1>2, <2>3, <2>4 DEF InInv
<1> QED BY <1>3, <1>4

\* The kernel reads the token it is shown, which is the next one.
LEMMA InEdge ==
  ASSUME InInv, IstreamEdge
  PROVE  InInv'
<1>l. /\ Len(queue) \in Nat /\ Len(got) \in Nat /\ Popped \in Nat /\ Count \in Nat
      /\ after \in Nat /\ bench \in Benches
  BY InLengths DEF InInv, InTypes
<1>1. /\ step = "edge" /\ step' = "pop" /\ data' = dataNext
      /\ have' = (haveNext /\ (bench = "vv" => ~want))
      /\ consumed' = (bench = "vh" /\ Handshake)
      /\ UNCHANGED <<bench, queue, sent, lastValid, haveNext, dataNext>>
  BY DEF IstreamEdge
<1>2. Popped' = Popped
  BY <1>1 DEF Popped
<1>3. Handshake => SeenData = Len(got) + 1 /\ Len(got) < Count
  <2>1. Handshake => want /\ Len(got) < Count
    BY DEF Handshake, InInv, InEnd
  <2>2. CASE bench = "vh"
    BY <1>1, <2>1, <2>2 DEF InInv, InBench, VhIn, Handshake, SeenHave, SeenData, Verilator
  <2>3. CASE bench = "vv"
    BY <1>1, <2>1, <2>3 DEF InInv, InBench, VvIn, Handshake, SeenHave, SeenData, Verilator
  <2>4. CASE bench = "xh"
    BY <1>1, <2>1, <2>4 DEF InInv, InBench, XhIn, Handshake, SeenHave, SeenData, Verilator
  <2>5. CASE bench = "xv"
    BY <1>1, <2>1, <2>5 DEF InInv, InBench, XvIn, Handshake, SeenHave, SeenData, Verilator
  <2> QED BY <1>l, <2>2, <2>3, <2>4, <2>5 DEF Benches
<1>4. /\ got' \in Seq(1..Count)
      /\ Len(got') = IF Handshake THEN Len(got) + 1 ELSE Len(got)
      /\ CountsFrom(got', 0)
  <2>1. CASE ~Handshake
    BY <2>1 DEF IstreamEdge, IstreamKernel, InInv, InTypes, InNumbered
  <2>2. CASE Handshake
    <3>1. got' = Append(got, SeenData) /\ SeenData \in 1..Count /\ SeenData = 0 + Len(got) + 1
      BY <1>l, <1>3, <2>2 DEF IstreamEdge, IstreamKernel
    <3>2. got' \in Seq(1..Count) /\ Len(got') = Len(got) + 1 /\ CountsFrom(got', 0)
      BY <3>1, CountAppend DEF InInv, InTypes, InNumbered
    <3> QED BY <2>2, <3>2
  <2> QED BY <2>1, <2>2
<1>5. InNumbered'
  BY <1>1, <1>2, <1>4 DEF InInv, InNumbered
<1>6. after' \in Nat /\ (Len(got') < Count => after' = 0) /\ (after' = after + 1 \/ after' = 0)
  BY <1>l, <1>4 DEF IstreamEdge
<1>7. InTypes'
  BY <1>1, <1>4, <1>6 DEF InInv, InTypes
<1>8. InEnd'
  <2>1. want' => Len(got') < Count
    BY <1>4 DEF IstreamEdge, IstreamKernel, InInv, InEnd
  <2>a. Handshake => after = 0
    BY <1>3 DEF InInv, InEnd
  <2>b. consumed' => Handshake
    BY <1>1
  <2>2. consumed' => after' <= 1
    <3>1. after = 0 => after' <= 1
      BY <1>6
    <3> QED BY <2>a, <2>b, <3>1
  <2> QED BY <1>6, <2>1, <2>2 DEF InEnd
<1>9. InBench'
  <2>1. CASE bench = "vh"
    <3>1. Handshake <=> haveNext /\ want
      BY <2>1 DEF Handshake, SeenHave, Verilator
    <3> QED BY <1>l, <1>1, <1>2, <1>4, <2>1, <3>1 DEF InInv, InBench, VhIn
  <2>2. CASE bench = "vv"
    <3>1. Handshake <=> haveNext /\ want
      BY <2>2 DEF Handshake, SeenHave, Verilator
    <3>2. have' <=> haveNext /\ ~want
      BY <1>1, <2>2
    <3>3. IF haveNext THEN Popped = Len(got) + 1 /\ dataNext = Len(got) + 1 ELSE Popped = Len(got)
      BY <1>1, <2>2 DEF InInv, InBench, VvIn
    <3>4. /\ haveNext /\ want => Len(got') = Len(got) + 1
          /\ ~(haveNext /\ want) => Len(got') = Len(got)
      BY <1>4, <3>1
    <3>5. IF have' THEN Popped = Len(got') + 1 /\ dataNext = Len(got') + 1 ELSE Popped = Len(got')
      BY <3>2, <3>3, <3>4
    <3> QED BY <1>1, <1>2, <2>2, <3>5 DEF InBench, VvIn
  <2>3. CASE bench = "xh"
    <3>1. Handshake <=> have /\ want
      BY <2>3 DEF Handshake, SeenHave, Verilator
    <3> QED BY <1>l, <1>1, <1>2, <1>4, <2>3, <3>1 DEF InInv, InBench, XhIn
  <2>4. CASE bench = "xv"
    <3>1. Handshake <=> have /\ want
      BY <2>4 DEF Handshake, SeenHave, Verilator
    <3> QED BY <1>l, <1>1, <1>2, <1>4, <2>4, <3>1 DEF InInv, InBench, XvIn
  <2> QED BY <1>l, <2>1, <2>2, <2>3, <2>4 DEF Benches
<1> QED BY <1>5, <1>7, <1>8, <1>9 DEF InInv
-----------------------------------------------------------------------------
(* The theorems *)

\* Where a behaviour of an output stream starts.
LEMMA OutStart ==
  ASSUME ~EarlyKernel, ~HoldsWrite, Init, dir = "out"
  PROVE  OutInv /\ OutDrain
<1>1. OstreamInit
  BY DEF Init
<1>2. queue = <<>> /\ received = <<>> /\ Len(queue) = 0 /\ Len(received) = 0
  BY <1>1 DEF OstreamInit
<1>3. OutTypes
  BY <1>1, <1>2, StreamAssumption DEF OstreamInit, OutTypes, FirstStep, Benches
<1>4. OutNumbered
  BY <1>2 DEF OutNumbered, CountsFrom
<1>5. OutBench
  BY <1>1, <1>2, StreamAssumption
     DEF OstreamInit, OutBench, VhOut, VvOut, XOut, Fresh, Pushed, Room, FirstStep, Verilator, Benches
<1>6. OutDrain
  BY <1>1, StreamAssumption DEF OstreamInit, OutDrain, DrainTypes, HlsDone, Outwaits, OverIsOver
<1> QED BY <1>1, <1>3, <1>4, <1>5, <1>6 DEF OutInv, OstreamInit

\* Where a behaviour of an input stream starts.
LEMMA InStart ==
  ASSUME Init, dir = "in"
  PROVE  InInv
<1>1. IstreamInit
  BY DEF Init
<1>2. queue = <<>> /\ got = <<>> /\ Len(queue) = 0 /\ Len(got) = 0 /\ sent = 0
  BY <1>1 DEF IstreamInit
<1>3. InTypes
  BY <1>1, <1>2, StreamAssumption DEF IstreamInit, InTypes
<1>4. InNumbered
  BY <1>2 DEF InNumbered, CountsFrom
<1>5. InBench
  <2>1. Popped = Len(got)
    <3>1. sent = 0 /\ Len(queue) = 0 /\ Len(got) = 0
      BY <1>2
    <3> QED BY <3>1 DEF Popped
  <2>2. step = "pop" /\ ~have /\ ~consumed
    BY <1>1 DEF IstreamInit
  <2> QED BY <2>1, <2>2 DEF InBench, VhIn, XhIn, VvIn, XvIn
<1>6. InEnd
  BY <1>1, <1>2, StreamAssumption DEF IstreamInit, InEnd
<1> QED BY <1>3, <1>4, <1>5, <1>6 DEF InInv

\* A step of the whole preserves the invariant of an output stream.
LEMMA OutKept ==
  ASSUME ~HoldsWrite, dir = "out", OutInv, [Next]_vars
  PROVE  dir' = "out" /\ OutInv'
<1>1. CASE HostRead /\ dir' = dir
  BY <1>1, OutHostRead
<1>2. CASE BenchPushes /\ dir' = dir
  BY <1>2, OutPush, OutOffer, OutEdge DEF BenchPushes
<1>3. CASE UNCHANGED vars
  BY <1>3 DEF vars, outVars, kernelVars, OutInv, OutTypes, OutNumbered, OutBench, VhOut, VvOut, XOut,
              Fresh, InQueue, Pushed, Room
<1> QED BY <1>1, <1>2, <1>3 DEF Next, HostStep, BenchStep

\* A step of the whole preserves what the end of an output stream rests on.
LEMMA OutDrainKept ==
  ASSUME ~HoldsWrite, MaxGap + 1 < IdleCycles, dir = "out", OutInv, OutDrain, [Next]_vars
  PROVE  OutDrain'
<1>1. ~dropped'
  BY OutKept DEF OutInv
<1>2. CASE HostRead \/ BenchPushes
  BY <1>1, <1>2, DrainKept DEF BenchPushes
<1>3. CASE UNCHANGED vars
  BY <1>3 DEF vars, outVars, kernelVars, OutDrain, DrainTypes, HlsDone, Outwaits, OverIsOver
<1> QED BY <1>2, <1>3 DEF Next, HostStep, BenchStep

\* A step of the whole preserves the invariant of an input stream.
LEMMA InKept ==
  ASSUME dir = "in", InInv, [Next]_vars
  PROVE  dir' = "in" /\ InInv'
<1>1. CASE HostWrite /\ dir' = dir
  BY <1>1, InHostWrite
<1>2. CASE BenchFetches /\ dir' = dir
  BY <1>2, InHlsPop, InHlsPeek, InVitisFetch, InEdge DEF BenchFetches
<1>3. CASE UNCHANGED vars
  <2>1. InTypes' /\ InNumbered'
    BY <1>3 DEF vars, inVars, InInv, InTypes, InNumbered, Popped
  <2>2. InBench'
    BY <1>3 DEF vars, inVars, InInv, InBench, VhIn, XhIn, VvIn, XvIn, Popped
  <2>3. InEnd'
    BY <1>3 DEF vars, inVars, InInv, InEnd, Popped
  <2> QED BY <1>3, <2>1, <2>2, <2>3 DEF vars, InInv
<1> QED BY <1>1, <1>2, <1>3 DEF Next, HostStep, BenchStep

\* The output half of the step functions keeps its promise, in every bench,
\* for a kernel that drives write under full_n and not on its first edge: no
\* beat is refused, lost, repeated or overtaken.
THEOREM BeatsCorrect ==
  ASSUME ~EarlyKernel, ~HoldsWrite
  PROVE  Spec => []BeatsDelivered
<1> DEFINE I == dir \in {"out", "in"} /\ (dir = "out" => OutInv)
<1>1. Init => I
  BY OutStart DEF Init
<1>2. I /\ [Next]_vars => I'
  <2> SUFFICES ASSUME I, [Next]_vars PROVE I'
    OBVIOUS
  <2>1. CASE dir = "out"
    BY <2>1, OutKept
  <2>2. CASE dir = "in"
    BY <2>2 DEF Next, HostStep, BenchStep, vars
  <2> QED BY <2>1, <2>2
<1>3. I => BeatsDelivered
  <2> SUFFICES ASSUME dir = "out", OutInv PROVE BeatsInOrder /\ AcceptedIsPushed /\ PushNeverFails
    BY DEF BeatsDelivered
  <2>1. /\ Len(queue) \in Nat /\ Len(received) \in Nat
        /\ queue \in Seq(1..Count) /\ received \in Seq(1..Count)
    BY OutLengths DEF OutInv, OutTypes
  <2>2. /\ pushed \in Seq(1..Count) /\ Len(pushed) = Pushed
        /\ \A i \in 1..Pushed : pushed[i] = IF i <= Len(received) THEN received[i]
                                            ELSE queue[i - Len(received)]
    BY <2>1, ConcatProperties DEF pushed, Pushed
  <2>3. ASSUME NEW i \in 1..Pushed PROVE pushed[i] = i
    <3>1. CASE i <= Len(received)
      BY <2>1, <2>2, <3>1 DEF OutInv, OutNumbered, CountsFrom, Pushed
    <3>2. CASE i > Len(received)
      <4>1. i - Len(received) \in 1..Len(queue) /\ ~(i <= Len(received))
        BY <2>1, <3>2 DEF Pushed
      <4>2. queue[i - Len(received)] = Len(received) + (i - Len(received))
        BY <4>1 DEF OutInv, OutNumbered, CountsFrom
      <4> QED BY <2>1, <2>2, <4>1, <4>2
    <3> QED BY <2>1, <3>1, <3>2
  <2>4. DOMAIN pushed = 1..Pushed
    BY <2>2
  <2>5. BeatsInOrder
    BY <2>3, <2>4 DEF BeatsInOrder
  <2>6. Fresh \/ InQueue
    BY DEF OutInv, OutBench, OutTypes, Benches, VhOut, VvOut, XOut
  <2>7. AcceptedIsPushed
    BY <2>2, <2>6, OutLengths DEF AcceptedIsPushed, Fresh, InQueue, OutInv
  <2> QED BY <2>5, <2>7 DEF OutInv, PushNeverFails
<1> QED BY <1>1, <1>2, <1>3, PTL DEF Spec

\* A bench ends well only when every beat of the kernel is in the queue or
\* with the host, if its drain outwaits the pauses of the kernel.
THEOREM DrainCorrect ==
  ASSUME ~EarlyKernel, ~HoldsWrite, MaxGap + 1 < IdleCycles
  PROVE  Spec => []DrainedAtExit
<1> DEFINE I == /\ dir \in {"out", "in"}
                /\ dir = "out" => OutInv /\ OutDrain
                /\ dir = "in" => phase = "run"
<1>1. Init => I
  BY OutStart DEF Init, NoOstream
<1>2. I /\ [Next]_vars => I'
  <2> SUFFICES ASSUME I, [Next]_vars PROVE I'
    OBVIOUS
  <2>1. CASE dir = "out"
    BY <2>1, OutKept, OutDrainKept
  <2>2. CASE dir = "in"
    BY <2>2 DEF Next, HostStep, BenchStep, vars, outVars
  <2> QED BY <2>1, <2>2
<1>3. I => DrainedAtExit
  <2> SUFFICES ASSUME dir = "out", OutInv, OutDrain, phase = "ok"
               PROVE  accepted = Count /\ Len(pushed) = Count
    BY DEF DrainedAtExit
  <2>1. accepted = Count
    BY DEF OutDrain, OverIsOver
  <2>2. Pushed = Count
    BY <2>1, AllAccepted
  <2>3. Len(pushed) = Pushed
    BY ConcatProperties DEF pushed, Pushed, OutInv, OutTypes
  <2> QED BY <2>1, <2>2, <2>3
<1> QED BY <1>1, <1>2, <1>3, PTL DEF Spec

\* The input half keeps its promise in every bench: the kernel reads what the
\* host wrote, each token once and in order, and when the simulator exits the
\* queue holds exactly what was not read (and the last token read, where the
\* Verilator HLS bench runs no cycle in which to pop it).
THEOREM TokensCorrect == Spec => []TokensDelivered
<1> DEFINE I == dir \in {"out", "in"} /\ (dir = "in" => InInv)
<1>1. Init => I
  BY InStart DEF Init
<1>2. I /\ [Next]_vars => I'
  <2> SUFFICES ASSUME I, [Next]_vars PROVE I'
    OBVIOUS
  <2>1. CASE dir = "in"
    BY <2>1, InKept
  <2>2. CASE dir = "out"
    BY <2>2 DEF Next, HostStep, BenchStep, vars
  <2> QED BY <2>1, <2>2
<1>3. I => TokensDelivered
  <2> SUFFICES ASSUME dir = "in", InInv PROVE TokensInOrder /\ NoTokenLost /\ ReadTokensHaveLeft
    BY DEF TokensDelivered
  <2>1. /\ Len(queue) \in Nat /\ Len(got) \in Nat /\ Popped \in Nat /\ after \in Nat
        /\ bench \in Benches
    BY InLengths DEF InInv, InTypes
  <2>2. TokensInOrder
    <3>1. DOMAIN got = 1..Len(got)
      BY DEF InInv, InTypes
    <3> QED BY <3>1 DEF TokensInOrder, InInv, InNumbered, CountsFrom
  <2>3. NoTokenLost
    <3>1. Popped <= Len(got) + (IF have \/ haveNext THEN 1 ELSE 0)
      BY <2>1 DEF InInv, InBench, InTypes, Benches, Hls, VhIn, XhIn, VvIn, XvIn
    <3> QED BY <3>1 DEF NoTokenLost, Popped
  <2>4. Exited => Popped >= Len(got) - Unreported
    <3> SUFFICES ASSUME Exited PROVE Popped >= Len(got) - Unreported
      OBVIOUS
    <3>1. CASE bench = "vh" /\ outputs
      <4>1. ~consumed
        BY <2>1, <3>1 DEF Exited, Epilogue, InInv, InEnd
      <4> QED BY <2>1, <3>1, <4>1 DEF InInv, InBench, VhIn, Unreported
    <3>2. CASE bench = "vh" /\ ~outputs
      BY <2>1, <3>2 DEF InInv, InBench, VhIn, Unreported
    <3>3. CASE bench # "vh"
      BY <2>1, <3>3 DEF InInv, InBench, InTypes, Benches, Hls, XhIn, VvIn, XvIn, Unreported
    <3> QED BY <3>1, <3>2, <3>3
  <2> QED BY <2>2, <2>3, <2>4 DEF ReadTokensHaveLeft, Popped
<1> QED BY <1>1, <1>2, <1>3, PTL DEF Spec
-----------------------------------------------------------------------------
(* The forwarder of hybrid co-simulation *)

\* Beats the forwarder holds.
Held == IF fpc = "hold" THEN 1 ELSE 0

\* The beats on their way carry consecutive numbers, place by place; their
\* concatenation (EveryBeatAccountedFor) follows and is not itself convenient
\* to reason about step by step.
Numbered ==
  /\ CountsFrom(taken, 0)
  /\ CountsFrom(stream, Len(taken))
  /\ fpc = "hold" => beat = Len(taken) + Len(stream) + 1
  /\ CountsFrom(beats, Len(taken) + Len(stream) + Held)
  /\ written = Len(taken) + Len(stream) + Held + Len(beats)

\* The mark that tells the reader of the end goes up with the forwarder's exit,
\* which comes after kernel_done; a reader past its check has seen it.
EndIsKnown ==
  /\ marked <=> fpc = "exit"
  /\ fpc = "exit" => kernel = "done"
  /\ rpc \in {"again", "abort"} => marked
  /\ rpc = "abort" => stream = <<>>

\* The part of TypeOK the argument needs.
ForwarderTypes ==
  /\ beats \in Seq(1..Want) /\ stream \in Seq(1..Want) /\ taken \in Seq(1..Want)
  /\ written \in 0..Want /\ beat \in 0..Want

ForwarderInv == ForwarderTypes /\ Numbered /\ EndIsKnown
-----------------------------------------------------------------------------
\* The lengths are numbers.
LEMMA ForwarderLengths ==
  ASSUME ForwarderTypes
  PROVE  /\ Len(taken) \in Nat /\ Len(stream) \in Nat /\ Len(beats) \in Nat
         /\ Held \in Nat /\ written \in Nat /\ written <= Want /\ Want \in Nat
  BY EmptyFacts, ForwarderAssumption DEF ForwarderTypes, Held

\* Every step keeps the types and the numbering of the beats under way: a beat
\* moves from the head of one place to the end of the one before it.
LEMMA NumberedKept == ForwarderInv /\ [ForwarderNext]_forwarderVars => ForwarderTypes' /\ Numbered'
<1> SUFFICES ASSUME ForwarderInv, [ForwarderNext]_forwarderVars PROVE ForwarderTypes' /\ Numbered'
  OBVIOUS
<1>t. ForwarderTypes /\ Numbered
  BY DEF ForwarderInv
<1>l. /\ Len(taken) \in Nat /\ Len(stream) \in Nat /\ Len(beats) \in Nat
      /\ Held \in Nat /\ written \in Nat /\ written <= Want /\ Want \in Nat
  BY <1>t, ForwarderLengths
<1> DEFINE before == Len(taken) + Len(stream) + Held
<1>1. CASE KernelPush
  <2>1. /\ beats' = Append(beats, written + 1) /\ written' = written + 1
        /\ written + 1 \in 1..Want /\ written + 1 = before + Len(beats) + 1
    BY <1>1, <1>t, <1>l DEF KernelPush, Numbered
  <2>2. beats' \in Seq(1..Want) /\ Len(beats') = Len(beats) + 1 /\ CountsFrom(beats', before)
    BY <1>t, <1>l, <2>1, CountAppend DEF ForwarderTypes, Numbered
  <2>3. UNCHANGED <<fpc, beat, stream, taken>>
    BY <1>1 DEF KernelPush
  <2>4. ForwarderTypes'
    BY <1>t, <1>l, <2>1, <2>2, <2>3 DEF ForwarderTypes
  <2>5. Numbered'
    BY <1>t, <1>l, <2>1, <2>2, <2>3 DEF Numbered, Held
  <2> QED BY <2>4, <2>5
<1>2. CASE KernelFinish \/ StoreKernelDone
  BY <1>2, <1>t DEF KernelFinish, StoreKernelDone, ForwarderTypes, Numbered, Held
<1>3. CASE Poll
  <2>1. CASE beats = <<>>
    BY <1>3, <1>t, <2>1 DEF Poll, ForwarderTypes, Numbered, Held
  <2>2. CASE beats # <<>>
    <3>1. /\ fpc = "poll" /\ fpc' = "hold" /\ beat' = Head(beats) /\ beats' = Tail(beats)
          /\ UNCHANGED <<written, stream, taken>>
      BY <1>3, <2>2 DEF Poll
    <3>2. Held = 0 /\ Held' = 1
      BY <3>1 DEF Held
    <3>3. /\ Head(beats) = before + 1 /\ Head(beats) \in 1..Want /\ Tail(beats) \in Seq(1..Want)
          /\ Len(beats) \in Nat \ {0} /\ Len(Tail(beats)) = Len(beats) - 1
          /\ CountsFrom(Tail(beats), before + 1)
      BY <1>t, <1>l, <2>2, CountTail DEF ForwarderTypes, Numbered
    <3>4. ForwarderTypes'
      BY <1>t, <1>l, <3>1, <3>3 DEF ForwarderTypes
    <3>5. Numbered'
      BY <1>t, <1>l, <3>1, <3>2, <3>3 DEF Numbered
    <3> QED BY <3>4, <3>5
  <2> QED BY <2>1, <2>2
<1>4. CASE Ask
  BY <1>4, <1>t DEF Ask, ForwarderTypes, Numbered, Held
<1>5. CASE Forward
  <2>1. /\ fpc = "hold" /\ fpc' = "poll" /\ UNCHANGED <<beats, written, beat, taken>>
        /\ stream' = Append(stream, beat)
    BY <1>5 DEF Forward
  <2>2. Held = 1 /\ Held' = 0
    BY <2>1 DEF Held
  <2>3. beat = Len(taken) + Len(stream) + 1 /\ beat \in 1..Want
    BY <1>t, <1>l, <2>1, <2>2 DEF Numbered
  <2>4. /\ stream' \in Seq(1..Want) /\ Len(stream') = Len(stream) + 1
        /\ CountsFrom(stream', Len(taken))
    BY <1>t, <1>l, <2>1, <2>3, CountAppend DEF ForwarderTypes, Numbered
  <2>5. ForwarderTypes'
    BY <1>t, <2>1, <2>4 DEF ForwarderTypes
  <2>6. Numbered'
    BY <1>t, <1>l, <2>1, <2>2, <2>4 DEF Numbered
  <2> QED BY <2>5, <2>6
<1>6. CASE Read
  <2>1. CASE stream = <<>>
    BY <1>6, <1>t, <2>1 DEF Read, ForwarderTypes, Numbered, Held
  <2>2. CASE stream # <<>>
    <3>1. /\ taken' = Append(taken, Head(stream)) /\ stream' = Tail(stream)
          /\ UNCHANGED <<beats, written, fpc, beat>>
      BY <1>6, <2>2 DEF Read
    <3>2. /\ Head(stream) = Len(taken) + 1 /\ Head(stream) \in 1..Want /\ Tail(stream) \in Seq(1..Want)
          /\ Len(stream) \in Nat \ {0} /\ Len(Tail(stream)) = Len(stream) - 1
          /\ CountsFrom(Tail(stream), Len(taken) + 1)
      BY <1>t, <1>l, <2>2, CountTail DEF ForwarderTypes, Numbered
    <3>3. taken' \in Seq(1..Want) /\ Len(taken') = Len(taken) + 1 /\ CountsFrom(taken', 0)
      <4>1. Head(stream) = 0 + Len(taken) + 1
        BY <1>l, <3>2
      <4> QED BY <1>t, <3>1, <3>2, <4>1, CountAppend DEF ForwarderTypes, Numbered
    <3>4. ForwarderTypes'
      BY <1>t, <3>1, <3>2, <3>3 DEF ForwarderTypes
    <3>5. Held' = Held
      BY <3>1 DEF Held
    <3>6. Numbered'
      BY <1>t, <1>l, <3>1, <3>2, <3>3, <3>5 DEF Numbered
    <3> QED BY <3>4, <3>6
  <2> QED BY <2>1, <2>2
<1>7. CASE Check \/ Again
  BY <1>7, <1>t DEF Check, Again, ForwarderTypes, Numbered, Held
<1>8. CASE UNCHANGED forwarderVars
  BY <1>8, <1>t DEF forwarderVars, ForwarderTypes, Numbered, Held
<1> QED BY <1>1, <1>2, <1>3, <1>4, <1>5, <1>6, <1>7, <1>8
        DEF ForwarderNext, KernelStep, ForwardStep, ReadStep

\* Every step keeps what the mark on the stream stands for.
LEMMA EndIsKnownKept == ForwarderInv /\ [ForwarderNext]_forwarderVars => EndIsKnown'
<1> SUFFICES ASSUME ForwarderInv, [ForwarderNext]_forwarderVars PROVE EndIsKnown'
  OBVIOUS
<1> USE DEF ForwarderInv, EndIsKnown, Alive
<1>1. CASE KernelStep
  BY <1>1 DEF KernelStep, KernelPush, KernelFinish, StoreKernelDone
<1>2. CASE ForwardStep
  BY <1>2 DEF ForwardStep, Poll, Ask, Forward
<1>3. CASE ReadStep
  BY <1>3 DEF ReadStep, Read, Check, Again
<1>4. CASE UNCHANGED forwarderVars
  BY <1>4 DEF forwarderVars
<1> QED BY <1>1, <1>2, <1>3, <1>4 DEF ForwarderNext

\* The strengthened invariant is inductive.
LEMMA ForwarderInvariance == ForwarderSpec => []ForwarderInv
<1>1. ForwarderInit => ForwarderInv
  <2> SUFFICES ASSUME ForwarderInit PROVE ForwarderInv
    OBVIOUS
  <2>1. beats = <<>> /\ stream = <<>> /\ taken = <<>> /\ written = 0 /\ beat = 0 /\ fpc = "poll"
    BY DEF ForwarderInit
  <2>2. Len(beats) = 0 /\ Len(stream) = 0 /\ Len(taken) = 0
    BY <2>1
  <2>3. ForwarderTypes
    BY <2>1, ForwarderAssumption DEF ForwarderTypes
  <2>4. Numbered
    BY <2>1, <2>2 DEF Numbered, Held, CountsFrom
  <2>5. EndIsKnown
    BY DEF ForwarderInit, EndIsKnown
  <2> QED BY <2>3, <2>4, <2>5 DEF ForwarderInv
<1>2. ForwarderInv /\ [ForwarderNext]_forwarderVars => ForwarderInv'
  BY NumberedKept, EndIsKnownKept DEF ForwarderInv
<1> QED BY <1>1, <1>2, PTL DEF ForwarderSpec

\* Counting sequences, one behind the other.
LEMMA CountOn ==
  ASSUME NEW s \in Seq(Nat), NEW t \in Seq(Nat),
         CountsFrom(s, 0), CountsFrom(t, Len(s))
  PROVE  /\ s \o t \in Seq(Nat) /\ Len(s \o t) = Len(s) + Len(t)
         /\ CountsFrom(s \o t, 0)
<1>1. /\ s \o t \in Seq(Nat) /\ Len(s \o t) = Len(s) + Len(t)
      /\ \A i \in 1..Len(s) + Len(t) : (s \o t)[i] = IF i <= Len(s) THEN s[i] ELSE t[i - Len(s)]
  BY ConcatProperties
<1>2. ASSUME NEW i \in 1..Len(s) + Len(t) PROVE (s \o t)[i] = 0 + i
  <2>1. CASE i <= Len(s)
    BY <1>1, <2>1 DEF CountsFrom
  <2>2. CASE i > Len(s)
    <3>1. i - Len(s) \in 1..Len(t)
      BY <2>2
    <3> QED BY <1>1, <2>2, <3>1 DEF CountsFrom
  <2> QED BY <2>1, <2>2
<1> QED BY <1>1, <1>2 DEF CountsFrom

\* The four places a beat can be, put one behind the other, hold the numbers
\* from one to written.
LEMMA NumbersConcatenate == ForwarderInv => EveryBeatAccountedFor
<1> SUFFICES ASSUME ForwarderInv PROVE EveryBeatAccountedFor
  OBVIOUS
<1> DEFINE a == taken \o stream
           b == a \o InHand
           c == b \o beats
<1>1. taken \in Seq(Nat) /\ stream \in Seq(Nat) /\ beats \in Seq(Nat)
  <2>1. taken \in Seq(1..Want) /\ stream \in Seq(1..Want) /\ beats \in Seq(1..Want)
    BY DEF ForwarderInv, ForwarderTypes
  <2>2. 1..Want \subseteq Nat
    OBVIOUS
  <2> QED BY <2>1, <2>2, SeqMonotonic
<1>2. Numbered /\ beat \in Nat
  BY ForwarderAssumption DEF ForwarderInv, ForwarderTypes
<1>3. /\ a \in Seq(Nat) /\ Len(a) = Len(taken) + Len(stream)
      /\ CountsFrom(a, 0)
  BY <1>1, <1>2, CountOn DEF Numbered
<1>4. /\ InHand \in Seq(Nat) /\ Len(InHand) = Held
      /\ CountsFrom(InHand, Len(a))
  <2> HIDE DEF a
  <2> QED BY <1>2, <1>3 DEF InHand, Held, Numbered, CountsFrom
<1>5. /\ b \in Seq(Nat) /\ Len(b) = Len(a) + Len(InHand)
      /\ CountsFrom(b, 0)
  <2> HIDE DEF a
  <2> QED BY <1>3, <1>4, CountOn
<1>6. CountsFrom(beats, Len(b))
  <2> HIDE DEF a, b
  <2> QED BY <1>2, <1>3, <1>4, <1>5 DEF Numbered
<1>7. /\ c \in Seq(Nat) /\ Len(c) = Len(b) + Len(beats)
      /\ CountsFrom(c, 0)
  <2> HIDE DEF b
  <2> QED BY <1>1, <1>5, <1>6, CountOn
<1>8. Len(c) = written
  <2> HIDE DEF a, b, c
  <2> QED BY <1>2, <1>3, <1>4, <1>5, <1>7 DEF Numbered
<1>9. c = [i \in 1..written |-> i]
  <2> HIDE DEF c
  <2>1. c \in [1..written -> Nat]
    BY <1>7, <1>8, LenProperties
  <2> QED BY <1>7, <1>8, <2>1 DEF CountsFrom
<1> QED BY <1>9 DEF EveryBeatAccountedFor

\* stream_access::use: whatever the kernel, the forwarder and the software task
\* do to each other, every beat is accounted for, in order, and the software
\* task gives up only when the forwarder has exited and nothing it forwarded is
\* left.
THEOREM ForwarderCorrect == ForwarderSpec => []ForwarderIsFaithful
<1>1. ForwarderInv => AbortAfterForwarded
  BY DEF ForwarderInv, EndIsKnown, AbortAfterForwarded
<1> QED BY <1>1, NumbersConcatenate, ForwarderInvariance, PTL DEF ForwarderIsFaithful
=============================================================================
