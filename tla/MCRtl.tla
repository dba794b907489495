------------------------------- MODULE MCRtl --------------------------------
(***************************************************************************)
(* The generated RTL for TLC: how it is generated, from designs of two to  *)
(* six tasks with the modules Vitis HLS would make of them; and what it    *)
(* does, for small designs with each way of storing a stream, the tasks at *)
(* different distances, and controllers with a scope and an autorun task.  *)
(* A behaviour is about one of the two (half), and the other stays as it   *)
(* starts.                                                                 *)
(***************************************************************************)
EXTENDS Codegen, ControlFabric

\* Ports, arguments, FIFOs and tasks.
Port(name, cat) ==
  [name |-> name, cat |-> cat, width |-> 32, chans |-> <<>>, frame |-> <<>>, plio |-> <<>>, bytes |-> <<>>]
Lanes(name, cat, n) == [Port(name, cat) EXCEPT !.chans = <<n>>]
Hmap(name, n) == [Port(name, "Mmap") EXCEPT !.chans = <<n>>, !.bytes = <<1024>>]
Arg(port, name, cat) == [port |-> port, src |-> Named(name), cat |-> cat]
Const(port, width, value) == [port |-> port, src |-> [lit |-> [width |-> width, value |-> value]], cat |-> "Scalar"]
Inst(child, index, step, args) == [child |-> child, index |-> index, name |-> <<>>, step |-> step, args |-> args]
Fifo(name, prod, cons) == [name |-> name, depth |-> <<2>>, prod |-> <<prod, 0>>, cons |-> <<cons, 0>>]
Task0(name, level, ports, insts, fifos) ==
  [name |-> name, level |-> level, synth |-> "Hls", ports |-> ports, insts |-> insts, fifos |-> fifos, pins |-> <<>>]
Leaf(name, ports) == Task0(name, "Lower", ports, <<>>, <<>>)
Upper(name, ports, insts, fifos) == Task0(name, "Upper", ports, insts, fifos)
On(task, synth) == [task EXCEPT !.synth = synth]
Graph(target, tasks) == [version |-> SchemaVersion, top |-> <<"top">>, target |-> target, tasks |-> tasks]

\* What Vitis HLS makes of a task: array lanes without an infix; an upper task
\* keeps only the offsets of its memories, the top of a Vitis kernel has AXI.
HlsStream(port) ==
  LET lanes == IF port.cat \in {"Istreams", "Ostreams"} THEN 1..port.chans[1] ELSE {}
      At(i, s) == port.name \o <<Digit[i]>> \o s
  IN CASE port.cat = "Istream" -> IstreamPorts(port.name)
       [] port.cat = "Ostream" -> OstreamPorts(port.name)
       [] port.cat = "Istreams" ->
            UNION {{In(At(i, <<"dout">>)), Out(At(i, <<"read">>)),
                    In(port.name \o <<"peek", Digit[i], "dout">>)} : i \in lanes}
       [] OTHER -> UNION {{Out(At(i, <<"din">>)), In(At(i, <<"full">>))} : i \in lanes}
HlsPort(port, upper, id) ==
  CASE IsStream(port.cat) -> HlsStream(port)
    [] port.cat = "Scalar" -> {In(port.name)}
    [] IsMmapLike(port.cat) /\ upper -> {In(n \o <<"offset">>) : n \in MmapNames(port)}
    [] port.cat = "AsyncMmap" /\ ~upper -> AsyncMmapPorts(port.name)
    [] OTHER -> PortShell(port, id)
HlsTop(task) ==
  Module({In(Clk), In(RstN), In(AxiLite), Out(<<"interrupt">>)} \cup
         UNION {IF IsInputStream(p.cat) THEN {In(p.name \o <<"TDATA">>), Out(p.name \o <<"TREADY">>)}
                ELSE IF IsOutputStream(p.cat) THEN {Out(p.name \o <<"TDATA">>), In(p.name \o <<"TREADY">>)}
                ELSE {} : p \in Range(task.ports)})
HlsModule(graph, task, id) ==
  IF task.name = graph.top /\ graph.target # "Hls" THEN HlsTop(task)
  ELSE Module(Handshake \cup UNION {HlsPort(p, task.level = "Upper", id) : p \in Range(task.ports)})
\* ids: the AXI ID widths of the leaves that have more than one bit.
Hls(graph, ids) ==
  [n \in {t.name : t \in {x \in Range(graph.tasks) : x.synth = "Hls"}} |->
     HlsModule(graph, TaskOf(graph, n), IF n \in DOMAIN ids THEN ids[n] ELSE 1)]
NoIds == [x \in {} |-> 1]
Build(graph) == [graph |-> graph, flatten |-> FALSE, plan |-> <<>>, hls |-> Hls(graph, NoIds)]
Flat(p) == [p EXCEPT !.flatten = TRUE]
-----------------------------------------------------------------------------
(* Designs *)

load == <<"load">>
store == <<"store">>
a == <<"a">>
b == <<"b">>
n == <<"n">>
q == <<"q">>
in == <<"in">>
out == <<"out">>

Load == Leaf(load, <<Port(a, "Mmap"), Port(n, "Scalar"), Port(out, "Ostream")>>)
Store == Leaf(store, <<Port(b, "Mmap"), Port(in, "Istream")>>)
LoadOf(i, mem, len, s) ==
  Inst(load, i, 0, <<Arg(a, mem, "Mmap"), Arg(n, len, "Scalar"), Arg(out, s, "Ostream")>>)
StoreOf(i, mem, s) == Inst(store, i, 0, <<Arg(b, mem, "Mmap"), Arg(in, s, "Istream")>>)

\* A loader and a store, one memory each; or the same memory for both.
Copy(target) ==
  Graph(target, <<Load, Store,
    Upper(<<"top">>, <<Port(a, "Mmap"), Port(b, "Mmap"), Port(n, "Scalar")>>,
          <<LoadOf(0, a, n, q), StoreOf(0, b, q)>>, <<Fifo(q, load, store)>>)>>)
Shared(target) ==
  Graph(target, <<Load, Store,
    Upper(<<"top">>, <<Port(a, "Mmap"), Port(n, "Scalar")>>,
          <<LoadOf(0, a, n, q), StoreOf(0, a, q)>>, <<Fifo(q, load, store)>>)>>)
\* The pair in a task of its own, used twice; mid sorts before or after top.
Mid(name) ==
  Upper(name, <<Port(a, "Mmap"), Port(b, "Mmap"), Port(n, "Scalar")>>,
        <<LoadOf(0, a, n, q), StoreOf(0, b, q)>>, <<Fifo(q, load, store)>>)
MidOf(name, i, src, dst, len) ==
  Inst(name, i, IF i = 1 THEN -1 ELSE 0,
       <<Arg(a, src, "Mmap"), Arg(b, dst, "Mmap"), [port |-> n, src |-> len, cat |-> "Scalar"]>>)
Nested(target, mid) ==
  LET top == Upper(<<"top">>, <<Port(a, "Mmap"), Port(b, "Mmap"), Port(n, "Scalar")>>,
                   <<MidOf(mid, 0, a, b, Named(n)), MidOf(mid, 1, a, b, [lit |-> [width |-> 8, value |-> 7]])>>, <<>>)
  IN Graph(target, IF mid = <<"mid">> THEN <<Load, Mid(mid), Store, top>> ELSE <<Load, Store, top, Mid(mid)>>)


\* A leaf with wider AXI IDs beside one whose offset has the other spelling.
Wide(p) ==
  [p EXCEPT !.hls = [x \in DOMAIN @ |->
     IF x = load THEN HlsModule(p.graph, Load, 3)
     ELSE IF x = store
     THEN [@[x] EXCEPT !.ports = {t \in @ : t.name # b \o <<"offset">>} \cup {In(b \o <<"r">>)}]
     ELSE @[x]]]

\* Two channels of one buffer, read by one task and written by the other.
Channels2 ==
  LET g == Shared("Vitis")
  IN [g EXCEPT !.tasks[3].ports[1] = Hmap(a, 2)]

\* A FIFO-style reader on a memory of its own, or on one it shares; a leaf that
\* never writes has its write outputs tied to zero.
reader == <<"reader">>
Reader == Leaf(reader, <<Port(a, "AsyncMmap"), Port(out, "Ostream")>>)
Async(shared) ==
  Graph("Vitis", <<Reader, Store,
    Upper(<<"top">>, <<Port(a, "Mmap"), Port(b, "Mmap")>>,
          <<Inst(reader, 0, 0, <<Arg(a, a, "AsyncMmap"), Arg(out, q, "Ostream")>>),
            StoreOf(0, IF shared THEN a ELSE b, q)>>, <<Fifo(q, reader, store)>>)>>)
ReadOnly(p) ==
  [p EXCEPT !.hls[reader].zero = {StreamPortName(a \o <<"write", t>>, <<IF t = "resp" THEN "read" ELSE "din">>) :
                                    t \in {"addr", "data", "resp"}}]

\* Lanes of a stream through two levels, from the top's ports to a custom task.
fork == <<"fork">>
join == <<"join">>
At(name, i) == Append(name, Lane[i])
Fork == Leaf(fork, <<Port(in, "Istream"), Lanes(out, "Ostreams", 2)>>)
Join == Leaf(join, <<Lanes(in, "Istreams", 2), Port(out, "Ostream")>>)
Sink == On(Leaf(store, <<Port(in, "Istream"), Port(n, "Scalar")>>), "Ignore")
External0(name, prod, cons) == [name |-> name, depth |-> <<>>, prod |-> prod, cons |-> cons]
Streams(target) ==
  LET mid == Upper(<<"mid">>, <<Lanes(in, "Istreams", 2), Port(out, "Ostream")>>,
               <<Inst(join, 0, 0, <<Arg(At(in, 1), At(in, 2), "Istream"), Arg(At(in, 2), At(in, 1), "Istream"),
                                    Arg(out, out, "Ostream")>>)>>, <<>>)
      top == Upper(<<"top">>, <<Port(a, "Istream"), Port(n, "Scalar")>>,
               <<Inst(fork, 0, -1, <<Arg(in, a, "Istream"), Arg(At(out, 1), At(q, 1), "Ostream"),
                                     Arg(At(out, 2), At(q, 2), "Ostream")>>),
                 Inst(<<"mid">>, 0, 0, <<Arg(At(in, 1), At(q, 1), "Istream"), Arg(At(in, 2), At(q, 2), "Istream"),
                                         Arg(out, b, "Ostream")>>),
                 Inst(store, 0, 0, <<Arg(in, b, "Istream"), Arg(n, n, "Scalar")>>)>>,
               <<External0(a, <<>>, <<fork, 0>>), Fifo(At(q, 1), fork, <<"mid">>), Fifo(At(q, 2), fork, <<"mid">>),
                 Fifo(b, <<"mid">>, store)>>)
  IN Graph(target, <<Fork, Join, mid, Sink, top>>)
-----------------------------------------------------------------------------
(* The AI Engine: a kernel and a chain of two, between a loader and a store. *)

kern == <<"kern">>
Kern == On(Leaf(kern, <<Port(in, "Istream"), Port(out, "Ostream")>>), "Aie")
Chain ==
  On(Upper(<<"chain">>, <<Port(in, "Istream"), Port(out, "Ostream")>>,
           <<Inst(kern, 0, 0, <<Arg(in, in, "Istream"), Arg(out, q, "Ostream")>>),
             Inst(kern, 1, 0, <<Arg(in, q, "Istream"), Arg(out, out, "Ostream")>>)>>,
           <<[Fifo(q, kern, kern) EXCEPT !.cons = <<kern, 1>>]>>), "Aie")
Hybrid(mid) ==
  LET top == Upper(<<"top">>, <<Port(a, "Mmap"), Port(b, "Mmap"), Port(n, "Scalar")>>,
               <<Inst(<<"chain">>, 0, mid, <<Arg(in, q, "Istream"), Arg(out, <<"r">>, "Ostream")>>),
                 Inst(kern, 0, 0, <<Arg(in, <<"r">>, "Istream"), Arg(out, <<"w">>, "Ostream")>>),
                 LoadOf(0, a, n, q), StoreOf(0, b, <<"w">>)>>,
               <<Fifo(q, load, <<"chain">>), Fifo(<<"r">>, <<"chain">>, kern), Fifo(<<"w">>, kern, store)>>)
  IN Graph("Vitis", <<Chain, Kern, Load, Store, top>>)
-----------------------------------------------------------------------------
(* Floorplans: loaders and controllers low, stores high, the banks low.     *)

Lo == "SLOT_X0Y0"
Hi == "SLOT_X0Y1"
Place(low, high, scopes) ==
  [x \in {GlobalController, ControlSAxi} \cup low \cup high \cup {LocalController(i) : i \in low \cup high}
         \cup {LocalController(i) : i \in scopes} \cup {ScopeController(i) : i \in scopes} |->
     IF x \in high \cup {LocalController(i) : i \in high} THEN Hi ELSE Lo]
ControlRoute(inst, chan) ==
  [kind |-> "Control", inst |-> inst, chan |-> chan, body |-> IF chan = "Completion" THEN 0 ELSE 1,
   path |-> IF chan = "Completion" THEN <<Hi, Lo>> ELSE <<Lo, Hi>>]
AxiRoute(inst, port, arg, chan) ==
  [kind |-> "Axi", inst |-> inst, port |-> port, arg |-> arg, chan |-> chan, body |-> 1, bank |-> 0,
   path |-> IF Request(chan) THEN <<Hi, Lo>> ELSE <<Lo, Hi>>]
ControlOf(inst) == [i \in 1..3 |-> ControlRoute(inst, <<"Launch", "Reset", "Completion">>[i])]
AxiOf(inst, port, arg, chans) == [i \in 1..Len(chans) |-> AxiRoute(inst, port, arg, chans[i])]
AllChans == <<"AR", "R", "AW", "W", "B">>
Crossing(f) == [kind |-> "Stream", fifo |-> f, body |-> 2, path |-> <<Lo, Hi>>]
load0 == load \o <<"0">>
store0 == store \o <<"0">>
reader0 == reader \o <<"0">>
Planned(p, regions, routes) == [p EXCEPT !.plan = <<[regions |-> regions, routes |-> routes]>>]

CopyPlan == ControlOf(store0) \o AxiOf(store0, b, b, AllChans) \o <<Crossing(q)>>
PlannedCopy(target) ==
  Planned(Build(Copy(target)),
          Restrict(Place({load0}, {store0}, {}),
                   DOMAIN Place({load0}, {store0}, {}) \ IF target = "Hls" THEN {ControlSAxi} ELSE {}),
          CopyPlan)
PlannedAsync ==
  Planned(ReadOnly(Build(Async(FALSE))), Place({store0}, {reader0}, {}),
          ControlOf(reader0) \o AxiOf(reader0, a, a, <<"AR", "R">>))
\* A pair below the top, flattened and placed.
OneMid ==
  Graph("Vitis", <<Load, Mid(<<"mid">>), Store,
    Upper(<<"top">>, <<Port(a, "Mmap"), Port(b, "Mmap"), Port(n, "Scalar")>>,
          <<MidOf(<<"mid">>, 0, a, b, Named(n))>>, <<>>)>>)
mid0 == <<"mid", "0", "top">>
PlannedMid == Planned(Flat(Build(OneMid)), Place({load0}, {store0}, {mid0}), CopyPlan)
-----------------------------------------------------------------------------
(* Two children on one memory or on two, of every kind of memory port, below *)
(* the top or below a task of their own.                                     *)

Kinds == {"Mmap", "Fifo", "ReadOnly", "Axi", "AxiOnly"}
MemCat(kind) == IF kind = "Mmap" THEN "Mmap" ELSE "AsyncMmap"
MemLeaf(name, kind) == Leaf(name, <<Port(a, MemCat(kind))>>)
MemModule(name, kind, id) ==
  CASE kind = "Mmap" -> HlsModule(Copy("Hls"), MemLeaf(name, kind), id)
    [] kind \in {"Fifo", "ReadOnly"} ->
         [HlsModule(Copy("Hls"), MemLeaf(name, kind), 1) EXCEPT
            !.zero = IF kind = "Fifo" THEN {} ELSE
              {StreamPortName(a \o <<"write", t>>, <<IF t = "resp" THEN "read" ELSE "din">>) : t \in {"addr", "data", "resp"}}]
    [] OTHER -> Module(Handshake \cup MAxiPorts(a, id) \cup IF kind = "Axi" THEN {In(a \o <<"offset">>)} ELSE {})
MemOf(name, kind, mem) == Inst(name, 0, 0, <<Arg(a, mem, MemCat(kind))>>)
Pair(one, two, shared, level, target) ==
  LET ports == <<Port(a, "Mmap"), Port(b, "Mmap")>>
      insts == <<MemOf(<<"x">>, one, a), MemOf(<<"y">>, two, IF shared THEN a ELSE b)>>
      mid == Upper(<<"mid">>, IF shared THEN <<Port(a, "Mmap")>> ELSE ports, insts, <<>>)
      used == Inst(<<"mid">>, 0, 0, IF shared THEN <<Arg(a, a, "Mmap")>> ELSE <<Arg(a, a, "Mmap"), Arg(b, b, "Mmap")>>)
      top == Upper(<<"top">>, ports, IF level = 1 THEN insts ELSE <<used>>, <<>>)
      leaves == <<MemLeaf(<<"x">>, one), MemLeaf(<<"y">>, two)>>
      graph == Graph(target, (IF level = 1 THEN <<>> ELSE <<mid>>) \o <<top>> \o leaves)
  IN [graph |-> graph, flatten |-> level = 3, plan |-> <<>>,
      hls |-> [x \in {<<"x">>, <<"y">>} |-> IF x = <<"x">> THEN MemModule(x, one, 1) ELSE MemModule(x, two, 2)]
                @@ Hls(graph, NoIds)]
Bridged(kind) == kind \in {"Fifo", "ReadOnly"}
PairsOf(kinds, shareds) ==
  {Pair(k[1], k[2], shared, level, target) :
     k \in kinds, shared \in shareds, level \in 1..3, target \in {"Vitis", "Hls"}}
\* Two bridges on one memory are not among them: see MCSharedBridge.
Pairs ==
  PairsOf(Kinds \X Kinds, {FALSE})
    \cup PairsOf({k \in Kinds \X Kinds : ~(Bridged(k[1]) /\ Bridged(k[2]))}, {TRUE})
-----------------------------------------------------------------------------
(* Designs that are refused. *)

Literal(w, v) ==
  LET g == OneMid
  IN [g EXCEPT !.tasks[4].insts = <<MidOf(<<"mid">>, 0, a, b, [lit |-> [width |-> w, value |-> v]])>>]
NoTasks == Build(Graph("Vitis", <<>>))
Refusals ==
  {NoTasks, Build(Literal(2, 4)),
   Build([Hybrid(1) EXCEPT !.top = <<"top">>]),
   [Build(Copy("Vitis")) EXCEPT !.hls = Restrict(@, {load, store})],
   Build([Copy("Vitis") EXCEPT !.tasks[3].insts[2].name = <<load0>>]),
   Build([Shared("Vitis") EXCEPT !.tasks[1].ports[1].width = 64]),
   Build([Copy("Vitis") EXCEPT !.tasks[3].fifos[1].prod = <<>>]),
   Flat(Build([OneMid EXCEPT !.tasks[4].fifos =
     <<[Fifo(q \o <<"mid", "0">>, load, store) EXCEPT !.depth = <<2>>]>>])),
   Planned(Build(Copy("Vitis")), Place({load0}, {store0}, {}), Tail(CopyPlan)),
   Planned(Build(Copy("Vitis")), Place({load0}, {store0}, {}),
           ControlOf(store0) \o AxiOf(store0, b, b, <<"AR", "R">>))}
-----------------------------------------------------------------------------
\* Two FIFO-style children on one memory, whose bridges get one name.
MCSharedBridge == {NoTasks} \cup PairsOf({<<"Fifo", "Fifo">>}, {TRUE})
MCProjects ==
  {Build(Copy("Vitis")), Build(Copy("Hls")), Build(Shared("Vitis")), Wide(Build(Shared("Vitis"))),
   Wide(Build(Nested("Vitis", <<"mid">>))), Build(Nested("Hls", <<"zmid">>)),
   Flat(Wide(Build(Nested("Vitis", <<"mid">>)))), Flat(Build(Nested("Hls", <<"zmid">>))),
   Build(Channels2), Build(Async(FALSE)), ReadOnly(Build(Async(FALSE))), ReadOnly(Build(Async(TRUE))),
   Build(Streams("Vitis")), Flat(Build(Streams("Hls"))),
   Build(Hybrid(0)), Flat(Build(Hybrid(-1))),
   PlannedCopy("Vitis"), PlannedCopy("Hls"), PlannedAsync, PlannedMid}
    \cup Refusals \cup Pairs
-----------------------------------------------------------------------------
(* The running fabric *)

TwoLeaves(style, stored, la, ca, lb, cb) ==
  [style |-> style, leaves |-> {"a", "b"}, scopes |-> {}, owner |-> [u \in {"a", "b"} |-> Root],
   autorun |-> [u \in {"a", "b"} |-> FALSE],
   launch |-> [u \in {"a", "b"} |-> IF u = "a" THEN la ELSE lb],
   completion |-> [u \in {"a", "b"} |-> IF u = "a" THEN ca ELSE cb],
   store |-> stored, from |-> "a", to |-> "b",
   words |-> IF stored # <<>> /\ stored[1].kind = "hs_bram" THEN 7 ELSE 3,
   early |-> stored = <<>>, held |-> stored # <<>>]
StoredIn(kind, depth, body) == <<[kind |-> kind, depth |-> depth, body |-> body]>>

\* One state machine per task, and the three FIFOs.
FsmStreams == {TwoLeaves("fsm", s, 0, 0, 0, 0) : s \in {StoredIn("fwd", 1, 0), StoredIn("srl", 2, 0),
                                                   StoredIn("bram", 2, 0), StoredIn("bram", 3, 0)}}
\* A floorplanned stream: within a slot and between slots.
FabricStreams ==
  {TwoLeaves("fabric", StoredIn("registered", 2, 0), 2, 2, 2, 2), TwoLeaves("fabric", StoredIn("hs", 2, 0), 2, 2, 0, 0),
   TwoLeaves("fabric", StoredIn("hs", 1, 1), 0, 0, 3, 2), TwoLeaves("fabric", StoredIn("hs_bram", 1, 0), 0, 0, 0, 0)}

\* A scope with a leaf in it, beside a leaf, either of them autorun.
Scoped(style, autorun, far) ==
  [style |-> style, leaves |-> {"a", "b"}, scopes |-> {"s"},
   owner |-> [u \in {"a", "b", "s"} |-> IF u = "a" THEN "s" ELSE Root],
   autorun |-> [u \in {"a", "b", "s"} |-> u \in autorun],
   launch |-> [u \in {"a", "b", "s"} |-> IF u = "a" THEN far ELSE 0],
   completion |-> [u \in {"a", "b", "s"} |-> IF u = "a" /\ u \notin autorun THEN far ELSE 0],
   store |-> <<>>, from |-> "a", to |-> "b", words |-> 1, early |-> TRUE, held |-> FALSE]
Controls ==
  {Scoped("fsm", r, 0) : r \in {{}, {"s"}, {"b"}, {"a", "b"}}} \cup
  {Scoped("fabric", r, 0) : r \in {{}, {"s"}}} \cup
  {[Scoped("fabric", r, 2) EXCEPT !.early = FALSE] : r \in {{}, {"b"}}} \cup
  {[TwoLeaves("fabric", <<>>, 2, 3, 3, 2) EXCEPT !.early = FALSE, !.held = TRUE]}

MCDesigns == FsmStreams \cup FabricStreams \cup Controls
-----------------------------------------------------------------------------
VARIABLE half
mcVars == <<half, vars, fabricVars>>

MCInit ==
  /\ half \in {"generate", "run"}
  /\ Init /\ FabricInit
  /\ half = "generate" => design = Scoped("fsm", {}, 0)
  /\ half = "run" => project = NoTasks

Cycle == half = "run" /\ FabricNext

MCNext ==
  \/ half = "generate" /\ Next /\ UNCHANGED <<half, fabricVars>>
  \/ Cycle /\ UNCHANGED <<half, vars>>

\* The fairness of ControlFabric.
MCSpec == MCInit /\ [][MCNext]_mcVars /\ WF_registers(Cycle) /\ TasksFinish
=============================================================================
