---------------------------- MODULE AiePartition ----------------------------
(***************************************************************************)
(* The two halves of a task graph with AI Engine tasks (tapa-ir aie.rs):   *)
(* the partition flattens the AI Engine tasks into kernels and classifies  *)
(* the streams they touch, and the projection leaves the PL design.        *)
(*                                                                         *)
(* A partition is [error, kernels, streams, forever, tops]: a kernel       *)
(* [name, task, ports, location, ordered], a stream [name, fifo, words,    *)
(* frame, kind], where kind is [plio, input, width] or [plio, depth], and  *)
(* tops maps the FIFO of the top to the stream made for it.  A binding in  *)
(* a scope is [stream], [runtime] or [lit].                                *)
(***************************************************************************)
EXTENDS TaskGraph, Functions

MaxPlioBits == 128
Words(width) == (width + 31) \div 32

\* plio_width
PlioWidth(bits) == IF bits <= 32 THEN 32 ELSE IF bits <= 64 THEN 64 ELSE 128

IsAie(graph, name) == name \in TaskNames(graph) /\ TaskOf(graph, name).synth = "Aie"
EndpointIsAie(graph, end) == end # <<>> /\ IsAie(graph, end[1])
Failed(p, error) == [p EXCEPT !.error = error]

\* child_port_for: the port the instance binds the FIFO to.
ChildPortFor(graph, parent, end, fifo) ==
  LET inst == InstanceOf(parent, end[1], end[2])
      hit == IF inst = <<>> THEN <<>> ELSE FirstThat(inst[1].args, LAMBDA a : Bound(a, fifo))
  IN IF hit = <<>> THEN <<>> ELSE PortOf(TaskOf(graph, end[1]), hit[1].port)

PushStream(p, stream) == [p EXCEPT !.streams = Append(@, stream)]

TopKind(graph, fifo, port) ==
  LET produced == EndpointIsAie(graph, fifo.prod)
      words == Words(port.width)
  IN IF produced /\ EndpointIsAie(graph, fifo.cons)
     THEN [plio |-> FALSE, depth |-> fifo.depth[1] * words]
     ELSE [plio |-> TRUE, input |-> ~produced,
           width |-> PlioWidth(IF port.plio = <<>> THEN 32 * words ELSE port.plio[1])]

\* top_binding: [partition, scope] after one argument of an invoke by the top.
TopBinding(graph, child, st, arg) ==
  LET p == st.partition
      top == TaskOf(graph, graph.top)
      name == arg.src.name
      fifo == FifoOf(top, name)
      port == PortOf(TaskOf(graph, child), arg.port)
      Bind(q, b) == [partition |-> q, scope |-> [x \in {arg.port} |-> b] @@ st.scope]
      Fail(e) == [st EXCEPT !.partition = Failed(@, e)]
  IN CASE p.error # "" -> st
       [] p.error = "" /\ ~IsName(arg.src) -> Bind(p, [lit |-> arg.src.lit])
       [] p.error = "" /\ IsName(arg.src) /\ arg.cat = "Scalar" -> Bind(p, [runtime |-> name])
       [] p.error = "" /\ IsName(arg.src) /\ IsMmapLike(arg.cat) -> Fail("MemoryPort")
       [] OTHER ->
            IF name \in DOMAIN p.tops THEN Bind(p, [stream |-> p.tops[name]])
            ELSE IF fifo = <<>> \/ (fifo # <<>> /\ fifo[1].depth = <<>>) THEN Fail("TopPort")
            ELSE IF port = <<>> THEN Fail("NoPort")
            ELSE LET kind == TopKind(graph, fifo[1], port[1])
                     made == PushStream(p, [name |-> Sanitize(name), fifo |-> name,
                                            words |-> Words(port[1].width),
                                            frame |-> port[1].frame, kind |-> kind])
                     at == Len(made.streams)
                 IN IF kind.plio /\ 32 * Words(port[1].width) > MaxPlioBits THEN Fail("WidePlio")
                    ELSE Bind([made EXCEPT !.tops = [x \in {name} |-> at] @@ @], [stream |-> at])

\* check_invoke_step
CheckInvokeStep(p, inst) ==
  IF inst.step > 0 THEN Failed(p, "Sequential")
  ELSE [p EXCEPT !.forever = @ \/ inst.step < 0]

\* The lanes of a stream port.
Channels(port) ==
  IF port.cat \in {"Istreams", "Ostreams"}
  THEN [i \in 1..port.chans[1] |-> Append(port.name, Lane[i])] ELSE <<port.name>>

\* kernel: every port of the leaf bound, each stream port to streams.
Kernel(p, inst, path, def, scope) ==
  LET Has(n, field) == n \in DOMAIN scope /\ field \in DOMAIN scope[n]
      PortError(port) ==
        CASE IsStream(port.cat) ->
               IF \A c \in Range(Channels(port)) : Has(c, "stream") THEN "" ELSE "UnboundStream"
          [] port.cat = "Scalar" ->
               IF Has(port.name, "lit") \/ Has(port.name, "runtime") THEN "" ELSE "UnboundScalar"
          [] OTHER -> "MemoryPort"
      Streams(port) ==
        IF IsStream(port.cat)
        THEN [i \in DOMAIN Channels(port) |-> scope[Channels(port)[i]].stream] ELSE <<>>
      bad == FirstThat(def.ports, LAMBDA port : PortError(port) # "")
      pin == FirstThat(def.pins, LAMBDA x : x.instance = <<>> \/ x.instance = <<inst.index>>)
  IN IF bad # <<>> THEN Failed(p, PortError(bad[1]))
     ELSE [p EXCEPT !.kernels = Append(@,
             [name |-> path, task |-> def.name, ordered |-> FALSE,
              location |-> IF pin = <<>> THEN <<>> ELSE <<pin[1].tile>>,
              ports |-> [i \in DOMAIN def.ports |->
                [name |-> def.ports[i].name, input |-> IsInputStream(def.ports[i].cat),
                 streams |-> Streams(def.ports[i])]]])]

\* visit: a leaf is a kernel; the FIFOs of an AI Engine upper task are nets.
RECURSIVE VisitAie(_, _, _, _, _)
VisitAie(graph, p, inst, path, scope) ==
  LET def == TaskOf(graph, inst.child)
      End(f) == IF f.prod # <<>> THEN f.prod ELSE f.cons
      Net(st, f) ==
        LET port == ChildPortFor(graph, def, End(f), f.name)
            made == PushStream(st.partition,
                      [name |-> Sanitize(path \o <<"">> \o f.name), fifo |-> f.name,
                       words |-> Words(port[1].width), frame |-> port[1].frame,
                       kind |-> [plio |-> FALSE, depth |->
                         (IF f.depth = <<>> THEN 0 ELSE f.depth[1]) * Words(port[1].width)]])
        IN CASE st.partition.error # "" \/ End(f) = <<>> -> st
             [] OTHER -> IF port = <<>> THEN [st EXCEPT !.partition = Failed(@, "NoPort")]
                         ELSE [partition |-> made,
                               scope |-> [x \in {f.name} |-> [stream |-> Len(made.streams)]] @@ st.scope]
      nets == FoldLeft(Net, [partition |-> p, scope |-> <<>>], def.fifos)
      seen == nets.scope @@ scope
      Child(q, below) ==
        LET checked == CheckInvokeStep(q, below)
            unbound == FirstThat(below.args,
                         LAMBDA a : IsName(a.src) /\ a.src.name \notin DOMAIN seen)
            Value(a) == IF IsName(a.src) THEN seen[a.src.name] ELSE [lit |-> a.src.lit]
            inner == [n \in {below.args[i].port : i \in DOMAIN below.args} |->
                        Value(FirstThat(below.args, LAMBDA a : a.port = n)[1])]
        IN CASE q.error # "" -> q
             [] q.error = "" /\ checked.error # "" -> checked
             [] OTHER -> IF unbound # <<>> THEN Failed(checked, "Unbound")
                         ELSE VisitAie(graph, checked, below,
                                Sanitize(path \o <<"">> \o CanonicalName(below)), inner)
  IN IF p.error # "" THEN p
     ELSE IF def.level = "Lower" THEN Kernel(p, inst, path, def, scope)
     ELSE FoldLeft(Child, nets.partition, def.insts)

\* check_locations: a pin names an instance there is, no tile is used twice.
CheckLocations(graph, p) ==
  LET Count(t) == Cardinality({k \in DOMAIN p.kernels : p.kernels[k].task = t.name})
      badPin == \E t \in Range(graph.tasks) : \E x \in Range(t.pins) :
                  IF x.instance = <<>> THEN Count(t) > 1 ELSE x.instance[1] >= Count(t)
      shared == \E i, j \in DOMAIN p.kernels :
                  i # j /\ p.kernels[i].location # <<>>
                    /\ p.kernels[i].location = p.kernels[j].location
  IN IF p.error # "" THEN p
     ELSE IF badPin THEN Failed(p, "BadPin") ELSE IF shared THEN Failed(p, "SharedTile") ELSE p
-----------------------------------------------------------------------------
(* Stream cycles *)

\* The nodes and edges mark_cycles builds: a kernel is <<"kernel", index>>, an
\* instance of a PL task under the top <<child, index>>.
PlNode(graph, end) ==
  IF end # <<>> /\ end[1] \in TaskNames(graph) /\ ~IsAie(graph, end[1]) THEN <<end>> ELSE <<>>
KernelEnd(p, s, input) ==
  LET ends == {k \in DOMAIN p.kernels : \E port \in Range(p.kernels[k].ports) :
                 port.input = input /\ s \in Range(port.streams)}
  IN IF ends = {} THEN <<>>
     ELSE << <<<<"kernel">>, CHOOSE k \in ends : \A j \in ends : j <= k>> >>
OrElse(a, b) == IF a # <<>> THEN a ELSE b
StreamEdges(graph, p) ==
  LET top == TaskOf(graph, graph.top)
      Side(s, input) ==
        LET fifo == FifoOf(top, p.streams[s].fifo)
        IN OrElse(KernelEnd(p, s, input),
                  IF fifo = <<>> THEN <<>>
                  ELSE PlNode(graph, IF input THEN fifo[1].cons ELSE fifo[1].prod))
      kernels == {<<Side(s, FALSE), Side(s, TRUE)>> : s \in DOMAIN p.streams}
      pl == {<<PlNode(graph, f.prod), PlNode(graph, f.cons)>> : f \in Range(top.fifos)}
  IN {<<e[1][1], e[2][1]>> : e \in {x \in kernels \cup pl : x[1] # <<>> /\ x[2] # <<>>}}

\* reaches_itself
ReachesItself(edges, node) ==
  LET grow[n \in Nat] == IF n = 0 THEN {e[2] : e \in {x \in edges : x[1] = node}}
                         ELSE grow[n - 1] \cup {e[2] : e \in {x \in edges : x[1] \in grow[n - 1]}}
  IN node \in grow[Cardinality(edges)]

MarkCycles(graph, p) ==
  IF p.error # "" THEN p
  ELSE [p EXCEPT !.kernels = [k \in DOMAIN @ |->
          [@[k] EXCEPT !.ordered = ReachesItself(StreamEdges(graph, p), <<<<"kernel">>, k>>)]]]
-----------------------------------------------------------------------------
\* One invoke of the top: its arguments are bound, then the child is visited.
VisitBound(graph, bound, inst) ==
  VisitAie(graph, bound.partition, inst, Sanitize(CanonicalName(inst)), bound.scope)
Invoke(graph, p, inst) ==
  IF p.error # "" \/ ~IsAie(graph, inst.child) THEN p
  ELSE VisitBound(graph, FoldLeft(LAMBDA st, a : TopBinding(graph, inst.child, st, a),
                           [partition |-> CheckInvokeStep(p, inst), scope |-> <<>>], inst.args), inst)

\* AiePartition::derive: the partition, if a task is on the AI Engine.
Derive(graph) ==
  LET top == TaskOf(graph, graph.top)
      empty == [error |-> "", kernels |-> <<>>, streams |-> <<>>, forever |-> FALSE, tops |-> <<>>]
      nested == \E t \in Range(graph.tasks) :
                  t.name # graph.top /\ t.synth # "Aie"
                    /\ \E inst \in Range(t.insts) : IsAie(graph, inst.child)
  IN IF \A t \in Range(graph.tasks) : t.synth # "Aie" THEN <<>>
     ELSE IF nested THEN <<Failed(empty, "NestedAie")>>
     ELSE <<MarkCycles(graph, CheckLocations(graph,
              FoldLeft(LAMBDA p, inst : Invoke(graph, p, inst), empty, top.insts)))>>

\* The FIFO and the port a PLIO leaves in the top; the PL side must be there.
ProjectPlio(graph, st, stream) ==
  LET original == TaskOf(graph, graph.top)
      fifo == FifoOf(st.top, stream.fifo)
      end == IF stream.kind.input THEN fifo[1].prod ELSE fifo[1].cons
      port == ChildPortFor(graph, original, end, stream.fifo)
      cut == [fifo[1] EXCEPT !.depth = <<>>,
                             !.cons = IF stream.kind.input THEN <<>> ELSE @,
                             !.prod = IF stream.kind.input THEN @ ELSE <<>>]
  IN IF fifo = <<>> THEN st
     ELSE IF end = <<>> THEN [st EXCEPT !.error = "NotConnected"]
     ELSE IF port = <<>> THEN [st EXCEPT !.error = "NoPort"]
     ELSE [st EXCEPT
             !.top.fifos = [i \in DOMAIN @ |-> IF @[i].name = stream.fifo THEN cut ELSE @[i]],
             !.top.ports = Append(@, [port[1] EXCEPT
                !.name = stream.fifo, !.chans = <<>>, !.frame = <<>>,
                !.cat = IF stream.kind.input THEN "Ostream" ELSE "Istream",
                !.plio = <<stream.kind.width>>])]

\* Mutant: a net removes the top's FIFO of its name, whoever uses it.
RemoveNetMutant(graph, st, stream) ==
  [st EXCEPT !.top.fifos = SelectSeq(@, LAMBDA f : f.name # stream.fifo)]
\* A net is removed from the top only where both ends are AI Engine tasks.
RemoveNet(graph, st, stream) ==
  LET fifo == FifoOf(st.top, stream.fifo)
  IN IF fifo # <<>> /\ EndpointIsAie(graph, fifo[1].prod) /\ EndpointIsAie(graph, fifo[1].cons)
     THEN [st EXCEPT !.top.fifos = SelectSeq(@, LAMBDA f : f.name # stream.fifo)] ELSE st

\* pl_projection: the design that is built as RTL.
PlProjection(graph, p) ==
  LET top == TaskOf(graph, graph.top)
      kept == [top EXCEPT !.insts = SelectSeq(@, LAMBDA i :
                 i.child \in TaskNames(graph) /\ ~IsAie(graph, i.child))]
      Project(st, stream) ==
        IF st.error # "" THEN st
        ELSE IF stream.kind.plio THEN ProjectPlio(graph, st, stream) ELSE RemoveNet(graph, st, stream)
      done == FoldLeft(Project, [error |-> "", top |-> kept], p.streams)
      startable == \E port \in Range(done.top.ports) : port.cat = "Scalar" \/ IsMmapLike(port.cat)
      tasks == SelectSeq(graph.tasks, LAMBDA t : t.synth # "Aie")
  IN [error |-> IF done.error # "" THEN done.error ELSE IF ~startable THEN "StreamsOnly" ELSE "",
      graph |-> [graph EXCEPT !.tasks =
                   [i \in DOMAIN tasks |-> IF tasks[i].name = graph.top THEN done.top ELSE tasks[i]]]]
=============================================================================
