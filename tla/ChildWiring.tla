----------------------------- MODULE ChildWiring -----------------------------
(***************************************************************************)
(* How the children of an upper task are wired into its module             *)
(* (tapa-codegen passes/children, passes/async_mmap.rs, passes/m_axi.rs,   *)
(* passes/axi_pipeline.rs, passes/distributed_control.rs, program.rs).     *)
(*                                                                         *)
(* A context is [st, name, conns, axi, ctl, top]: the state, the task, its *)
(* memory connections, its AXI pipelines and its control plan.  A kid is   *)
(* [module, inst, conns], a connection <<port, net, part>>, where part is  *)
(* "low" for the low bits of an AXI ID that is narrower than its wire.     *)
(***************************************************************************)
EXTENDS ControlPlan

FsmUnit == <<"", "", "tapa", "fsm", "unit">>
FabricResetN == <<"", "", "tapa", "control", "fabric", "reset", "n">>
StartQ == <<"start", "q">>
DoneQ == <<"done", "q">>
SlavePart == <<"s0", "s1", "s2", "s3", "s4", "s5", "s6", "s7">>

SlavePrefix(arg, slave) == MAxi(arg) \o <<SlavePart[slave]>>
AxiChild(arg) == <<"", "", "tapa", "axi">> \o Sanitize(arg) \o <<"child">>
BridgeName(arg) == Sanitize(arg) \o <<"", "m", "axi">>
ResetName(inst) == ControlPrefix(inst) \o <<"", "reset", "n">>
-----------------------------------------------------------------------------
(* Memory *)

\* Mutant: a pipelined child keeps the wires of the top.
BindingMutant(c, inst, arg) ==
  LET slave == SlaveOf(c.conns, arg, inst.child, inst.index)
      conn == ConnOf(c.conns, arg)
  IN IF slave # <<>>
     THEN [prefix |-> SlavePrefix(arg, slave[1]), upstream |-> SlavePrefix(arg, slave[1]),
           wire |-> SlaveIdWidth(conn[1]), id |-> conn[1].slaves[slave[1]].id]
     ELSE [prefix |-> MAxi(arg), upstream |-> MAxi(arg), wire |-> 0, id |-> 0]
\* build_mmap_bindings: a pipeline, a crossbar slave or the top's own wires;
\* wire and id are widths, and 0 where IDs need no adapting.
Binding(c, inst, arg) ==
  LET routed == \E r \in Range(c.axi) : r.iface.inst = CanonicalName(inst) /\ r.iface.arg = arg
      slave == SlaveOf(c.conns, arg, inst.child, inst.index)
      conn == ConnOf(c.conns, arg)
  IN IF routed THEN [prefix |-> AxiChild(arg), upstream |-> MAxi(arg), wire |-> 0, id |-> 0]
     ELSE IF slave # <<>>
     THEN [prefix |-> SlavePrefix(arg, slave[1]), upstream |-> SlavePrefix(arg, slave[1]),
           wire |-> SlaveIdWidth(conn[1]), id |-> conn[1].slaves[slave[1]].id]
     ELSE [prefix |-> MAxi(arg), upstream |-> MAxi(arg), wire |-> 0, id |-> 0]
Narrow(b) == b.wire > 1 /\ b.id < b.wire
AddressPart(b, chan) == IF Narrow(b) /\ HasId(chan) THEN "low" ELSE "all"

\* add_direct_mmap_portargs: an offset under either spelling, then every port
\* of the interface, or only the ports there are.
OffsetPort(m, port) ==
  IF ~HasPort(m, port \o <<"offset">>) /\ HasPort(m, port \o <<"r">>)
  THEN port \o <<"r">> ELSE port \o <<"offset">>
DirectConns(c, m, inst, port, b, filtered) ==
  LET Kept(p) == ~filtered \/ HasPort(m, p)
      Chan(ch) == {<<Payload(MAxi(port), ch), Payload(b.prefix, ch), AddressPart(b, ch)>>,
                   <<Ready(MAxi(port), ch), Ready(b.prefix, ch), "all">>}
      all == {<<OffsetPort(m, port), Signal(CanonicalName(inst), port \o <<"offset">>), "all">>}
               \cup UNION {Chan(ch) : ch \in Channels5}
  IN {x \in all : Kept(x[1])}

BridgeBase(prefix) == IF IsPrefix(<<"m", "axi">>, prefix) THEN SubSeq(prefix, 3, Len(prefix)) ELSE prefix
BridgeNet(base, tag, suffix) == base \o tag \o <<"">> \o suffix

\* async_mmap::child_portargs
AsyncConns(c, m, inst, port, b) ==
  LET base == BridgeBase(b.prefix)
      To(port1, net) == {<<p, net, "all">> : p \in Range(port1)}
      Tag(tag) ==
        UNION {To(TagPort(m, port, tag, s), BridgeNet(base, tag, s)) : s \in TagSuffixes(tag)}
          \cup (IF TagIn(tag)
                THEN To(TagPort(m, port, tag \o <<"peek">>, <<"dout">>), BridgeNet(base, tag, <<"dout">>))
                ELSE {<<p, Zero, "all">> : p \in {x \in {port \o tag \o <<"peek">>} : HasPort(m, x)}})
          \cup (IF tag[2] = "addr"
                THEN To(TagPort(m, port, tag, <<"offset">>),
                        Signal(CanonicalName(inst), port \o <<"offset">>)) ELSE {})
  IN UNION {Tag(tag) : tag \in Tags}

\* build_bridge_instance: a channel that is not enabled stays on the wires
\* upstream of any pipeline; an idle FIFO side is tied off.
Bridge(m, port, arg, b) ==
  LET tags == ActiveTags(m, port)
      on == EnabledChannels(m, port, tags)
      base == BridgeBase(b.prefix)
      Fifo(side, s1, s2) == {BridgeNet(base, t, IF TagIn(t) THEN s1 ELSE s2) : t \in side}
      outs == MasterOut(b.prefix, on) \cup MasterOut(b.upstream, Channels5 \ on)
      Part(n) == IF Narrow(b) /\ n \in {Payload(b.prefix, ch) : ch \in {"AR", "AW"}} THEN "low" ELSE "all"
  IN [inst |-> BridgeName(arg),
      drives |-> {[net |-> n, part |-> Part(n)] : n \in outs} \cup Whole(Fifo(tags, <<"dout">>, <<"full">>)),
      reads |-> MasterIn(b.prefix, on) \cup MasterIn(b.upstream, Channels5 \ on)
                  \cup Fifo(tags, <<"read">>, <<"din">>)]

\* add_crossbar_slave_id_padding
PadItem(b) ==
  [inst |-> <<>>, reads |-> {Zero},
   drives |-> {[net |-> Payload(b.prefix, ch), part |-> "high"] : ch \in {"AR", "AW"}}]
-----------------------------------------------------------------------------
(* Streams *)

\* resolve_stream_port
ResolveStream(m, name, suffix) ==
  LET p == GetPortOf(m, name, suffix)
  IN IF p = <<>> THEN StreamPortName(Sanitize(name), suffix) ELSE p[1]
StreamSignal(c, m, name, suffix) ==
  IF FifoOf(TaskOf(c.st.graph, c.name), name) # <<>> THEN Sanitize(name) \o suffix
  ELSE ResolveStream(m, name, suffix)

\* resolve_peek_port_name: an array element only under base_peek_index.
PeekPort(m, name, suffix) ==
  LET at == FirstLane(name)
      spelled == Base(name) \o <<"peek", Digit[LaneIndex(name[at])]>> \o SubSeq(name, at + 1, Len(name)) \o suffix
  IN IF HasLane(name) THEN (IF HasPort(m, spelled) THEN <<spelled>> ELSE <<>>)
     ELSE GetPortOf(m, name, <<"peek">> \o suffix)
PeekSignal(c, m, name) ==
  IF FifoOf(TaskOf(c.st.graph, c.name), name) # <<>> THEN Sanitize(name) \o <<"dout">>
  ELSE LET p == PeekPort(m, name, <<"dout">>)
       IN IF p = <<>> THEN Sanitize(name) \o <<"peek", "dout">> ELSE p[1]

StreamConns(c, m, child, arg) ==
  LET suffixes == IF IsInputStream(arg.cat) THEN IstreamSuffixes ELSE OstreamSuffixes
      peek == PeekPort(child, arg.port, IF IsInputStream(arg.cat) THEN <<"dout">> ELSE <<>>)
  IN {<<ResolveStream(child, arg.port, s), StreamSignal(c, m, arg.src.name, s), "all">> : s \in suffixes}
       \cup {<<p, IF IsInputStream(arg.cat) THEN PeekSignal(c, m, arg.src.name) ELSE Zero, "all">> :
               p \in Range(peek)}
-----------------------------------------------------------------------------
(* One child *)

\* build_child_instance_with_reset
ChildKid(c, m, inst) ==
  LET name == CanonicalName(inst)
      child == c.st.rtl[inst.child]
      ArgConns(arg) ==
        CASE arg.cat = "Scalar" -> {<<arg.port, Signal(name, arg.port), "all">>}
          [] IsStream(arg.cat) -> StreamConns(c, m, child, arg)
          [] IsDirectMmap(arg.cat) ->
               LET b == Binding(c, inst, arg.src.name)
               IN IF arg.cat = "Mmap" THEN DirectConns(c, child, inst, arg.port, b, FALSE)
                  ELSE IF HasDirectMAxi(child, arg.port)
                  THEN DirectConns(c, child, inst, arg.port, b, ~HasPort(child, OffsetPort(child, arg.port)))
                  ELSE AsyncConns(c, child, inst, arg.port, b)
          [] OTHER -> {<<Sanitize(arg.port), Sanitize(arg.src.name), "all">>}
  IN [module |-> inst.child, inst |-> Sanitize(name),
      conns |-> {<<Clk, Clk, "all">>, <<RstN, IF c.ctl = <<>> THEN RstN ELSE ResetName(name), "all">>,
                 <<Start, Signal(name, Start), "all">>}
                  \cup (IF inst.step < 0 THEN {} ELSE {<<Done, Signal(name, Done), "all">>})
                  \cup UNION {ArgConns(arg) : arg \in Range(inst.args)}]

\* pipeline_instance_signals: [in, out, src] for every argument the FSM delays.
Stages(c, inst) ==
  LET name == CanonicalName(inst)
      carried == SelectSeq(inst.args, Carried)
      Out1(a) == Signal(name, IF a.cat = "Scalar" THEN a.port ELSE a.port \o <<"offset">>)
  IN [i \in DOMAIN carried |->
        [out |-> Out1(carried[i]), in |-> Append(Out1(carried[i]), "in"),
         src |-> IF carried[i].cat = "Scalar" THEN ScalarDriver(carried[i].src)
                 ELSE OffsetSource(c.conns, carried[i].src.name)]]

\* register_fsm_handshake_ports, add_fsm_control_logic and add_pipeline_stage:
\* the FSM starts the child, waits for it and delays its arguments.
FsmChild(c, fsm, inst) ==
  LET name == CanonicalName(inst)
      auto == inst.step < 0
      stages == Range(Stages(c, inst))
      start == Signal(name, Start)
      ports == {Out(start)} \cup (IF auto THEN {} ELSE {In(Signal(name, Done)), Out(IsDone(name))})
                 \cup {In(s.in) : s \in stages} \cup {Out(s.out) : s \in stages}
      logic == IF auto THEN Item(<<>>, {start}, {Start})
               ELSE Item(<<>>, {start, IsDone(name)}, {StartQ, DoneQ, Signal(name, Done)})
  IN FoldLeft(LAMBDA m, s : AddItem(m, Assign(s.out, s.in)),
              AddItem(AddPorts(fsm, ports), logic), Stages(c, inst))
FsmConns(c, inst) ==
  LET name == CanonicalName(inst)
      nets == {Signal(name, Start)} \cup IF inst.step < 0 THEN {} ELSE {Signal(name, Done), IsDone(name)}
  IN {<<n, n, "all">> : n \in nets} \cup {<<s.in, s.src, "all">> : s \in Range(Stages(c, inst))}
       \cup {<<s.out, s.out, "all">> : s \in Range(Stages(c, inst))}

\* instantiate_child: launch and reset to the child, completion back, each
\* through a pipeline or an assignment; the local controller in between.
ControlChild(m, child) ==
  LET name == child.inst
      p == ControlPrefix(name)
      input == p \o <<"", "launch", "input">>
      output == p \o <<"", "launch", "output">>
      done == p \o <<"", "local", "completion">>
      Link(route, chan, from, to) ==
        Item(IF route = <<>> THEN <<>> ELSE p \o <<chan>>, {to}, {from})
      ctlIn == {ScopeSignal(child.owner, "start")} \cup
               (IF child.autorun THEN {} ELSE {ScopeSignal(child.owner, "release")})
      items == <<Item(<<>>, {input}, ctlIn \cup {f.src : f \in Range(child.fields)}),
                 Link(child.launch, "launch", input, output),
                 Link(child.reset, "reset", RstN, ResetName(name))>>
               \o [i \in DOMAIN child.fields |->
                     Assign(child.fields[i].out,
                            IF child.registered THEN child.fields[i].src ELSE output)]
               \o <<Item(LocalController(name), {Signal(name, Start), done},
                         {output, ResetName(name)} \cup
                           (IF child.autorun THEN {} ELSE {Signal(name, Done)}))>>
               \o (IF child.autorun THEN <<>>
                   ELSE <<Link(child.completion, "completion", done, IsDone(name))>>)
  IN [m EXCEPT !.items = @ \o items]

\* wire_child_instance, for one instance: [m, fsm, conns] of the task.
WireChild(c, acc, inst) ==
  LET name == CanonicalName(inst)
      child == c.st.rtl[inst.child]
      plan == FirstThat(c.ctl[1].children, LAMBDA k : k.inst = name)
      async == SelectSeq(inst.args, LAMBDA a : a.cat = "AsyncMmap" /\ ActiveTags(child, a.port) # {})
      padded == SelectSeq(inst.args, LAMBDA a :
                  IsDirectMmap(a.cat) /\ Binding(c, inst, a.src.name).id < Binding(c, inst, a.src.name).wire)
      controlled == IF c.ctl = <<>> THEN acc.m ELSE ControlChild(acc.m, plan[1])
      bridged == FoldLeft(LAMBDA m, a :
                   AddItem(m, Bridge(child, a.port, a.src.name, Binding(c, inst, a.src.name))),
                   controlled, async)
      Wired(m) == AddKid(m, ChildKid(c, m, inst))
  IN [m |-> FoldLeft(LAMBDA m, a : AddItem(m, PadItem(Binding(c, inst, a.src.name))),
                     Wired(bridged), padded),
      fsm |-> IF c.ctl = <<>> THEN FsmChild(c, acc.fsm, inst) ELSE acc.fsm,
      conns |-> acc.conns \cup IF c.ctl = <<>> THEN FsmConns(c, inst) ELSE {}]
=============================================================================
