------------------------------- MODULE Codegen -------------------------------
(***************************************************************************)
(* RTL generation (tapa-codegen lib.rs, program.rs and passes/; the parts  *)
(* of tapa-cli that prepare its input, aie.rs and steps/synth): the graph  *)
(* is reduced to its programmable-logic half, flattened if asked to, given *)
(* the modules Vitis HLS made, and each upper task is rewritten in place   *)
(* by eight passes, in the order of the task names.  A pass reads modules  *)
(* that other tasks' passes may or may not have rewritten yet.             *)
(***************************************************************************)
EXTENDS ChildWiring, AiePartition

CONSTANTS
  Projects    \* [graph, flatten, plan (opt), hls (task -> module)]

VARIABLES
  phase,      \* the next pass, "done" or "failed"
  project,    \* the project being built
  st,         \* TopologyWithRtl and the occurrences of its projection
  split,      \* the AI Engine partition, if any
  fsms,       \* task -> FSM module
  todo,       \* the upper tasks not finished yet
  inputs,     \* TaskStageInputs of the first of them
  files,      \* file name -> what it holds
  error

vars == <<phase, project, st, split, fsms, todo, inputs, files, error>>

NoInputs == [conns |-> <<>>, axi |-> <<>>, ctl |-> <<>>, done |-> <<>>, sAxi |-> FALSE]
Empty == [x \in {} |-> <<>>]

Init ==
  /\ phase = "project"
  /\ project \in Projects
  /\ st = [graph |-> project.graph, design |-> project.graph, occ |-> <<>>, rtl |-> Empty,
           plan |-> <<>>]
  /\ split = <<>> /\ fsms = Empty /\ todo = <<>> /\ inputs = NoInputs /\ files = Empty
  /\ error = ""

Fail(name) ==
  /\ phase' = "failed" /\ error' = name
  /\ UNCHANGED <<project, st, split, fsms, todo, inputs, files>>
-----------------------------------------------------------------------------
(* Before the passes *)

\* The PL half of the graph (aie.rs of the CLI): the graph is validated as it
\* is read, and its AI Engine kernels are replaced by PLIO ports.
Project ==
  /\ phase = "project"
  /\ IF ~ValidGraph(project.graph) THEN Fail("InvalidGraph")
     ELSE \E p \in {Derive(project.graph)} :
       IF p = <<>>
       THEN /\ phase' = "flatten"
            /\ UNCHANGED <<project, st, split, fsms, todo, inputs, files, error>>
       ELSE IF p[1].error # "" THEN Fail(p[1].error)
       ELSE \E pl \in {PlProjection(project.graph, p[1])} :
         IF pl.error # "" THEN Fail(pl.error)
         ELSE /\ phase' = "flatten"
              /\ split' = p
              /\ st' = [st EXCEPT !.graph = pl.graph, !.design = pl.graph]
              /\ UNCHANGED <<project, fsms, todo, inputs, files, error>>

\* prepare_rtl_state: the projection is kept beside the design, and every HLS
\* task of the design gets its module.
Flatten ==
  /\ phase = "flatten"
  /\ \E flat \in {IF project.flatten THEN FlattenWithOrigins(st.design)
                  ELSE [error |-> "", flat |-> st.design, occurrences |-> <<>>]} :
       LET hls == {t \in TaskNames(st.design) : TaskOf(st.design, t).synth = "Hls"}
       IN IF flat.error # "" THEN Fail(flat.error)
          ELSE IF \E t \in hls : t \notin DOMAIN project.hls THEN Fail("MissingInputs")
          ELSE /\ st' = [st EXCEPT !.graph = flat.flat, !.occ = flat.occurrences,
                                   !.plan = project.plan,
                                   !.rtl = [t \in hls |-> project.hls[t]]]
               /\ phase' = "shells"
               /\ UNCHANGED <<project, split, fsms, todo, inputs, files, error>>

\* ignore_task_shells; the task list is taken first, in the order of its names.
Shells ==
  /\ phase = "shells"
  /\ LET tasks == {t \in Range(st.graph.tasks) : t.synth = "Ignore"}
         upper == SelectSeq(st.graph.tasks, LAMBDA t : t.synth # "Ignore" /\ t.level = "Upper")
     IN /\ st' = [st EXCEPT !.rtl = [n \in {t.name : t \in tasks} |->
                                       TaskTemplate(TaskOf(st.graph, n), AxiIdWidth)] @@ @]
        /\ todo' = [i \in DOMAIN upper |-> upper[i].name]
        /\ phase' = IF upper = <<>> THEN "emit" ELSE "prepare"
  /\ UNCHANGED <<project, split, fsms, inputs, files, error>>
-----------------------------------------------------------------------------
(* The passes of one upper task *)

Name == Head(todo)
IsTop == Name = st.design.top
Task == TaskOf(st.graph, Name)
Mod == st.rtl[Name]
HasModule == Name \in DOMAIN st.rtl
Context == [st |-> st, name |-> Name, conns |-> inputs.conns, axi |-> inputs.axi, ctl |-> inputs.ctl]

\* Pass(m) replaces the task's module, where it has one.
Becomes(m) == st' = IF HasModule THEN [st EXCEPT !.rtl[Name] = m] ELSE st

\* The pipelines of the top's memory interfaces, where it is floorplanned.
AxiPlan(ifaces) ==
  IF \E i \in DOMAIN ifaces : ifaces[i] = <<>>
  THEN [error |-> "InvalidMmapConnection", routed |-> <<>>]
  ELSE AxiPipelinePlan(FlattenSeq(ifaces), st.plan[1])
TopAxi(conns) ==
  IF IsTop /\ st.plan # <<>>
  THEN AxiPlan([i \in DOMAIN conns |-> DirectInterface(st, Name, conns[i])])
  ELSE [error |-> "", routed |-> <<>>]

\* TaskStageInputs::prepare: everything that can be refused is refused before
\* a module is touched.
Prepare ==
  /\ phase = "prepare"
  /\ IF \E i, j \in DOMAIN Task.insts :
           i # j /\ Sanitize(CanonicalName(Task.insts[i])) = Sanitize(CanonicalName(Task.insts[j]))
     THEN Fail("InvalidChildInstanceNames")
     ELSE \E agg \in {Aggregate(st, Name)} :
       IF agg.error # "" THEN Fail(agg.error)
       ELSE \E axi \in {TopAxi(agg.conns)} :
         IF axi.error # "" THEN Fail(axi.error)
         ELSE \E ctl \in {IF IsTop THEN DistributedControl(st, agg.conns) ELSE <<>>} :
           IF ctl # <<>> /\ ctl[1].error # "" THEN Fail(ctl[1].error)
           ELSE /\ inputs' = [conns |-> agg.conns, axi |-> axi.routed, ctl |-> ctl, done |-> <<>>,
                              sAxi |-> st.design.top \in DOMAIN st.rtl /\ TopHasSAxi(st)]
                /\ phase' = "cleanup"
                /\ UNCHANGED <<project, st, split, fsms, todo, files, error>>

\* cleanup_hls_artifacts: the reset of the fabric, and a top without peeks.
Cleanup ==
  /\ phase = "cleanup" /\ phase' = "fsm"
  /\ LET reset == Assign(Rst, IF inputs.ctl = <<>> THEN RstN ELSE FabricResetN)
         streams == {p \in Range(Task.ports) : IsInputStream(p.cat)}
         Peeks(p) == {Sanitize(p.name) \o <<"peek">>}
                       \cup IF p.cat # "Istreams" THEN {}
                            ELSE {n \o <<"peek">> : n \in Indexed(Sanitize(p.name), IF p.chans = <<>> THEN 1 ELSE p.chans[1])}
         Peek(n) == \E p \in streams : \E q \in Peeks(p) : IsPrefix(q, n)
     IN Becomes([AddItem(Mod, reset) EXCEPT
                   !.ports = {p \in @ : ~(IsTop /\ Peek(p.name))}])
  /\ UNCHANGED <<project, split, fsms, todo, inputs, files, error>>

\* create_fsm_module
CreateFsm ==
  /\ phase = "fsm" /\ phase' = "children"
  /\ fsms' = IF inputs.ctl = <<>> THEN (Name :> Module(Handshake)) @@ fsms ELSE fsms
  /\ UNCHANGED <<project, st, split, todo, inputs, files, error>>

\* generate_child_signals and instantiate_fsm_module
Children ==
  /\ phase = "children" /\ phase' = "fifos"
  /\ \E wired \in {FoldLeft(LAMBDA acc, inst : WireChild(Context, acc, inst),
                             [m |-> Mod, conns |-> {},
                              fsm |-> IF Name \in DOMAIN fsms THEN fsms[Name] ELSE Module({})],
                             Task.insts)} :
     LET unit == [module |-> Append(Name, "fsm"), inst |-> FsmUnit,
                  conns |-> wired.conns \cup {<<p, p, "all">> : p \in {Clk, RstN, Start, Done}}]
         waited == SelectSeq(Task.insts, LAMBDA i : i.step >= 0)
     IN /\ Becomes(IF inputs.ctl = <<>> THEN AddKid(wired.m, unit) ELSE wired.m)
        /\ fsms' = IF Name \in DOMAIN fsms THEN [fsms EXCEPT ![Name] = wired.fsm] ELSE fsms
        /\ inputs' = [inputs EXCEPT !.done = [i \in DOMAIN waited |-> IsDone(CanonicalName(waited[i]))]]
  /\ UNCHANGED <<project, split, todo, files, error>>

\* connect_fifos on an external stream: its wire meets the port of the task, or
\* an AXIS adapter where the top has AXIS ports.
NeedsAxis == st.graph.target \in {"Vitis", "Slash"}
External(m, fifo) ==
  LET name == Sanitize(fifo.name)
      input == fifo.cons # <<>>
      plio == PortOf(Task, fifo.name)[1].plio # <<>>
      Meet(acc, suffix) ==
        LET port == GetPortOf(acc, fifo.name, suffix)
            wire == name \o suffix
        IN IF port = <<>> \/ port = <<wire>> THEN acc
           ELSE AddItem(acc, IF suffix \in {<<"dout">>, <<"full">>} THEN Assign(wire, port[1])
                             ELSE Assign(port[1], wire))
      met == FoldLeft(Meet, m, IF input THEN << <<"dout">>, <<"read">> >> ELSE << <<"din">>, <<"full">> >>)
      data == name \o <<"TDATA">>
      ready == name \o <<"TREADY">>
      ported == IF plio THEN AddPorts(met, IF input THEN {In(data), Out(ready)} ELSE {Out(data), In(ready)})
                ELSE met
      adapter == IF input THEN {name \o <<"dout">>, ready} ELSE {data, name \o <<"full">>}
      taken == IF input THEN {data, name \o <<"read">>} ELSE {ready, name \o <<"din">>}
  IN IF IsTop /\ NeedsAxis
     THEN AddItem(ported, Item(<<"tapa", "axis">> \o name, adapter, taken)) ELSE met

\* instantiate_fifos: the storage of an internal stream, between its two ends.
Storage(fifo) ==
  LET name == Sanitize(fifo.name)
  IN Item(name \o <<"fifo">>, {name \o <<"dout">>, name \o <<"full">>},
          {name \o <<"din">>, name \o <<"read">>, Rst})

\* fifo_instantiate_connect: a stored stream needs a producer, an external one a
\* declared port.
Fifos ==
  /\ phase = "fifos"
  /\ LET stored == SelectSeq(Task.fifos, LAMBDA f : f.depth # <<>>)
         external == SelectSeq(Task.fifos, LAMBDA f : f.depth = <<>>)
         kept == [Mod EXCEPT !.items = @ \o [i \in DOMAIN stored |-> Storage(stored[i])]]
     IN IF \/ \E f \in Range(stored) : f.prod = <<>>
           \/ \E f \in Range(external) : PortOf(Task, f.name) = <<>>
        THEN Fail("FifoWidthUnresolved")
        ELSE /\ phase' = "crossbars"
             /\ Becomes(FoldLeft(External, kept, external))
             /\ UNCHANGED <<project, split, fsms, todo, inputs, files, error>>

\* add_m_axi_and_crossbars: the ports of a connection, its crossbar and the
\* wires to its slaves; the channels of an hmap are offset on the way out.
Raw(arg, k, c) == Payload(MAxi(arg) \o <<Digit[k]>>, c) \o <<"raw">>
CrossbarWires(conn) ==
  {[name |-> Payload(SlavePrefix(conn.arg, i), c), id |-> SlaveIdWidth(conn)] :
     i \in DOMAIN conn.slaves, c \in {x \in Channels5 : HasId(x)}}
Crossbar(m, conn) ==
  LET prefixes == IF IsHmap(conn) THEN Indexed(Sanitize(conn.arg), ChannelCount(conn)) ELSE {Sanitize(conn.arg)}
      ported == AddPorts(m, UNION {MAxiPorts(p, IdWidth(conn)) : p \in prefixes})
      masters == UNION {MasterOut(MAxi(p), Channels5) : p \in prefixes}
      moved == IF ~IsHmap(conn) THEN {}
               ELSE {<<k, c>> : k \in 1..ChannelCount(conn), c \in {"AR", "AW"}}
      Address(x) == Payload(MAxi(conn.arg) \o <<Digit[x[1]]>>, x[2])
      offsets == SetToSeq({Item(<<>>, {Address(x)}, {Raw(conn.arg, x[1], x[2]),
                                                    Sanitize(conn.arg) \o <<Digit[x[1]], "offset">>}) : x \in moved})
      drives == (masters \ {Address(x) : x \in moved}) \cup {Raw(conn.arg, x[1], x[2]) : x \in moved}
                  \cup UNION {MasterIn(SlavePrefix(conn.arg, i), Channels5) : i \in DOMAIN conn.slaves}
      reads == UNION {MasterIn(MAxi(p), Channels5) : p \in prefixes}
                 \cup UNION {MasterOut(SlavePrefix(conn.arg, i), Channels5) : i \in DOMAIN conn.slaves}
      built == AddItem(AddWires([ported EXCEPT !.items = @ \o offsets], CrossbarWires(conn)),
                       Item(<<"axi", "crossbar", "">> \o Sanitize(conn.arg), drives, reads))
  IN IF NeedsCrossbar(conn) THEN built ELSE ported
CrossbarFile(conn) == <<"axi", "crossbar", Digit[ChannelCount(conn)], Digit[Len(conn.slaves)]>>
Crossbars ==
  /\ phase = "crossbars" /\ phase' = "pipelines"
  /\ Becomes(FoldLeft(Crossbar, Mod, inputs.conns))
  /\ files' = [n \in {CrossbarFile(c) : c \in {x \in Range(inputs.conns) : NeedsCrossbar(x)}} |->
                 <<"crossbar">>] @@ files
  /\ UNCHANGED <<project, split, fsms, todo, inputs, error>>

\* DirectAxiPipelinePlan::instantiate: a pipeline for each enabled channel,
\* towards the memory or back.
AxiPipeline(m, routed) ==
  LET f == routed.iface
      child == AxiChild(f.arg)
      Stage(c) ==
        LET from == IF Request(c) THEN child ELSE MAxi(f.arg)
            to == IF Request(c) THEN MAxi(f.arg) ELSE child
        IN Item(<<"", "", "tapa", "axi">> \o Sanitize(f.arg) \o <<c>>,
                {Payload(to, c), Ready(from, c)}, {Payload(from, c), Ready(to, c), Rst})
  IN [AddWires(m, {[name |-> Payload(child, c), id |-> f.id] : c \in {x \in f.chans : HasId(x)}})
        EXCEPT !.items = @ \o SetToSeq({Stage(c) : c \in f.chans})]
AxiPipelines ==
  /\ phase = "pipelines" /\ phase' = "control"
  /\ Becomes(FoldLeft(AxiPipeline, Mod, inputs.axi))
  /\ UNCHANGED <<project, split, fsms, todo, inputs, files, error>>

\* instantiate_global: the scopes, each a child and a controller, then the
\* controller of the top.
ScopeOf(m, scope) ==
  LET child == FirstThat(inputs.ctl[1].children, LAMBDA k : k.inst = scope.inst)[1]
      owner == <<scope.inst>>
  IN AddItem(ControlChild(m, child),
             Item(ScopeController(scope.inst),
                  {ScopeSignal(owner, "start"), ScopeSignal(owner, "release"), Signal(scope.inst, Done)},
                  {Signal(scope.inst, Start), RstN} \cup Range(scope.done)))
Global(m) ==
  LET plan == inputs.ctl[1]
      done == IF plan.root = <<>> THEN inputs.done ELSE plan.root[1]
  IN AddItem(FoldLeft(ScopeOf, m, plan.scopes),
             Item(GlobalController,
                  {ScopeSignal(<<>>, "start"), ScopeSignal(<<>>, "release"), FabricResetN, Done},
                  {Start, RstN} \cup Range(done)))
\* apply_global_fsm
GlobalFsm(fsm, done) ==
  AddItem(AddItem(AddPorts(fsm, {In(Start), Out(Done)}), Assign(StartQ, Start)),
          Item(<<>>, {DoneQ, Done}, {Start, RstN} \cup Range(done)))
ControlFsm ==
  /\ phase = "control" /\ phase' = "axi"
  /\ IF inputs.ctl # <<>> THEN Becomes(Global(Mod)) /\ UNCHANGED fsms
     ELSE UNCHANGED st /\ fsms' = [fsms EXCEPT ![Name] = GlobalFsm(@, inputs.done)]
  /\ UNCHANGED <<project, split, todo, inputs, files, error>>

\* instantiate_top_control_s_axi: the register file starts the top and holds
\* its scalars and offsets.
SAxi ==
  /\ phase = "axi"
  /\ LET Held(p) == CASE p.cat = "Scalar" -> {Sanitize(p.name)}
                      [] IsMmapLike(p.cat) -> {n \o <<"offset">> : n \in MmapNames(p)}
                      [] OTHER -> {}
         held == UNION {Held(p) : p \in Range(Task.ports)}
     IN Becomes(IF IsTop /\ inputs.sAxi
                THEN AddItem(Mod, Item(ControlSAxi, {Start, <<"interrupt">>} \cup held,
                                       {AxiLite, Done, Rst}))
                ELSE Mod)
  /\ todo' = Tail(todo) /\ inputs' = NoInputs
  /\ phase' = IF Len(todo) = 1 THEN "emit" ELSE "prepare"
  /\ UNCHANGED <<project, split, fsms, files, error>>

\* collect_outputs
Emit ==
  /\ phase = "emit" /\ phase' = "done"
  /\ LET made == {t.name : t \in {x \in Range(st.graph.tasks) :
                    x.synth = "Ignore" \/ (x.level = "Upper" /\ x.name \in DOMAIN st.rtl)}}
         units == {Append(t, "fsm") : t \in DOMAIN fsms}
     IN files' = [n \in made \cup units |-> IF n \in units THEN <<"fsm">> ELSE <<"task">>] @@ files
  /\ UNCHANGED <<project, st, split, fsms, todo, inputs, error>>

Stopped == phase \in {"done", "failed"} /\ UNCHANGED vars

Next ==
  \/ Project \/ Flatten \/ Shells \/ Prepare \/ Cleanup \/ CreateFsm \/ Children \/ Fifos
  \/ Crossbars \/ AxiPipelines \/ ControlFsm \/ SAxi \/ Emit \/ Stopped

Spec == Init /\ [][Next]_vars
-----------------------------------------------------------------------------
(* Properties *)

Built == {t.name : t \in {x \in Range(st.graph.tasks) :
            x.level = "Upper" /\ x.synth # "Ignore" /\ x.name \in DOMAIN st.rtl}}
Units == {Append(t, "fsm") : t \in DOMAIN fsms}
FinalModule(name) == IF name \in Units THEN fsms[Front(name)] ELSE st.rtl[name]
PortsTo(m, dir) == {p.name : p \in {q \in m.ports : q.dir = dir}}
\* Who drives what, and what is read.
Drivers(m) ==
  {[by |-> <<0, 0, p>>, net |-> p, part |-> "all"] : p \in PortsTo(m, "in")}
    \cup UNION {{[by |-> <<1, i, <<>> >>, net |-> d.net, part |-> d.part] : d \in m.items[i].drives} : i \in DOMAIN m.items}
    \cup UNION {LET outs == PortsTo(FinalModule(m.kids[k].module), "out")
                IN {[by |-> <<2, k, x[1]>>, net |-> x[2], part |-> x[3]] :
                      x \in {y \in m.kids[k].conns : y[1] \in outs}} : k \in DOMAIN m.kids}
Readers(m) ==
  (PortsTo(m, "out") \cup UNION {m.items[i].reads : i \in DOMAIN m.items}
     \cup UNION {LET ins == PortsTo(FinalModule(m.kids[k].module), "in")
                 IN {x[2] : x \in {y \in m.kids[k].conns : y[1] \in ins}} : k \in DOMAIN m.kids})
    \ {Zero}

\* Every net of a generated module that is read or driven has one driver for
\* each of its bits: eight passes over modules in the order of their names, of
\* which the ones that wire children, streams, memory, resets and control do
\* not know of each other, leave no net floating and none driven twice.
NetsHaveOneDriver ==
  phase = "done" =>
    \A name \in Built \cup Units :
      LET m == FinalModule(name)
          drivers == Drivers(m)
      IN \A net \in Readers(m) \cup {d.net : d \in drivers} :
           LET mine == {d \in drivers : d.net = net}
           IN \/ Cardinality(mine) = 1 /\ {d.part : d \in mine} = {"all"}
              \/ Cardinality(mine) = 2 /\ {d.part : d \in mine} = {"low", "high"}

\* An instance of a generated module names ports its module ends up with, and
\* connects every input of it once: the parent resolves them against a module
\* the child's own passes may still have to rewrite.
ChildPortsConnected ==
  phase = "done" =>
    \A name \in Built : \A kid \in Range(st.rtl[name].kids) :
      LET child == FinalModule(kid.module)
      IN /\ \A x \in kid.conns : HasPort(child, x[1])
         /\ \A p \in PortsTo(child, "in") : Cardinality({x \in kid.conns : x[1] = p}) = 1

\* No two instances of a generated module have one name: the names are made by
\* different passes from children, arguments, streams and scopes.
InstancesAreUnique ==
  phase = "done" =>
    \A name \in Built :
      LET m == st.rtl[name]
          named == SelectSeq(m.items, LAMBDA x : x.inst # <<>>)
          all == [i \in DOMAIN named |-> named[i].inst] \o [k \in DOMAIN m.kids |-> m.kids[k].inst]
      IN Cardinality(Range(all)) = Len(all)

\* An AXI ID reaches every wire whole: a child's port is as wide as the wire it
\* is on, or narrower where the upper bits are tied off, and a crossbar has
\* routing bits for its slaves beyond the widest ID below it.
IdsFit ==
  phase = "done" =>
    \A name \in Built : \A kid \in Range(st.rtl[name].kids) : kid.inst # FsmUnit =>
      LET m == st.rtl[name]
          Width(net) == {w.id : w \in {x \in m.wires \cup m.ports : x.name = net}}
          child == FinalModule(kid.module)
      IN \A p \in {q \in child.ports : q.id > 0} : \A x \in {y \in kid.conns : y[1] = p.name} :
           IF x[3] = "low" THEN \A w \in Width(x[2]) : p.id < w ELSE Width(x[2]) = {p.id}

\* The generated RTL elaborates, and elaborates to what was meant: nets, ports,
\* instance names and AXI IDs of every module fit together.  It does where no
\* memory is passed to two FIFO-style children: their bridges are named after
\* the memory alone (async_mmap_bridge_instance_name, children/signals.rs).
NetlistIsLegal == NetsHaveOneDriver /\ ChildPortsConnected /\ InstancesAreUnique /\ IdsFit

\* Where a name in a scope comes from, found upwards: the occurrence that
\* declares it and its name there.
RECURSIVE Origin(_, _)
Origin(o, name) ==
  LET task == SourceTask(st.design, st.occ, o)
      call == SourceInvocation(st.design, st.occ, o)
      Bind(n) == {a.src.name : a \in {x \in Range(call.args) : x.port = n /\ IsName(x.src)}}
      declared == \E f \in Range(task.fifos) : f.name = name /\ (o = 1 \/ f.depth # <<>>)
  IN IF declared \/ o = 1 THEN <<o, name>>
     ELSE IF Bind(name) # {} THEN Origin(st.occ[o].parent[1], CHOOSE n \in Bind(name) : TRUE)
     ELSE Origin(st.occ[o].parent[1],
                 OffsetBinding(CHOOSE n \in Bind(Base(name)) : TRUE, LaneIndex(name[FirstLane(name)])))

\* The stream ports of a leaf, by occurrence and argument.
Ends ==
  {<<i, a>> : i \in {j \in DOMAIN st.occ : st.occ[j].endpoint # <<>>}, a \in 1..4}
LeafEnds ==
  {e \in Ends : LET call == SourceInvocation(st.design, st.occ, e[1])
                IN e[2] \in DOMAIN call.args /\ IsStream(call.args[e[2]].cat)}
FlatArg(e) ==
  LET o == st.occ[e[1]]
  IN InstanceOf(TaskOf(st.graph, st.graph.top), o.endpoint[1], o.endpoint[2])[1].args[e[2]]
OriginOf(e) ==
  Origin(st.occ[e[1]].parent[1], SourceInvocation(st.design, st.occ, e[1]).args[e[2]].src.name)

\* Flattening keeps every stream: two leaf ports share a FIFO of the flat top
\* exactly when, followed upwards through the calls, they are the same FIFO of
\* the same call, and the FIFO's endpoints are those two leaves.
EveryStreamKeepsItsEnds ==
  phase = "done" /\ st.occ # <<>> =>
    /\ \A d, e \in LeafEnds : (FlatArg(d).src = FlatArg(e).src) <=> (OriginOf(d) = OriginOf(e))
    /\ \A e \in LeafEnds : \E f \in Range(TaskOf(st.graph, st.graph.top).fifos) :
         /\ f.name = FlatArg(e).src.name
         /\ st.occ[e[1]].endpoint = IF IsInputStream(FlatArg(e).cat) THEN f.cons ELSE f.prod

\* The two halves of a design that uses the AI Engine meet: a stream between
\* them is one PLIO, an AXIS port of the generated top that faces the other way
\* and is as wide; no stream of the top is cut that has both ends on one side.
HalvesMeet ==
  phase = "done" /\ split # <<>> =>
    LET top == TaskOf(project.graph, project.graph.top)
        made == TaskOf(st.design, st.design.top)
        plios == {s \in Range(split[1].streams) : s.kind.plio}
        Side(end) == IF end = <<>> THEN "host" ELSE IF EndpointIsAie(project.graph, end) THEN "aie" ELSE "pl"
    IN /\ \A f \in Range(top.fifos) :
            LET sides == {Side(f.prod), Side(f.cons)}
                plio == {s \in plios : s.fifo = f.name}
            IN /\ (plio # {}) <=> ("aie" \in sides /\ sides # {"aie"})
               /\ "aie" \notin sides => f \in Range(made.fifos)
               /\ sides = {"aie"} => f.name \notin {g.name : g \in Range(made.fifos)}
               /\ sides = {"aie", "pl"} =>
                    \E s \in plio : \E p \in Range(made.ports) :
                      /\ p.name = f.name /\ p.plio = <<s.kind.width>>
                      /\ [name |-> Sanitize(f.name) \o <<"TDATA">>, id |-> 0,
                          dir |-> IF s.kind.input THEN "out" ELSE "in"] \in st.rtl[st.graph.top].ports
=============================================================================
