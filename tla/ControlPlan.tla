----------------------------- MODULE ControlPlan -----------------------------
(***************************************************************************)
(* The distributed control of a flattened top task                         *)
(* (tapa-codegen passes/distributed_control.rs): which controllers there   *)
(* are, what each is launched with, and the pipelines between them.        *)
(*                                                                         *)
(* A state has, beside the fields of MemoryPorts, design, the graph before *)
(* flattening, and occ, its occurrences when it was flattened.  A plan is  *)
(* [error, children, scopes, root, flush]: a child [inst, owner, autorun,  *)
(* registered, fields, launch, reset, completion], a route the number of   *)
(* its body registers; an upper scope is a child without routes that also  *)
(* has a controller of its own.                                            *)
(***************************************************************************)
EXTENDS MemoryPorts

GlobalController == <<"", "", "tapa", "global", "controller">>
LocalController(inst) == <<"", "", "tapa", "local", "controller">> \o Sanitize(inst)
ScopeController(inst) == <<"", "", "tapa", "control", "scope">> \o Sanitize(inst)
ControlSAxi == <<"control", "s", "axi", "U">>
AxiLite == <<"s", "axi", "control">>
Spanning == "SLOT_X0Y0_TO_SLOT_X0Y1"      \* a region of more than one slot

ControlPrefix(inst) == <<"", "", "tapa", "control">> \o Sanitize(inst)
\* control_wire_prefix and scope_signal
ScopeSignal(owner, signal) ==
  IF owner = <<>> THEN <<"", "", "tapa", "control", signal>>
  ELSE ControlPrefix(owner[1]) \o <<"", signal>>
Signal(inst, name) == Sanitize(inst) \o <<"">> \o name
IsDone(inst) == Signal(inst, <<"is", "done">>)

\* scalar_driver and mmap_offset_source
ScalarDriver(src) == IF IsName(src) THEN Sanitize(src.name) ELSE Zero
OffsetSource(conns, parent) ==
  LET conn == ConnOf(conns, parent)
  IN IF conn # <<>> THEN (IF IsHmap(conn[1]) THEN Zero ELSE Sanitize(parent) \o <<"offset">>)
     ELSE Sanitize(parent) \o <<"offset">>

\* build_payload_fields: the scalars and memory offsets a child is started
\* with; every scalar port needs a scalar argument of some width.
Carried(arg) == arg.cat = "Scalar" \/ (IsDirectMmap(arg.cat) /\ IsName(arg.src))
PayloadFields(st, child, inst, args, conns) ==
  LET def == TaskOf(st.design, child)
      scalars == {p \in Range(def.ports) : p.cat = "Scalar"}
      ok == /\ \A p \in scalars : \E a \in Range(args) : a.port = p.name /\ a.cat = "Scalar"
            /\ \A a \in Range(args) :
                 a.cat = "Scalar" => \E p \in Range(def.ports) : p.name = a.port /\ p.width > 0
      Field(a) ==
        IF a.cat = "Scalar"
        THEN [out |-> Signal(inst, a.port), src |-> ScalarDriver(a.src)]
        ELSE [out |-> Signal(inst, a.port \o <<"offset">>), src |-> OffsetSource(conns, a.src.name)]
      carried == SelectSeq(args, Carried)
  IN IF ok THEN <<[i \in DOMAIN carried |-> Field(carried[i])]>> ELSE <<>>
-----------------------------------------------------------------------------
(* Routes *)

ControlRoutes(plan) == SelectSeq(plan.routes, LAMBDA r : r.kind = "Control")
RouteOf(plan, inst, chan) ==
  SelectSeq(ControlRoutes(plan), LAMBDA r : r.inst = inst /\ r.chan = chan)
Latency(route) == IF route = <<>> THEN 0 ELSE route[1].body + 2

\* take_expected_route and validate_route: a route exactly where two slots are
\* crossed, from the one to the other.
RouteExpected(plan, inst, chan, from, to) ==
  LET route == RouteOf(plan, inst, chan)
  IN IF from = to THEN route = <<>>
     ELSE /\ Len(route) = 1
          /\ Len(route[1].path) >= 2
          /\ route[1].path[1] = from /\ route[1].path[Len(route[1].path)] = to

\* plan_children and from_floorplan: long enough for a reset to reach every
\* child and its last completion, or the last word of a stream, to come back.
FlushCycles(plan, kids) ==
  LET reset == {Latency(RouteOf(plan, k, "Reset")) : k \in kids} \cup {0}
      data == {r.body + 2 : r \in {x \in Range(plan.routes) : x.kind # "Control"}} \cup {0}
  IN Max({Latency(RouteOf(plan, k, "Reset")) + Latency(RouteOf(plan, k, "Completion")) : k \in kids}
           \cup {Max(reset) + Max(data)})

\* child_placement_slot, and the three routes of a child.
ChildPlaced(plan, inst, autorun, global) ==
  /\ inst \in DOMAIN plan.regions /\ LocalController(inst) \in DOMAIN plan.regions
  /\ LET slot == plan.regions[inst]
         launch == RouteOf(plan, inst, "Launch")
     IN /\ slot # Spanning /\ plan.regions[LocalController(inst)] = slot
        /\ RouteExpected(plan, inst, "Launch", global, slot)
        /\ RouteExpected(plan, inst, "Reset", global, slot)
        /\ IF autorun THEN RouteOf(plan, inst, "Completion") = <<>>
           ELSE RouteExpected(plan, inst, "Completion", slot, global)
        /\ launch # <<>> => [launch[1] EXCEPT !.chan = "Reset"] = RouteOf(plan, inst, "Reset")[1]

\* validate_control_axi_placement
TopHasSAxi(st) == HasPort(st.rtl[st.design.top], AxiLite)
SAxiPlaced(st, plan) ==
  IF TopHasSAxi(st)
  THEN ControlSAxi \in DOMAIN plan.regions /\ plan.regions[ControlSAxi] = plan.regions[GlobalController]
  ELSE ControlSAxi \notin DOMAIN plan.regions
-----------------------------------------------------------------------------
(* Scopes *)

NoPlan == [error |-> "", children |-> <<>>, scopes |-> <<>>, root |-> <<>>, flush |-> 0]
Refused(error) == [NoPlan EXCEPT !.error = error]

\* validate_scope_inventory: generated names are unique, and the controllers of
\* a scope sit with the global one.
InventoryFits(st) ==
  LET Generated(o) == <<LocalController(o.global),
                        IF o.endpoint # <<>> THEN Sanitize(o.global) ELSE ScopeController(o.global)>>
      names == FlattenSeq([i \in 1..(Len(st.occ) - 1) |-> Generated(st.occ[i + 1])]) \o <<GlobalController>>
  IN /\ Cardinality(Range(names)) = Len(names)
     /\ st.plan # <<>> =>
          \A o \in Range(Tail(st.occ)) : o.endpoint = <<>> =>
            \A n \in Range(Generated(o)) :
              n \in DOMAIN st.plan[1].regions /\ GlobalController \in DOMAIN st.plan[1].regions
                /\ st.plan[1].regions[n] = st.plan[1].regions[GlobalController]

\* The completion signals of an occurrence: its children that are not autorun.
Completions(st, o) ==
  LET mine == SelectSeq([i \in DOMAIN st.occ |-> i],
                LAMBDA i : st.occ[i].parent = <<o>> /\ SourceInvocation(st.design, st.occ, i).step >= 0)
  IN [i \in DOMAIN mine |-> IsDone(st.occ[mine[i]].global)]

\* A binding in a scope is the register its owner forwards the formal in.
InScope(owner, arg) ==
  IF owner # <<>> /\ IsName(arg.src)
  THEN [arg EXCEPT !.src = Named(Sanitize(owner[1]) \o <<"">> \o Sanitize(arg.src.name))] ELSE arg

\* retain_scopes: every original invocation keeps its owner and its payload.
RetainScopes(st, plan, conns) ==
  LET Owner(o) == IF o.parent[1] = 1 THEN <<>> ELSE <<st.occ[o.parent[1]].global>>
      Retain(p, i) ==
        LET o == st.occ[i]
            call == SourceInvocation(st.design, st.occ, i)
            args == [k \in DOMAIN call.args |-> InScope(Owner(o), call.args[k])]
            fields == PayloadFields(st, o.source[1], o.global, args, conns)
            at == {k \in DOMAIN p.children : p.children[k].inst = o.global}
        IN CASE p.error # "" -> p
             [] p.error = "" /\ fields = <<>> -> Refused("InvalidFloorplan")
             [] OTHER ->
                  IF o.endpoint # <<>>
                  THEN IF at = {} THEN Refused("InvalidFloorplan")
                       ELSE [p EXCEPT !.children = [k \in DOMAIN @ |->
                               IF k \in at THEN [@[k] EXCEPT !.owner = Owner(o), !.fields = fields[1]]
                               ELSE @[k]]]
                  ELSE IF at # {} THEN Refused("InvalidFloorplan")
                  ELSE [p EXCEPT
                          !.children = Append(@, [inst |-> o.global, owner |-> Owner(o),
                             autorun |-> call.step < 0, registered |-> TRUE, fields |-> fields[1],
                             launch |-> <<>>, reset |-> <<>>, completion |-> <<>>]),
                          !.scopes = Append(@, [inst |-> o.global, done |-> Completions(st, i)])]
      kept == FoldLeft(Retain, plan, [i \in 1..(Len(st.occ) - 1) |-> i + 1])
  IN CASE plan.error # "" \/ st.occ = <<>> -> plan
       [] OTHER -> IF ~InventoryFits(st) THEN Refused("InvalidFloorplan")
                   ELSE IF kept.error # "" THEN kept
                   ELSE [kept EXCEPT !.root = <<Completions(st, 1)>>]
-----------------------------------------------------------------------------
\* supports_distributed_control
SupportsControl(st) ==
  LET top == TaskOf(st.design, st.design.top)
  IN top.level = "Upper" /\ top.synth # "Ignore" /\ top.insts # <<>> /\ st.design.top \in DOMAIN st.rtl

\* The children without their scopes; body(inst, chan) is the route of each.
FlatChildren(st, conns, plan) ==
  LET insts == TaskOf(st.graph, st.graph.top).insts
      Body(name, chan) ==
        LET r == IF plan = <<>> THEN <<>> ELSE RouteOf(plan[1], name, chan)
        IN IF r = <<>> THEN <<>> ELSE <<r[1].body>>
      Child(inst) ==
        LET name == CanonicalName(inst)
            fields == PayloadFields(st, inst.child, name, inst.args, conns)
        IN [inst |-> name, owner |-> <<>>, autorun |-> inst.step < 0, registered |-> FALSE,
            fields |-> IF fields = <<>> THEN <<>> ELSE fields[1], ok |-> fields # <<>>,
            launch |-> Body(name, "Launch"), reset |-> Body(name, "Reset"),
            completion |-> IF inst.step < 0 THEN <<>> ELSE Body(name, "Completion")]
  IN [i \in DOMAIN insts |-> Child(insts[i])]

\* plan_children: the children where a floorplan places and routes them all.
Realizable(st, plan, kids) ==
  LET names == {kids[i].inst : i \in DOMAIN kids}
      global == plan.regions[GlobalController]
  IN /\ SupportsControl(st)
     /\ SAxiPlaced(st, plan)
     /\ global # Spanning
     /\ Cardinality(names) = Len(kids)
     /\ \A r \in Range(ControlRoutes(plan)) : r.inst \in names
     /\ \A k \in Range(kids) : ChildPlaced(plan, k.inst, k.autorun, global)
WithChildren(st, kids) ==
  IF (\E k \in Range(kids) : ~k.ok) \/ (st.plan # <<>> /\ ~Realizable(st, st.plan[1], kids))
  THEN Refused("InvalidFloorplan")
  ELSE [NoPlan EXCEPT !.children = kids,
                      !.flush = IF st.plan = <<>> THEN 0
                                ELSE FlushCycles(st.plan[1], {kids[i].inst : i \in DOMAIN kids})]

\* DistributedControlPlan::from_floorplan: <<plan>>, or <<>> where each task has
\* an FSM of its own.
DistributedControl(st, conns) ==
  LET planned == st.plan # <<>>
      global == planned /\ GlobalController \in DOMAIN st.plan[1].regions
      lost == planned /\ ((st.occ # <<>> /\ SupportsControl(st)) \/ ControlRoutes(st.plan[1]) # <<>>)
  IN IF global \/ (~planned /\ st.occ # <<>>)
     THEN <<RetainScopes(st, WithChildren(st, FlatChildren(st, conns, st.plan)), conns)>>
     ELSE IF lost THEN <<Refused("InvalidFloorplan")>> ELSE <<>>
=============================================================================
