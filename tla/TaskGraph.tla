------------------------------ MODULE TaskGraph ------------------------------
(***************************************************************************)
(* The task graph (tapa-ir): its boundary checks (graph.rs, instance.rs,   *)
(* port.rs) and the transform that lifts every leaf instance under the top *)
(* task (transforms.rs).                                                   *)
(*                                                                         *)
(* A name is the sequence of its parts between underscores, so that joining*)
(* two names with an underscore is \o and two different paths may meet in  *)
(* one name, as they may in the code; an array lane is a part "[i]".  A    *)
(* graph is [version, top, target, tasks], its tasks in the order of the   *)
(* BTreeMap; a task [name, level, synth, ports, insts, fifos], where insts *)
(* lists the instances by child and index.  An optional value is a         *)
(* sequence of at most one element.                                        *)
(***************************************************************************)
EXTENDS Integers, Sequences, FiniteSets, SequencesExt

SchemaVersion == 3
Digit == <<"0", "1", "2", "3", "4", "5", "6", "7">>
Lane == <<"[0]", "[1]", "[2]", "[3]", "[4]", "[5]", "[6]", "[7]">>

\* The first element of s that satisfies Test, if any.
FirstThat(s, Test(_)) ==
  LET hits == SelectSeq(s, Test) IN IF hits = <<>> THEN <<>> ELSE <<hits[1]>>

TaskNames(graph) == {graph.tasks[i].name : i \in DOMAIN graph.tasks}
TaskOf(graph, name) == FirstThat(graph.tasks, LAMBDA t : t.name = name)[1]
FifoOf(task, name) == FirstThat(task.fifos, LAMBDA f : f.name = name)
InstanceOf(task, child, index) ==
  FirstThat(task.insts, LAMBDA i : i.child = child /\ i.index = index)

IsName(src) == "name" \in DOMAIN src
Named(n) == [name |-> n]
Bound(arg, name) == IsName(arg.src) /\ arg.src.name = name

IsInputStream(cat) == cat \in {"Istream", "Istreams"}
IsOutputStream(cat) == cat \in {"Ostream", "Ostreams"}
IsStream(cat) == IsInputStream(cat) \/ IsOutputStream(cat)
IsMmapLike(cat) == cat \in {"Mmap", "AsyncMmap", "Immap", "Ommap"}

\* TaskInstance::canonical_name
CanonicalName(inst) ==
  IF inst.name = <<>> THEN inst.child \o <<Digit[inst.index + 1]>> ELSE inst.name[1]

\* sanitize_array_name and sanitize_identifier_name: a lane becomes a part.
LaneAt(name) == {i \in DOMAIN name : name[i] \in Range(Lane)}
LaneIndex(part) == CHOOSE k \in DOMAIN Lane : Lane[k] = part
Sanitize(name) ==
  [i \in DOMAIN name |-> IF i \in LaneAt(name) THEN Digit[LaneIndex(name[i])] ELSE name[i]]

\* split_array_index
HasLane(name) == LaneAt(name) # {}
FirstLane(name) == CHOOSE i \in LaneAt(name) : \A j \in LaneAt(name) : i <= j
Base(name) == SubSeq(name, 1, FirstLane(name) - 1)

\* Task::port: the exact declaration before that of the array.
PortOf(task, name) ==
  LET exact == FirstThat(task.ports, LAMBDA p : p.name = name)
  IN IF exact # <<>> \/ ~HasLane(name) THEN exact
     ELSE FirstThat(task.ports, LAMBDA p : Base(name) # <<>> /\ p.name = Base(name))
-----------------------------------------------------------------------------
(* The boundary *)

\* WireValue::is_valid
ValidWire(v) == v.width \in 1..64 /\ v.value < 2^v.width

\* validate_literals: a constant is valid and bound to a declared scalar port.
ValidLiterals(graph) ==
  \A t \in Range(graph.tasks) : \A inst \in Range(t.insts) : \A arg \in Range(inst.args) :
    ~IsName(arg.src) =>
      /\ ValidWire(arg.src.lit)
      /\ arg.cat = "Scalar"
      /\ inst.child \in TaskNames(graph)
      /\ \E p \in Range(TaskOf(graph, inst.child).ports) : p.name = arg.port /\ p.cat = "Scalar"

\* validate, run on both the frontend's graph and the persisted one
ValidGraph(graph) == graph.version = SchemaVersion /\ ValidLiterals(graph)

\* MemoryGeometry::new
ValidGeometry(width, count, bytes) ==
  /\ width > 0 /\ width % 8 = 0
  /\ (count = <<>>) <=> (bytes = <<>>)
  /\ count # <<>> => count[1] > 0 /\ \E k \in 0..64 : bytes[1] = 2^k
-----------------------------------------------------------------------------
(* Flattening *)

ShouldMaterialize(fifo, top) == top \/ fifo.depth # <<>>

\* offset_array_binding
OffsetBinding(bound, lane) ==
  IF HasLane(bound)
  THEN [bound EXCEPT ![FirstLane(bound)] = Lane[LaneIndex(bound[FirstLane(bound)]) + lane - 1]]
  ELSE Append(bound, Lane[lane])

\* resolve_scoped_arg: a FIFO of this scope, then the caller's binding of the
\* port, then the lane of a bound array, then the name itself.
ResolveScopedArg(name, fifos, bindings) ==
  LET base == Base(name)
      lane == LaneIndex(name[FirstLane(name)])
      indexed == HasLane(name) /\ FirstLane(name) = Len(name)
  IN CASE name \in DOMAIN fifos -> Named(fifos[name])
       [] name \notin DOMAIN fifos /\ name \in DOMAIN bindings -> bindings[name]
       [] OTHER ->
            IF indexed /\ base \in DOMAIN bindings /\ IsName(bindings[base])
            THEN Named(OffsetBinding(bindings[base].name, lane))
            ELSE IF indexed /\ base \in DOMAIN fifos
                 THEN Named(OffsetBinding(fifos[base], lane))
                 ELSE Named(name)

\* The bindings an upper instance hands to its scope, constants included.
ChildBindings(args) ==
  [p \in {args[i].port : i \in DOMAIN args} |-> (CHOOSE a \in Range(args) : a.port = p).src]

LeafName(name, scope, top) == IF name = <<>> \/ top THEN name ELSE <<name[1] \o scope>>

\* push_leaf
PushLeaf(acc, owner, inst, leaf) ==
  LET index == Cardinality({i \in DOMAIN acc.leaves : acc.leaves[i].child = inst.child})
      placed == [leaf EXCEPT !.index = index]
  IN [acc EXCEPT
        !.leaves = Append(@, placed),
        !.occurrences = Append(@, [parent |-> <<owner>>, source |-> <<inst.child, inst.index>>,
                                   global |-> CanonicalName(placed),
                                   endpoint |-> <<inst.child, index>>])]

RegisterFifo(acc, fifo, global) ==
  IF \E f \in Range(acc.fifos) : f.name = global
  THEN [acc EXCEPT !.error = "FifoNameCollision"]
  ELSE [acc EXCEPT !.fifos = Append(@, [fifo EXCEPT !.name = global])]

\* collect_leaves_recursive
RECURSIVE CollectLeaves(_, _, _, _, _, _)
CollectLeaves(graph, task, scope, bindings, owner, start) ==
  LET def == TaskOf(graph, task)
      top == task = graph.top /\ scope = graph.top
      kept == SelectSeq(def.fifos, LAMBDA f : ShouldMaterialize(f, top))
      Global(f) == IF f.depth = <<>> THEN f.name ELSE f.name \o scope
      fifos == [n \in {kept[i].name : i \in DOMAIN kept} |-> Global(FifoOf(def, n)[1])]
      Resolve(arg) ==
        IF IsName(arg.src)
        THEN [arg EXCEPT !.src = ResolveScopedArg(arg.src.name, fifos, bindings)] ELSE arg
      Visit(acc, inst) ==
        LET args == [i \in DOMAIN inst.args |-> Resolve(inst.args[i])]
            below == CanonicalName(inst) \o scope
        IN CASE acc.error # "" -> acc
             [] acc.error = "" /\ inst.child \notin TaskNames(graph) ->
                  [acc EXCEPT !.error = "MissingTop"]
             [] OTHER ->
                  IF TaskOf(graph, inst.child).level = "Lower"
                  THEN PushLeaf(acc, owner, inst,
                         [inst EXCEPT !.name = LeafName(inst.name, scope, top), !.args = args])
                  ELSE CollectLeaves(graph, inst.child, below, ChildBindings(args),
                         Len(acc.occurrences) + 1,
                         [acc EXCEPT !.occurrences = Append(@,
                            [parent |-> <<owner>>, source |-> <<inst.child, inst.index>>,
                             global |-> below, endpoint |-> <<>>])])
      walked == FoldLeft(Visit, start, def.insts)
  IN FoldLeft(LAMBDA acc, f : IF acc.error # "" THEN acc ELSE RegisterFifo(acc, f, Global(f)),
              walked, kept)

\* The leaves by task and index.
ByTask(graph, leaves) ==
  FlattenSeq([i \in DOMAIN graph.tasks |->
                SelectSeq(leaves, LAMBDA l : l.child = graph.tasks[i].name)])

\* Mutant: any stream argument is an endpoint.
RoleMatchesMutant(role, cat) == IsStream(cat)
\* EndpointRole::matches
RoleMatches(role, cat) == IF role = "Consumer" THEN IsInputStream(cat) ELSE IsOutputStream(cat)

\* find_endpoint: the first leaf that binds the FIFO in this role.
FindEndpoint(leaves, fifo, role) ==
  LET hit == FirstThat(leaves,
               LAMBDA l : \E a \in Range(l.args) : Bound(a, fifo) /\ RoleMatches(role, a.cat))
  IN IF hit = <<>> THEN <<>> ELSE <<hit[1].child, hit[1].index>>

\* The graph with the leaves under its top, and the tasks they need.
FlatGraph(graph, fifos, leaves) ==
  LET Resolved(f) ==
        [f EXCEPT !.cons = IF f.cons = <<>> THEN @ ELSE FindEndpoint(leaves, f.name, "Consumer"),
                  !.prod = IF f.prod = <<>> THEN @ ELSE FindEndpoint(leaves, f.name, "Producer")]
      Kept(t) ==
        IF t.name = graph.top
        THEN <<[t EXCEPT !.insts = leaves, !.fifos = [k \in DOMAIN fifos |-> Resolved(fifos[k])]]>>
        ELSE IF \E l \in Range(leaves) : l.child = t.name THEN <<t>> ELSE <<>>
  IN [graph EXCEPT !.tasks = FlattenSeq([i \in DOMAIN graph.tasks |-> Kept(graph.tasks[i])])]
Flattened(graph, all) ==
  IF all.error # "" THEN [error |-> all.error, flat |-> graph, occurrences |-> <<>>]
  ELSE [error |-> "", occurrences |-> all.occurrences,
        flat |-> FlatGraph(graph, all.fifos, ByTask(graph, all.leaves))]

\* flatten_with_origins: [error, flat, occurrences]; occurrence 1 is the top.
FlattenWithOrigins(graph) ==
  LET top == TaskOf(graph, graph.top)
      root == [parent |-> <<>>, source |-> <<>>, global |-> graph.top, endpoint |-> <<>>]
      Fail(e) == [error |-> e, flat |-> graph, occurrences |-> <<>>]
  IN CASE graph.top \notin TaskNames(graph) -> Fail("MissingTop")
       [] graph.top \in TaskNames(graph) /\ top.level = "Lower" -> Fail("TopIsLeaf")
       [] OTHER ->
            Flattened(graph, CollectLeaves(graph, graph.top, graph.top, <<>>, 1,
              [error |-> "", leaves |-> <<>>, fifos |-> <<>>, occurrences |-> <<root>>]))

\* source_task and source_invocation
SourceTask(graph, occurrences, o) ==
  TaskOf(graph, IF occurrences[o].source = <<>> THEN graph.top ELSE occurrences[o].source[1])
SourceInvocation(graph, occurrences, o) ==
  InstanceOf(SourceTask(graph, occurrences, occurrences[o].parent[1]),
             occurrences[o].source[1], occurrences[o].source[2])[1]
=============================================================================
