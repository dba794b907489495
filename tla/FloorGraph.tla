----------------------------- MODULE FloorGraph -----------------------------
(***************************************************************************)
(* The graph the floorplanner places (tapa-floorplan/src/graph): one vertex *)
(* per task instance of the flattened design, with the storage of its       *)
(* streams charged to the consumer; one terminal per memory bank; one       *)
(* global controller; and the directed nets between them.                   *)
(*                                                                          *)
(* A design is a record                                                     *)
(*   tasks   sequence of [name, rtl, defined, area, step, scalars, scalarOk,*)
(*           mmaps], mmaps a sequence of [port, top, kind, ok]              *)
(*   fifos   sequence of [name, depth (0: external), prod, cons, widths],   *)
(*           endpoints "none" when absent, widths the payload widths its    *)
(*           ends declare                                                   *)
(*   memory  sequence of [endpoint, bank, widths, bridge]                   *)
(*   control [active, anchor, sAxi, scopes]                                 *)
(* RTL names are pairs, the second the name they are generated from.        *)
(***************************************************************************)
EXTENDS FloorDevice, SequencesExt

AxiChannels == <<"ar", "r", "aw", "w", "b">>
IsRequest(ch) == ch \in {"ar", "aw", "w"}
MapSeq(f(_), s) == [i \in DOMAIN s |-> f(s[i])]

\* floor(log2(n)) of a positive n.
Log2(n) == CHOOSE k \in 0..31 : 2 ^ k <= n /\ n < 2 ^ (k + 1)

\* FIFO storage: distributed RAM below 128 entries, block RAM from there.
FifoArea(width, depth) ==
  LET log == 3 * Log2(IF depth = 0 THEN 1 ELSE depth)
      short == IF depth = 0 THEN 0 ELSE depth - 1
      count == depth \div 512 + 1
  IN  IF depth < 128
      THEN [lut |-> width + ((width * short) \div 16) + 15 + log, ff |-> 7 + log, bram |-> 0]
      ELSE [lut |-> width * count, ff |-> 0, bram |-> (width * count) \div 18]

\* A shallow FIFO of a floorplanned design keeps five spare entries.
FloorplannedDepth(depth) == IF depth <= 64 THEN depth + 5 ELSE depth
GraphErrors ==
  {"MissingTaskDef", "DuplicateCanonicalName", "SanitizedNameCollision", "UnresolvedFifoWidth",
   "FifoWidthMismatch", "DanglingFifoEndpoint", "UnanchoredFifo", "UnsupportedMemoryInterface",
   "DuplicateMemoryInterface", "MissingMemoryInterface", "UnknownMemoryInterface",
   "InvalidAxiWidth", "ScalarMetadata", "NameConflict", "GeneratedNameCollision"}
-----------------------------------------------------------------------------
(* Task vertices and streams.                                               *)

TaskNames(d) == {d.tasks[i].name : i \in DOMAIN d.tasks}
IndexOf(d, n) == CHOOSE i \in DOMAIN d.tasks : d.tasks[i].name = n

TaskError(d) ==
  FirstError(<<
    <<\E i \in DOMAIN d.tasks : ~d.tasks[i].defined, "MissingTaskDef">>,
    <<Cardinality(TaskNames(d)) # Len(d.tasks), "DuplicateCanonicalName">>,
    <<\E i, j \in DOMAIN d.tasks : i # j /\ d.tasks[i].rtl = d.tasks[j].rtl,
      "SanitizedNameCollision">> >>)

Internal(d) == SelectSeq(d.fifos, LAMBDA f : f.depth # 0)
InternalSet(d) == {Internal(d)[i] : i \in DOMAIN Internal(d)}

FifoError(d) ==
  FirstError(<<
    <<\E f \in InternalSet(d) : f.widths = {}, "UnresolvedFifoWidth">>,
    <<\E f \in InternalSet(d) : Cardinality(f.widths) > 1, "FifoWidthMismatch">>,
    <<\E f \in InternalSet(d) : {f.prod, f.cons} \ TaskNames(d) \notin {{}, {"none"}},
      "DanglingFifoEndpoint">>,
    <<\E f \in InternalSet(d) : f.prod = "none" /\ f.cons = "none", "UnanchoredFifo">> >>)

\* Payload plus the end-of-transaction bit; the wires add valid and ready.
DataWidth(f) == 1 + CHOOSE w \in f.widths : TRUE
\* Mutant: the producer hosts the storage of a stream.
HostMutant(d, f) == IndexOf(d, IF f.prod # "none" THEN f.prod ELSE f.cons)

\* The consumer hosts the storage, the producer that of a one-sided stream.
Host(d, f) == IndexOf(d, IF f.cons # "none" THEN f.cons ELSE f.prod)

TaskVertex(d, i) ==
  [name |-> d.tasks[i].name, tag |-> "none", materialize |-> TRUE,
   area |-> AddArea(d.tasks[i].area,
              SumAreas({f \in InternalSet(d) : Host(d, f) = i},
                       LAMBDA f : FifoArea(DataWidth(f), FloorplannedDepth(f.depth))))]

Streams(d) ==
  MapSeq(LAMBDA f : [kind |-> "stream", name |-> f.name, channel |-> "stream",
                     src |-> IndexOf(d, f.prod), dst |-> IndexOf(d, f.cons),
                     width |-> DataWidth(f) + 2, payload |-> DataWidth(f), depth |-> f.depth],
         SelectSeq(Internal(d), LAMBDA f : "none" \notin {f.prod, f.cons} /\ f.prod # f.cons))
-----------------------------------------------------------------------------
(* Memory interfaces.                                                       *)

\* The endpoints the children's mmap arguments call for.
ExpectedMemory(d) ==
  FlattenSeq(MapSeq(LAMBDA t : MapSeq(LAMBDA m : [inst |-> t.name, port |-> m.port, top |-> m.top],
                                      t.mmaps), d.tasks))
MmapOf(d, e) ==
  LET t == d.tasks[IndexOf(d, e.inst)]
  IN  t.mmaps[CHOOSE i \in DOMAIN t.mmaps : t.mmaps[i].port = e.port]
ExpectedSet(d) == {ExpectedMemory(d)[i] : i \in DOMAIN ExpectedMemory(d)}
ProvidedSet(d) == {d.memory[i].endpoint : i \in DOMAIN d.memory}
InterfaceOf(d, e) == d.memory[CHOOSE i \in DOMAIN d.memory : d.memory[i].endpoint = e]

\* A plain mmap exposes all five channels and has no bridge; an async one is
\* bridged under its stable name and may lack the read or the write half.
ShapeOk(d, e) ==
  LET m == InterfaceOf(d, e)
      on(ch) == m.widths[ch] # 0
  IN  /\ MmapOf(d, e).kind = "mmap" => m.bridge = "none"
      /\ m.bridge \in {"none", e.top}
      /\ on("ar") = on("r") /\ on("aw") = on("w") /\ on("aw") = on("b")
      /\ m.bridge = "none" => on("ar") /\ on("aw")

MemoryError(d) ==
  LET E == ExpectedMemory(d)
      bad == FirstError(<<
        <<\E i \in DOMAIN d.tasks : \E j \in DOMAIN d.tasks[i].mmaps : ~d.tasks[i].mmaps[j].ok,
          "UnsupportedMemoryInterface">>,
        <<\E i, j \in DOMAIN E : i # j /\ E[i].top = E[j].top, "UnsupportedMemoryInterface">>,
        <<Cardinality(ProvidedSet(d)) # Len(d.memory), "DuplicateMemoryInterface">>,
        <<ExpectedSet(d) \ ProvidedSet(d) # {}, "MissingMemoryInterface">>,
        <<ProvidedSet(d) \ ExpectedSet(d) # {}, "UnknownMemoryInterface">> >>)
  IN  IF bad # "ok" THEN bad
      ELSE FirstError(<<
        <<\E e \in ExpectedSet(d) : ~ShapeOk(d, e), "UnsupportedMemoryInterface">>,
        <<\E e \in ExpectedSet(d) : \E ch \in DOMAIN InterfaceOf(d, e).widths :
             InterfaceOf(d, e).widths[ch] \in {1, 2}, "InvalidAxiWidth">> >>)

Enabled(m) == SelectSeq(AxiChannels, LAMBDA ch : m.widths[ch] # 0)
\* The banks in the order their first interface is met, one terminal each.
Banks(d) ==
  LET all == MapSeq(LAMBDA e : InterfaceOf(d, e).bank,
                    SelectSeq(ExpectedMemory(d), LAMBDA e : Enabled(InterfaceOf(d, e)) # <<>>))
      first == {i \in DOMAIN all : \A j \in 1..(i - 1) : all[j] # all[i]}
  IN  MapSeq(LAMBDA i : all[i], SetToSortSeq(first, <))
Terminal(bank) == [name |-> bank, tag |-> bank, materialize |-> FALSE, area |-> ZeroArea]
TerminalIndex(d, bank) ==
  Len(d.tasks) + CHOOSE i \in DOMAIN Banks(d) : Banks(d)[i] = bank

\* Addresses and write data go to the bank, read data and responses come back.
AxiNetsOf(d, e) ==
  LET m == InterfaceOf(d, e)
      task == IndexOf(d, e.inst)
      bank == TerminalIndex(d, m.bank)
  IN  MapSeq(LAMBDA ch : [kind |-> "axi", name |-> e.top, channel |-> ch,
                          src |-> IF IsRequest(ch) THEN task ELSE bank,
                          dst |-> IF IsRequest(ch) THEN bank ELSE task,
                          width |-> m.widths[ch], payload |-> m.widths[ch] - 2, depth |-> 0],
             Enabled(m))
AxiNets(d) == FlattenSeq(MapSeq(LAMBDA e : AxiNetsOf(d, e), ExpectedMemory(d)))
-----------------------------------------------------------------------------
(* Distributed control.                                                     *)

Controller(d) == [name |-> "global", tag |-> d.control.anchor, materialize |-> TRUE,
                  area |-> ZeroArea]
ControllerIndex(d) == Len(d.tasks) + Len(Banks(d)) + 1

\* Start, and release unless the task is detached; the scalars; 64 bits of
\* offset for every mmap.
LaunchWidth(t) ==
  (IF t.step < 0 THEN 1 ELSE 2) + SumOver(DOMAIN t.scalars, LAMBDA i : t.scalars[i])
  + 64 * Len(t.mmaps)

ControlNet(name, ch, src, dst, width) ==
  [kind |-> "control", name |-> name, channel |-> ch, src |-> src, dst |-> dst,
   width |-> width, payload |-> width, depth |-> 0]
ControlNetsOf(d, i) ==
  LET t == d.tasks[i]
      g == ControllerIndex(d)
  IN  <<ControlNet(t.name, "launch", g, i, LaunchWidth(t)), ControlNet(t.name, "reset", g, i, 1)>>
      \o IF t.step >= 0 THEN <<ControlNet(t.name, "completion", i, g, 1)>> ELSE <<>>
ControlNets(d) ==
  IF d.control.active THEN FlattenSeq([i \in DOMAIN d.tasks |-> ControlNetsOf(d, i)]) ELSE <<>>

ControlError(d) ==
  FirstError(<<
    <<d.control.active /\ \E i \in DOMAIN d.tasks :
        ~d.tasks[i].scalarOk \/ \E j \in DOMAIN d.tasks[i].scalars : d.tasks[i].scalars[j] = 0,
      "ScalarMetadata">> >>)
-----------------------------------------------------------------------------
(* RTL names: everything placed or matched by the XDC owns its name alone.  *)

Bridged(d) == {e \in ExpectedSet(d) : InterfaceOf(d, e).bridge # "none"}
\* What is placed with a vertex, under its own RTL name.
CoLocated(d) ==
  {[name |-> <<"user", f.name>>, host |-> Host(d, f)] : f \in InternalSet(d)}
  \union {[name |-> <<"bridge", e.top>>, host |-> IndexOf(d, e.inst)] : e \in Bridged(d)}
  \union IF ~d.control.active THEN {} ELSE
       {[name |-> <<"local", d.tasks[i].name>>, host |-> i] : i \in DOMAIN d.tasks}
       \union {[name |-> <<k, s>>, host |-> ControllerIndex(d)] :
                 k \in {"scope", "local"}, s \in d.control.scopes}
       \union (IF d.control.sAxi THEN {[name |-> <<"s_axi", "">>, host |-> ControllerIndex(d)]}
               ELSE {})

\* The names of the design itself, each with the object that owns it.
Occupied(d) ==
  {<<d.tasks[i].rtl, <<"vertex", d.tasks[i].name>> >> : i \in DOMAIN d.tasks}
  \union {<<<<"user", d.tasks[i].name>>, <<"vertex", d.tasks[i].name>> >> : i \in DOMAIN d.tasks}
  \union {<<<<k, d.fifos[i].name>>, <<"stream", d.fifos[i].name>> >> :
            k \in {"user", "fifo"}, i \in DOMAIN d.fifos}

\* The names the code generator adds, in the order they are reserved.
Generated(d) ==
  MapSeq(LAMBDA n : <<"axi", n.name, n.channel>>, AxiNets(d))
  \o SetToSeq({<<"bridge", e.top>> : e \in Bridged(d)})
  \o IF ~d.control.active THEN <<>> ELSE
       <<<<"global", "">> >> \o (IF d.control.sAxi THEN <<<<"s_axi", "">> >> ELSE <<>>)
       \o MapSeq(LAMBDA t : <<"local", t.name>>, d.tasks)
       \o MapSeq(LAMBDA n : <<"control", n.name, n.channel>>, ControlNets(d))
       \o SetToSeq({"scope", "local"} \X d.control.scopes)

NameError(occupied, G) ==
  FirstError(<<
    <<\E c1, c2 \in occupied : c1[1] = c2[1] /\ c1[2] # c2[2], "NameConflict">>,
    <<\E i \in DOMAIN G : \/ \E c \in occupied : c[1] = G[i]
                         \/ \E j \in 1..(i - 1) : G[i] = G[j], "GeneratedNameCollision">> >>)

OrElse(err, next) == IF err # "ok" THEN err ELSE next
GraphError(d) ==
  OrElse(TaskError(d), OrElse(FifoError(d), OrElse(MemoryError(d),
    OrElse(ControlError(d), NameError(Occupied(d), Generated(d))))))

\* Both directions between two vertices, on one edge.
PlacementEdges(nets) ==
  LET Ordered(n) == IF n.src < n.dst THEN <<n.src, n.dst>> ELSE <<n.dst, n.src>>
      Pairs == {Ordered(nets[i]) : i \in DOMAIN nets}
      Directed(a, b) == SumOver({i \in DOMAIN nets : nets[i].src = a /\ nets[i].dst = b},
                                LAMBDA i : nets[i].width)
  IN  {[src |-> q[1], dst |-> q[2], forward |-> Directed(q[1], q[2]),
        reverse |-> Directed(q[2], q[1]),
        width |-> Directed(q[1], q[2]) + Directed(q[2], q[1])] : q \in Pairs}

BuildGraph(d) ==
  LET Built(err, nets) ==
        IF err # "ok" THEN [err |-> err]
        ELSE [err |-> "ok",
              vertices |-> [i \in DOMAIN d.tasks |-> TaskVertex(d, i)]
                           \o MapSeq(Terminal, Banks(d))
                           \o (IF d.control.active THEN <<Controller(d)>> ELSE <<>>),
              nets |-> nets,
              edges |-> PlacementEdges(nets),
              coLocated |-> CoLocated(d)]
  IN  Built(GraphError(d), Streams(d) \o AxiNets(d) \o ControlNets(d))
=============================================================================
