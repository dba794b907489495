---------------------------- MODULE MCToolchain -----------------------------
(***************************************************************************)
(* The toolchain for TLC: the commands over a work directory and the       *)
(* floorplanner that one of them calls.  The commands take its plan as it  *)
(* comes, so a behaviour is about one of the two (tool), and the other     *)
(* stays as it starts.                                                     *)
(*                                                                         *)
(* Projects: a design whose leaf is edited, the same design with an AI     *)
(* Engine task, and a leaf-only design for the HLS target; two parts on    *)
(* one platform; every way to reuse HLS results.  Problems: small devices  *)
(* and designs that make every pass, error and rejection of the            *)
(* floorplanner happen.                                                    *)
(***************************************************************************)
EXTENDS CompileFlow, Floorplanner

Port(name, cat) == [name |-> name, cat |-> cat, chan |-> {}]
Graph(id, target, tasks, upper, aie) ==
  [id |-> id, target |-> target, top |-> "Top", tasks |-> tasks, upper |-> upper,
   synth |-> [t \in tasks |-> IF t \in aie THEN "aie" ELSE "hls"],
   srcs |-> [t \in tasks |-> {t}],
   ports |-> [t \in tasks |-> IF t = "Top" THEN {Port("n", "scalar"), Port("a", "mmap")}
                              ELSE {Port("q", "istream")}],
   plio |-> {Port("plio", "ostream")}, bases |-> {<<"a", "", 0>>},
   kids |-> tasks \ {"Top"}, flags |-> "O2", control |-> aie # {}]
Program(g, version) ==
  [graph |-> g, flatten |-> FALSE,
   tree |-> [owned |-> g.tasks,
             files |-> [t \in g.tasks |-> version]]]

Plain == Program(Graph("plain", "vitis", {"Top", "Leaf"}, {"Top"}, {}), 1)
Single(v) == Program(Graph("single", "vitis", {"Top"}, {"Top"}, {}), v)
Hybrid == Program(Graph("hybrid", "vitis", {"Top", "Eng"}, {"Top"}, {"Eng"}), 1)
Streaming == [Hybrid EXCEPT !.graph.control = FALSE]
LeafOnly == Program(Graph("leaf", "hls", {"Top"}, {}, {}), 1)

Args(part, reuse) ==
  [platform |-> {"u55c"}, part |-> {part}, clock |-> {}, mtime |-> reuse \in {"iffresh", "required"},
   required |-> reuse = "required", fixtures |-> reuse = "fixtures",
   skipAie |-> FALSE, aieOnly |-> FALSE, util |-> FALSE]
Skip(args) == [args EXCEPT !.skipAie = TRUE]
Only(args) == [args EXCEPT !.aieOnly = TRUE]
Util(args) == [args EXCEPT !.util = TRUE]

Project(programs, synth) ==
  [programs |-> programs, synth |-> synth, options |-> {}, dse |-> FALSE, pack |-> {},
   link |-> {}, aiesim |-> {}]
LinkDefault == [mhz |-> {}, sim |-> FALSE, connectivity |-> FALSE]

\* HLS reuse over edits and device changes; concurrent HLS jobs; plans,
\* implementations and packages of one design; a design that loses and regains
\* its AI Engine graph; rebuilds and simulations of that graph; archives.
MCProjects ==
  {Project({Single(1), Single(2)}, {Args("p1", "iffresh")}),
   Project({Single(1)}, {Args("p1", "iffresh"), Args("p2", "iffresh")}),
   Project({Single(1)}, {Args("p1", "never"), Args("p1", "required"), Args("p1", "fixtures")}),
   Project({Plain}, {Args("p1", "iffresh")}),
   [Project({Single(1)}, {Args("p1", "iffresh")}) EXCEPT !.options = {0}, !.dse = TRUE],
   [Project({Single(1)}, {Args("p1", "iffresh")}) EXCEPT !.options = {0}, !.pack = {FALSE}],
   [Project({Streaming}, {Args("p1", "iffresh"), Skip(Args("p1", "required"))}) EXCEPT !.pack = {FALSE}],
   [Project({Hybrid}, {Args("p1", "iffresh")}) EXCEPT !.pack = {FALSE}, !.link = {LinkDefault}],
   [Project({Single(1)}, {Args("p1", "iffresh")}) EXCEPT !.pack = BOOLEAN, !.link = {LinkDefault}],
   [Project({Hybrid}, {Args("p1", "iffresh"), Only(Args("p2", "never"))}) EXCEPT !.pack = {FALSE}],
   [Project({Hybrid}, {Skip(Args("p1", "iffresh")), Only(Args("p1", "never"))}) EXCEPT
      !.aiesim = BOOLEAN],
   [Project({LeafOnly}, {Util(Args("p1", "iffresh"))}) EXCEPT !.pack = BOOLEAN]}
\* Utilization measured for one part, with a synthesis for the other to follow.
MCUtilProjects == {Project({Plain}, {Util(Args("p1", "iffresh")), Util(Args("p2", "iffresh"))})}

MCSlashShells == [s \in {"v80"} |-> [part |-> "p3", clock |-> 3000]]
MCVitisPlatforms == [s \in {"u55c"} |-> [part |-> "p1", clock |-> 3333]]
MCFmaxValues == {0, 300}
-----------------------------------------------------------------------------
A(l, f, b) == [lut |-> l, ff |-> f, bram |-> b]
Caps(n) == [north |-> n, south |-> n, east |-> n, west |-> n]
Device(key, cols, rows, area, wires, tags, ceiling) ==
  [key |-> key, part |-> "xc" , family |-> "fam", cols |-> cols, rows |-> rows,
   platform |-> "plat", planned |-> Resources, ceiling |-> ceiling, placement |-> "pblock",
   clip |-> "none", anchors |-> <<>>,
   slots |-> [i \in 1..(cols * rows) |->
     LET x == (i - 1) % cols
         y == (i - 1) \div cols
     IN  [x |-> x, y |-> y, area |-> area, centroid |-> <<UNIT_DIST_X * x, UNIT_DIST_Y * y>>,
          cap |-> Caps(wires), tags |-> IF i \in DOMAIN tags THEN tags[i] ELSE {},
          ranges |-> {"ok"}]]]

Task(n, area) ==
  [name |-> n, rtl |-> <<"user", n>>, defined |-> TRUE, area |-> area, step |-> 0,
   scalars |-> <<>>, scalarOk |-> TRUE, mmaps |-> <<>>]
Fifo(n, p, c, depth) == [name |-> n, depth |-> depth, prod |-> p, cons |-> c, widths |-> {1}]
NoControl == [active |-> FALSE, anchor |-> "none", sAxi |-> FALSE, scopes |-> {}]
Design(tasks, fifos) == [tasks |-> tasks, fifos |-> fifos, memory |-> <<>>, control |-> NoControl]
OnePlan == [min |-> 0, max |-> 0, step |-> 0]
Problem(design, device, lim, strategy, scheme, sweep) ==
  [design |-> design, tables |-> <<device>>, part |-> "xc", platform |-> "plat", limit |-> lim,
   strategy |-> strategy, scheme |-> scheme, opts |-> [seconds |-> 600, threads |-> 1], sweep |-> sweep]

\* Two slots per row: three tasks fit one row's area and not its two slots.
Square == Device("square", 2, 2, A(100, 100, 10), 20, <<>>, 83)
Chain == Design(<<Task("a", A(30, 10, 0)), Task("b", A(30, 10, 2)), Task("c", A(30, 10, 0))>>,
                <<Fifo("ab", "a", "b", 2), Fifo("bc", "b", "c", 2)>>)
\* Two tasks too large to share a slot, in both directions.
Pair == Design(<<Task("a", A(60, 20, 0)), Task("b", A(60, 20, 0))>>,
               <<Fifo("ab", "a", "b", 2), Fifo("ba", "b", "a", 2)>>)
Duo == Device("duo", 1, 2, A(100, 100, 10), 20, <<>>, 0)
\* Too few wires between the slots for both streams.
Narrow == Device("narrow", 1, 2, A(100, 100, 10), 8, <<>>, 0)
\* A routed Tail that grows into block RAM, in slots short of flip-flops.
Tower == Device("tower", 1, 2, A(100, 40, 10), WIRE_CAPACITY_INF, <<>>, 90)
Deep == Design(<<Task("a", A(60, 5, 0)), Task("b", A(40, 10, 0))>>, <<Fifo("ab", "a", "b", 120)>>)
\* One row of two slots whose block RAM the tasks share out exactly.
Wide == Device("wide", 2, 1, A(100, 100, 10), 20, <<>>, 83)
Blocks == Design(<<Task("a", A(20, 10, 8)), Task("b", A(20, 10, 8))>>, <<Fifo("ab", "a", "b", 2)>>)
\* A bank in one slot and the control interface in another.
Banked == Device("banked", 2, 2, A(120, 240, 10), 400,
                 [i \in {2, 3} |-> IF i = 2 THEN {"HBM"} ELSE {"S_AXI_CONTROL"}], 0)
Widths == [ar |-> 5, r |-> 6, aw |-> 0, w |-> 0, b |-> 0]
Kernel ==
  [tasks |-> <<[Task("a", A(60, 20, 0)) EXCEPT
                  !.scalars = <<8>>, !.mmaps = <<[port |-> "m", top |-> "m", kind |-> "async", ok |-> TRUE]>>],
               [Task("b", A(60, 20, 4)) EXCEPT !.step = -1]>>,
   fifos |-> <<Fifo("ab", "a", "b", 2), Fifo("ext", "none", "a", 0), Fifo("self", "b", "b", 3)>>,
   memory |-> <<[endpoint |-> [inst |-> "a", port |-> "m", top |-> "m"], bank |-> "HBM",
                 widths |-> Widths, bridge |-> "m"]>>,
   control |-> [active |-> TRUE, anchor |-> "none", sAxi |-> TRUE, scopes |-> {"s"}]]

PlanProblems ==
  {[Problem(Pair, Duo, 90, "flat", "double", OnePlan) EXCEPT !.design.tasks[2].rtl = <<"fifo", "a">>],
   Problem(Chain, Square, 76, "flat", "double", OnePlan),
   Problem(Chain, Square, 71, "multilevel", "single_h_double_v", OnePlan),
   Problem(Pair, Square, 72, "auto", "single_h_double_v", OnePlan),
   Problem(Pair, Square, 80, "multilevel", "single", OnePlan),
   Problem(Kernel, Banked, 70, "multilevel", "double", OnePlan),
   Problem(Blocks, Wide, 71, "multilevel", "double", OnePlan),
   Problem(Pair, Narrow, 90, "flat", "double", OnePlan),
   Problem(Deep, Tower, 90, "flat", "double", OnePlan)}
SweepProblems ==
  {Problem(Chain, Square, 0, "multilevel", "double", [min |-> 70, max |-> 76, step |-> 6]),
   Problem(Pair, Square, 0, "multilevel", "double", [min |-> 68, max |-> 84, step |-> 12]),
   Problem(Pair, Duo, 0, "flat", "single_h_double_v", [min |-> 40, max |-> 96, step |-> 3]),
   Problem(Deep, Tower, 0, "flat", "double", [min |-> 80, max |-> 100, step |-> 5])}
\* Inputs that are rejected before anything is placed.
Good == Problem(Chain, Square, 76, "flat", "double", OnePlan)
BadProblems ==
  {[Good EXCEPT !.part = "none"], [Good EXCEPT !.part = "other"], [Good EXCEPT !.limit = 101],
   [Good EXCEPT !.opts.threads = 0], [Good EXCEPT !.design.fifos[1].name = "a"],
   [Good EXCEPT !.tables[1].slots[2].x = 0], [Good EXCEPT !.tables[1].slots[4].centroid = <<1, 1>>],
   [Good EXCEPT !.tables[1].ceiling = 50],
   [Good EXCEPT !.design.tasks[2].name = "a"], [Good EXCEPT !.design.fifos[1].widths = {1, 2}],
   [Good EXCEPT !.design.fifos[1].prod = "z"],
   [Problem(Kernel, Banked, 70, "flat", "double", OnePlan) EXCEPT !.platform = "none"],
   [Problem(Kernel, Banked, 70, "flat", "double", OnePlan) EXCEPT !.tables[1].slots[1].tags = {"HBM"}],
   [Problem(Kernel, Banked, 70, "flat", "double", OnePlan) EXCEPT !.tables[1].slots[2].tags = {}],
   [Problem(Kernel, Banked, 70, "flat", "double", OnePlan) EXCEPT !.design.memory[1].widths["r"] = 0],
   [Problem(Kernel, Banked, 70, "flat", "double", OnePlan) EXCEPT !.design.tasks[1].rtl = <<"global", "">>]}

NoPart == [Good EXCEPT !.part = "none"]
MCNoProblem == {NoPart}
MCProblems == PlanProblems \union SweepProblems \union BadProblems
-----------------------------------------------------------------------------
VARIABLE tool
mcVars == <<tool, vars, planVars>>

MCInit ==
  /\ tool \in {"tapa", "floorplanner"}
  /\ Init /\ PlanInit
  /\ tool = "tapa" => pb = NoPart
  /\ tool = "floorplanner" => project = CHOOSE q \in Projects : TRUE

MCNext ==
  \/ tool = "tapa" /\ Next /\ UNCHANGED <<tool, planVars>>
  \/ tool = "floorplanner" /\ PlanNext /\ UNCHANGED <<tool, vars>>

MCSpec == MCInit /\ [][MCNext]_mcVars
=============================================================================
