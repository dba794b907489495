---------------------------- MODULE Floorplanner ----------------------------
(***************************************************************************)
(* `tapa floorplan`: one plan (tapa-floorplan/src/plan/mod.rs) or a sweep    *)
(* over utilization caps (dse.rs).  A plan prepares the device and the       *)
(* graph, places (partition/ilp.rs: flat, or rows first and then the slots   *)
(* within them), routes, realizes the usage and publishes the regions.       *)
(*                                                                           *)
(* Every solve is one run of cbc as module FloorPlacement describes it.      *)
(***************************************************************************)
EXTENDS Ladder, FloorRouting

CONSTANT Problems
  \* inputs: [design, tables, part, platform, limit, strategy, scheme, opts, sweep],
  \* opts = [seconds, threads], sweep = [min, max, step] or step 0 for one plan

PlanErrors ==
  {"InvalidOptions", "NoPartNum", "PlatformRequired", "PlatformMismatch", "BankTag", "ControlTag"}
  \union DeviceErrors \union GraphErrors \union IlpErrors \union RouteErrors \union PipelineErrors
  \union XdcErrors

CONTROL_TAGS == [sAxi |-> "S_AXI_CONTROL", plain |-> "CLK_RST"]
BLOCK_MARGIN == 10             \* percent more of the hard blocks, multi-level sweeps
ADAPTIVE_MARGIN == 1

VARIABLES
  pb,       \* the problem of this behaviour
  phase,    \* prepare, place, refine, route, realize, attempted, done
  dev, graph,
  cfg,      \* limits of the current attempt: [base, ceiling, block]
  pass,     \* flat, rows, parented, free
  base,     \* first rung of the pass
  search,   \* the ladder search of the pass
  placed,   \* the incumbent of the lowest rung that placed
  parents,  \* the rows' placement
  limit,    \* the limit the pass settled at
  routes,   \* the published routes
  usage,    \* realized usage of every slot
  regions,  \* published regions: RTL name to slot
  verdict,  \* ok or the error of the attempt
  exact,    \* did both solves of the placement reach their optimum
  cap,      \* sweep: the current cap
  swept     \* sweep: attempts so far, [cap, verdict, regions]
planVars == <<pb, phase, dev, graph, cfg, pass, base, search, placed, parents, limit, routes, usage,
          regions, verdict, exact, cap, swept>>

Sweeping == pb.sweep.step # 0
Strategy == ResolveStrategy(pb.strategy, dev, Cardinality(graph.edges))

PlanInit ==
  /\ pb \in Problems
  /\ phase = "prepare"
  /\ dev = [key |-> "none"] /\ graph = [err |-> "none"]
  /\ cfg = [base |-> 0, ceiling |-> 0, block |-> 0]
  /\ pass = "flat" /\ base = 0 /\ search = LadderStart
  /\ placed = <<>> /\ parents = <<>> /\ limit = 0
  /\ routes = <<>> /\ usage = <<>> /\ regions = <<>>
  /\ verdict = "ok" /\ exact = TRUE
  /\ cap = pb.sweep.max /\ swept = <<>>
-----------------------------------------------------------------------------
(* Preparation, once per attempt with the same outcome.                      *)

SweepOptionsError ==
  {pb.sweep.min, pb.sweep.max, pb.sweep.step} \ 1..100 # {} \/ pb.sweep.min > pb.sweep.max
OptionsError ==
  FirstError(<<
    <<OptsError(pb.opts) # "ok", "InvalidOptions">>,
    <<~Sweeping /\ pb.limit \notin 1..100, "InvalidOptions">>,
    <<Sweeping /\ SweepOptionsError, "InvalidOptions">> >>)

MemoryBanks == {pb.design.memory[i].bank : i \in DOMAIN pb.design.memory}
ControlTag == IF pb.design.control.sAxi THEN CONTROL_TAGS.sAxi ELSE CONTROL_TAGS.plain
PlatformError(d) ==
  FirstError(<<
    <<MemoryBanks # {} /\ d.platform # "none" /\ pb.platform = "none", "PlatformRequired">>,
    <<MemoryBanks # {} /\ d.platform # "none" /\ pb.platform # d.platform, "PlatformMismatch">>,
    <<\E b \in MemoryBanks : Cardinality(SlotsWithTag(d, b)) # 1, "BankTag">>,
    <<pb.design.control.active /\ Cardinality(SlotsWithTag(d, ControlTag)) > 1, "ControlTag">> >>)
\* The design with the slot tag its controller is anchored at.
Anchored(d) ==
  [pb.design EXCEPT !.control.anchor = IF SlotsWithTag(d, ControlTag) = {} THEN "none" ELSE ControlTag]

\* The error of a selected device, and of the graph built for it.
DeviceError(sel) == IF sel.err # "ok" THEN sel.err ELSE PlatformError(sel.device)
PrepareError(sel) ==
  OrElse(OptionsError, IF pb.part = "none" THEN "NoPartNum" ELSE DeviceError(sel))
GraphFor(sel, err) == IF err # "ok" THEN [err |-> err] ELSE BuildGraph(Anchored(sel.device))

\* The ceiling of the retries: the table's, or 95% or the limit if higher.
RetryCeiling(d) ==
  IF d.ceiling # 0 THEN d.ceiling
  ELSE IF pb.limit > MAX_USAGE_LIMIT THEN pb.limit ELSE MAX_USAGE_LIMIT

\* The limits of an attempt: one rung per cap in a sweep, with a margin for
\* the hard blocks when the placement is multi-level.
BlockCap(strategy, c) ==
  IF strategy # "multilevel" THEN c ELSE IF c + BLOCK_MARGIN < 100 THEN c + BLOCK_MARGIN ELSE 100
ConfigFor(d, strategy) ==
  IF Sweeping
  THEN [base |-> cap, ceiling |-> cap,
        block |-> IF strategy = "multilevel" THEN BlockCap(strategy, cap) ELSE 0]
  ELSE [base |-> pb.limit, ceiling |-> RetryCeiling(d), block |-> 0]

Prepare ==
  /\ phase = "prepare"
  /\ \E sel \in {SelectDevice(pb.tables, pb.part)} : \E g \in {GraphFor(sel, PrepareError(sel))} :
       IF g.err # "ok"
       THEN /\ verdict' = g.err /\ phase' = "done"
            /\ UNCHANGED <<dev, graph, cfg, pass, base>>
       ELSE \E strategy \in {ResolveStrategy(pb.strategy, sel.device, Cardinality(g.edges))} :
            \E c \in {ConfigFor(sel.device, strategy)} :
              /\ dev' = sel.device /\ graph' = g /\ cfg' = c /\ base' = c.base
              /\ pass' = IF strategy = "flat" THEN "flat" ELSE "rows"
              /\ verdict' = ConfigError(c)
              /\ phase' = IF ConfigError(c) = "ok" THEN "place" ELSE "done"
  /\ search' = LadderStart /\ placed' = <<>> /\ parents' = <<>> /\ limit' = 0
  /\ routes' = <<>> /\ usage' = <<>> /\ regions' = <<>> /\ exact' = TRUE
  /\ UNCHANGED <<pb, cap, swept>>
-----------------------------------------------------------------------------
(* Placement.                                                                *)

PassRegions(ps) == IF ps = "rows" THEN RowRegions(dev) ELSE AtomicRegions(dev)
PassParents(ps) == IF ps = "parented" THEN parents ELSE <<>>
PlacementsAt(ps, l) == Placements(dev, graph, cfg, l, PassRegions(ps), PassParents(ps))
DomainErrorAt(ps, l) == DomainError(dev, graph, cfg, l, PassRegions(ps), PassParents(ps))
LastRung == LadderLast(base, cfg.ceiling)
RungLimit(i) == LadderRung(base, cfg.ceiling, i)

\* The solver's answers for a rung whose domains are not empty.
ProbeOutcomes(l) ==
  LET first == FirstCandidates(dev, graph, cfg, l, PassRegions(pass), PassParents(pass))
      Answers(S) == {Solve(S, pb.opts, run) : run \in CbcRuns(S, Optima(dev, graph, S), {first})}
  IN  Answers(PlacementsAt(pass, l))

Probing == phase = "place" /\ search.mode \notin {"settled", "infeasible"}
ProbedLimit == RungLimit(Rung(search, LastRung))

\* A rung places: the incumbent is kept, optimal or not.
ProbePlaced ==
  /\ Probing /\ DomainErrorAt(pass, ProbedLimit) = "ok"
  /\ \E out \in ProbeOutcomes(ProbedLimit) :
       /\ IsFound(out.status)
       /\ placed' = out.point /\ exact' = (out.status = "Optimal")
  /\ limit' = ProbedLimit
  /\ search' = AfterPlaced(search, LastRung)
  /\ phase' = IF search'.mode = "settled" THEN "refine" ELSE "place"
  /\ UNCHANGED <<pb, dev, graph, cfg, pass, base, parents, routes, usage, regions, verdict, cap,
                 swept>>

\* The slots are tried again without the rows when they do not fit within them;
\* an anchored vertex without a region is an error at once.
PassFailed(reason) ==
  IF pass = "parented" /\ reason \in {"Infeasible", "NoCandidates"}
  THEN pass' = "free" /\ search' = LadderStart /\ UNCHANGED <<phase, verdict, parents>>
  ELSE verdict' = reason /\ phase' = "attempted" /\ UNCHANGED <<pass, search, parents>>

\* A rung is infeasible, by an empty domain or by the solver's word.
ProbeInfeasible ==
  /\ Probing
  /\ LET domain == DomainErrorAt(pass, ProbedLimit)
         s == AfterInfeasible(search, LastRung)
     IN  /\ domain = "ok" => \E out \in ProbeOutcomes(ProbedLimit) : out.status = "Infeasible"
         /\ IF s.mode = "infeasible"
            THEN PassFailed(IF domain = "ok" THEN "Infeasible" ELSE domain)
            ELSE /\ search' = s
                 /\ phase' = IF s.mode = "settled" THEN "refine" ELSE "place"
                 /\ UNCHANGED <<pass, verdict, parents>>
  /\ UNCHANGED <<pb, dev, graph, cfg, base, placed, limit, routes, usage, regions, exact, cap,
                 swept>>

\* The solver fails, or stops without an incumbent.
ProbeUnsolved ==
  /\ Probing /\ DomainErrorAt(pass, ProbedLimit) = "ok"
  /\ \E out \in ProbeOutcomes(ProbedLimit) :
       \/ out.err # "ok" /\ verdict' = "Solver"
       \/ out.err = "ok" /\ out.status \in {"NotSolved", "Unbounded"} /\ verdict' = "NoIncumbent"
  /\ phase' = "attempted"
  /\ UNCHANGED <<pb, dev, graph, cfg, pass, base, search, placed, parents, limit, routes, usage,
                 regions, exact, cap, swept>>

\* The tie-break on the settled rung: a second solve with the objective pinned,
\* or the first one's answer when it finds nothing.  The rows hand over to the
\* slots at the rung they settled on.
RefineOutcomes ==
  LET Best(pinned) ==
        LexRefined(dev, graph, cfg, limit, PassRegions(pass), PassParents(pass), pinned)
      Answers(pinned) == {Solve(pinned, pb.opts, run) : run \in CbcRuns(pinned, Best(pinned), {})}
  IN  Answers(Pinned(dev, graph, PlacementsAt(pass, limit), placed))

Refine ==
  /\ phase = "refine"
  /\ \E out \in RefineOutcomes :
       /\ out.err = "ok"
       /\ exact' = (exact /\ out.status = "Optimal")
       /\ placed' = IF IsFound(out.status) THEN out.point ELSE placed
  /\ IF pass = "rows"
     THEN /\ pass' = "parented" /\ parents' = placed' /\ base' = limit /\ search' = LadderStart
          /\ phase' = "place"
     ELSE phase' = "route" /\ UNCHANGED <<pass, parents, base, search>>
  /\ UNCHANGED <<pb, dev, graph, cfg, limit, routes, usage, regions, verdict, cap, swept>>

RefineFailed ==
  /\ phase = "refine"
  /\ \E out \in RefineOutcomes : out.err # "ok"
  /\ verdict' = "Solver" /\ phase' = "attempted"
  /\ UNCHANGED <<pb, dev, graph, cfg, pass, base, search, placed, parents, limit, routes, usage,
                 regions, exact, cap, swept>>
-----------------------------------------------------------------------------
(* Routing, realization and publication.                                     *)

LogicCap == cfg.ceiling
RealizedBlockCap == IF Sweeping THEN BlockCap(Strategy, cap) ELSE cfg.ceiling

\* Both solves of the routing program; without a net there is nothing to solve.
RouteOutcomes ==
  LET S == Routings(dev, graph, placed, LogicCap, pb.scheme)
      nets == CrossSlotNets(graph, placed)
      best == Cheapest(S, LAMBDA r : RouteObjective(dev, nets, r))
  IN  {Solve(S, pb.opts, run) : run \in CbcRuns(S, best, {FirstPaths(dev, nets)})}
RouteRefined(r) ==
  LET nets == CrossSlotNets(graph, placed)
      pinned == RoutePinned(dev, nets, Routings(dev, graph, placed, LogicCap, pb.scheme), r)
  IN  {Solve(pinned, pb.opts, run) :
         run \in CbcRuns(pinned, Cheapest(pinned, LAMBDA q : RouteLexRank(dev, nets, q)), {})}

RouteFound ==
  /\ phase = "route"
  /\ IF CrossSlotNets(graph, placed) = <<>> THEN routes' = <<>>
     ELSE \E first \in RouteOutcomes :
            /\ IsFound(first.status)
            /\ \E second \in RouteRefined(first.point) :
                 /\ second.err = "ok"
                 /\ routes' = PlannedRoutes(graph, placed, pb.scheme,
                                IF IsFound(second.status) THEN second.point ELSE first.point)
  /\ phase' = "realize"
  /\ UNCHANGED <<pb, dev, graph, cfg, pass, base, search, placed, parents, limit, usage, regions,
                 verdict, exact, cap, swept>>

RouteFailed ==
  /\ phase = "route" /\ CrossSlotNets(graph, placed) # <<>>
  /\ \E out \in RouteOutcomes :
       \/ out.err # "ok" /\ verdict' = "RouteSolver"
       \/ out.err = "ok" /\ out.status = "Infeasible" /\ verdict' = "RouteInfeasible"
       \/ out.err = "ok" /\ out.status \in {"NotSolved", "Unbounded"} /\ verdict' = "RouteNoIncumbent"
  /\ phase' = "attempted"
  /\ UNCHANGED <<pb, dev, graph, cfg, pass, base, search, placed, parents, limit, routes, usage,
                 regions, exact, cap, swept>>

\* Every vertex that becomes a cell, and what is co-located with it.
Vertices == DOMAIN graph.vertices
PublishedHosts ==
  {<<<<"user", graph.vertices[v].name>>, v>> : v \in {v \in Vertices : graph.vertices[v].materialize}}
  \union {<<c.name, c.host>> : c \in graph.coLocated}
PublishedRegions(p) ==
  [n \in {q[1] : q \in PublishedHosts} |->
     CellOf(p[(CHOOSE q \in PublishedHosts : q[1] = n)[2]])]
\* Two of them under one name.
RegionConflict == Cardinality({q[1] : q \in PublishedHosts}) # Cardinality(PublishedHosts)

Realize ==
  /\ phase = "realize"
  /\ LET u == [c \in Grid(dev) |-> RealizedUsage(graph, placed, routes, c)]
     IN  IF ~EndpointsMatch(placed, routes)
              \/ \E c \in Grid(dev) : AccountingError(graph, placed, routes, c)
         THEN verdict' = "Accounting" /\ UNCHANGED <<usage, regions>>
         ELSE /\ usage' = u
              /\ IF WithinRealizedCaps(dev, u, LogicCap, RealizedBlockCap)
                 THEN IF RegionConflict THEN verdict' = "NameConflict" /\ UNCHANGED regions
                      ELSE verdict' = "ok" /\ regions' = PublishedRegions(placed)
                 ELSE verdict' = "RealizedCapacity" /\ UNCHANGED regions
  /\ phase' = "attempted"
  /\ UNCHANGED <<pb, dev, graph, cfg, pass, base, search, placed, parents, limit, routes, exact,
                 cap, swept>>
-----------------------------------------------------------------------------
(* The end of an attempt: the plan, or the next cap of the sweep.            *)

\* Mutant: a plan whose registers do not fit ends the sweep.
TerminalMutant == {"Infeasible", "NoCandidates", "RealizedCapacity", "NoIncumbent"}

Terminal_ == {"Infeasible", "NoCandidates"}
Retryable == {"RouteInfeasible", "RealizedCapacity"}

Percent(used, available) == IF available = 0 THEN 0 ELSE (100 * used) \div available
UtilizationOf(logic) ==
  Max({0} \union {Percent(usage[q[1]][q[2]], SlotAt(dev, q[1]).area[q[2]]) :
                    q \in {q \in Grid(dev) \X dev.planned : IsLogic(q[2]) = logic}})
Minus(a, b) == IF a > b THEN a - b ELSE 0
\* The cap the realized usage binds at.
BindingCap ==
  LET block == Minus(UtilizationOf(FALSE), IF Strategy = "multilevel" THEN BLOCK_MARGIN ELSE 0)
  IN  IF UtilizationOf(TRUE) > block THEN UtilizationOf(TRUE) ELSE block

NextCap ==
  IF verdict = "ok" THEN Lower(Minus(cap, pb.sweep.step), Minus(BindingCap, ADAPTIVE_MARGIN))
  ELSE Minus(cap, pb.sweep.step)

Visited == {swept[i].regions : i \in {i \in DOMAIN swept : swept[i].verdict = "ok"}}

\* A single plan is rendered as XDC.
RtlNames == {pb.design.tasks[i].rtl : i \in DOMAIN pb.design.tasks} \union DOMAIN regions
PlanDone ==
  /\ phase = "attempted" /\ ~Sweeping
  /\ phase' = "done"
  /\ verdict' = IF verdict = "ok" THEN XdcError(dev, regions, routes, RtlNames) ELSE verdict
  /\ UNCHANGED <<pb, dev, graph, cfg, pass, base, search, placed, parents, limit, routes, usage,
                 regions, exact, cap, swept>>

\* A rejection that no kind covers aborts the sweep.
SweepStep ==
  /\ phase = "attempted" /\ Sweeping
  /\ IF verdict \in {"ok"} \union Terminal_ \union Retryable
     THEN /\ swept' = IF verdict = "ok" /\ regions \in Visited THEN swept
                      ELSE Append(swept, [cap |-> cap, verdict |-> verdict, regions |-> regions,
                                           binding |-> IF verdict = "ok" THEN BindingCap ELSE cap])
          /\ IF verdict \in Terminal_ \/ NextCap >= cap \/ NextCap < pb.sweep.min
             THEN phase' = "done" /\ UNCHANGED cap
             ELSE phase' = "prepare" /\ cap' = NextCap
     ELSE phase' = "done" /\ UNCHANGED <<swept, cap>>
  /\ UNCHANGED <<pb, dev, graph, cfg, pass, base, search, placed, parents, limit, routes, usage,
                 regions, verdict, exact>>

\* The program has ended.
PlannerEnded == phase = "done" /\ UNCHANGED planVars

PlanNext ==
  \/ Prepare \/ ProbePlaced \/ ProbeInfeasible \/ ProbeUnsolved \/ Refine \/ RefineFailed
  \/ RouteFound \/ RouteFailed \/ Realize \/ PlanDone \/ SweepStep
  \/ PlannerEnded

PlanSpec == PlanInit /\ [][PlanNext]_planVars
-----------------------------------------------------------------------------
(* Properties *)

\* Types of the planner's state: no rung lies above the ceiling, and every
\* rejection is an error of one of the planner's parts.
FloorplannerTypeOK ==
  /\ phase \in {"prepare", "place", "refine", "route", "realize", "attempted", "done"}
  /\ pass \in {"flat", "rows", "parented", "free"}
  /\ search.mode \in Modes /\ exact \in BOOLEAN
  /\ limit \in 0..cfg.ceiling /\ cap \in 0..100
  /\ verdict \in {"ok"} \union PlanErrors

\* The search is right to bisect: a rung that places makes every higher one of
\* the same pass place, and the pass settles at the lowest that does.
SettledAtLowestRung ==
  phase = "refine" =>
    /\ \A i \in 0..LastRung : RungLimit(i) < limit => PlacementsAt(pass, RungLimit(i)) = {}
    /\ \A i \in 0..LastRung : RungLimit(i) >= limit => PlacementsAt(pass, RungLimit(i)) # {}

\* The row pass relaxes the slot pass: where the slots fit, the rows do, so the
\* slots need not be tried below the rung the rows settled on, and a design the
\* rows reject fits no slot.
RowsRelaxSlots ==
  /\ (phase \in {"place", "refine"} /\ pass \in {"parented", "free"}) =>
       \A i \in 0..LadderLast(cfg.base, cfg.ceiling) :
         LadderRung(cfg.base, cfg.ceiling, i) < base =>
           PlacementsAt("free", LadderRung(cfg.base, cfg.ceiling, i)) = {}
  /\ (phase = "attempted" /\ pass = "rows" /\ verdict \in {"Infeasible", "NoCandidates"}) =>
       PlacementsAt("free", cfg.ceiling) = {}

\* What is checked a second time never fails the second time: an anchor's slot
\* can always be used (its vertex has no area and its tag is on one slot),
\* taking out the FIFO estimates the Tails replace never underflows (every
\* stream was charged once, where its Tail is), and no two published instances
\* share a name, and every published region and stage is a slot of the device.
InternalErrorsUnreachable ==
  /\ verdict \notin {"AnchorUnplaceable", "Accounting", "EmptyRoute", "InvalidRegion"}
  /\ verdict = "NameConflict" => phase = "done" /\ dev = [key |-> "none"]

\* A plan that is published keeps every boundary within its usable wires,
\* resets included, and routes Launch and Reset of a task over the same slots.
RoutesAreLegal ==
  (phase = "attempted" /\ verdict = "ok") =>
    /\ \A b \in Boundaries(dev) :
         BoundaryCap(dev, b) # Unbounded =>
           SumOver({i \in DOMAIN routes : PathCrosses(routes[i].route, b)},
                   LAMBDA i : routes[i].net.width) <= BoundaryCap(dev, b)
    /\ \A i, j \in DOMAIN routes :
         (routes[i].net.name = routes[j].net.name /\ routes[i].net.channel = "launch"
            /\ routes[j].net.channel = "reset") => routes[i].route = routes[j].route
    /\ {routes[i].net : i \in DOMAIN routes} =
         {graph.nets[i] : i \in {i \in DOMAIN graph.nets :
                                   placed[graph.nets[i].src] # placed[graph.nets[i].dst]}}

\* What a published plan puts into slot c: the tasks of that region, the FIFOs
\* that stay inside it, and of every route the Head, the Tail and the Bodies
\* that are there.
HeldBy(c) ==
  LET d == pb.design
      crossing == {routes[i].net.name : i \in {i \in DOMAIN routes : routes[i].net.kind = "stream"}}
      at(name) == regions[<<"user", name>>]
      tasks == SumAreas({i \in DOMAIN d.tasks : at(d.tasks[i].name) = c}, LAMBDA i : d.tasks[i].area)
      local == SumAreas({f \in InternalSet(d) : f.name \notin crossing /\ at(f.cons) = c},
                        LAMBDA f : FifoArea(DataWidth(f), FloorplannedDepth(f.depth)))
      heads == SumAreas({i \in DOMAIN routes : HeadOf(routes[i]) = c}, LAMBDA i : HeadArea(routes[i]))
      tails == SumAreas({i \in DOMAIN routes : TailOf(routes[i]) = c}, LAMBDA i : TailArea(routes[i]))
      bodies == SumAreas(DOMAIN routes, LAMBDA i :
                  Flops(routes[i].net.width
                          * Cardinality({k \in DOMAIN routes[i].regs : routes[i].regs[k] = c})))
  IN  AddArea(tasks, AddArea(local, AddArea(heads, AddArea(tails, bodies))))

\* Nothing is charged twice or lost, though the usage is the estimate of the
\* placement with FIFOs taken out and Tails put in, and every slot can carry
\* what is put into it within the caps of the attempt.
SlotsHoldThePlan ==
  (phase = "attempted" /\ verdict = "ok") =>
    \A c \in Grid(dev) :
      /\ usage[c] = HeldBy(c)
      /\ \A r \in dev.planned :
           100 * HeldBy(c)[r] <=
             SlotAt(dev, c).area[r] * (IF IsLogic(r) THEN LogicCap ELSE RealizedBlockCap)

\* A vertical hop of a doubled scheme has a register on both sides, marked for
\* the inter-die wires, and every generated cell is pinned to exactly one slot.
CrossingsAreRegistered ==
  (phase = "attempted" /\ verdict = "ok") =>
    /\ \A i \in DOMAIN routes : \A j \in 1..(Len(routes[i].route) - 1) :
         (pb.scheme # "single" /\ routes[i].route[j][2] # routes[i].route[j + 1][2]) =>
           \E k \in 1..(Len(routes[i].regs) - 1) :
             /\ <<routes[i].regs[k], routes[i].regs[k + 1]>>
                  = <<routes[i].route[j], routes[i].route[j + 1]>>
             /\ {k, k + 1} \subseteq UserSllBodies(routes[i], pb.scheme)
    /\ \A m1, m2 \in XdcMatches(regions, routes) : m1[1] = m2[1] => m1[2] = m2[2]

\* A sweep that stops at a cap the placement cannot meet has missed nothing: no
\* tighter cap of the range can be placed either.
TerminalIsFinal ==
  (phase = "done" /\ Sweeping /\ verdict \in Terminal_) =>
    \A c \in pb.sweep.min..cap :
      Placements(dev, graph,
                 [base |-> c, ceiling |-> c,
                  block |-> IF Strategy = "multilevel" THEN BlockCap(Strategy, c) ELSE 0],
                 c, AtomicRegions(dev), <<>>) = {}

\* Every attempt of a sweep forces a tighter plan: where one candidate binds,
\* each later one, registers included, binds at least a margin below it.
SweepDescends ==
  \A i, j \in DOMAIN swept :
    (i < j /\ swept[i].verdict = "ok" /\ swept[j].verdict = "ok")
      => swept[j].binding + ADAPTIVE_MARGIN <= swept[i].binding

\* A plan that is published is one the device can carry: legal routes, slots that
\* hold what is put into them, and registers where it crosses dies.
PublishedPlanIsSound == RoutesAreLegal /\ SlotsHoldThePlan /\ CrossingsAreRegistered

\* What the searches do not try is not worth trying: slots below the rung the
\* rows settled on, caps below one that cannot be placed, and caps at which the
\* last plan would do again.
ShortcutsAreSound == RowsRelaxSlots /\ TerminalIsFinal /\ SweepDescends
=============================================================================
