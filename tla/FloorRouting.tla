---------------------------- MODULE FloorRouting ----------------------------
(***************************************************************************)
(* Routing and pipelining of a placed design: the candidate paths and the   *)
(* routing program (tapa-floorplan/src/route/paths.rs, route/ilp.rs), the   *)
(* registers a route leaves in the slots it passes and the usage each slot  *)
(* ends up with (pipeline/plan.rs), and the cells the XDC pins (xdc.rs).    *)
(***************************************************************************)
EXTENDS FloorPlacement

RouteErrors == {"RouteSolver", "RouteInfeasible", "RouteNoIncumbent"}
PipelineErrors == {"Accounting", "RealizedCapacity"}
MAX_DETOUR == 2
Schemes == {"single", "double", "single_h_double_v"}

PathCells(path) == {path[i] : i \in DOMAIN path}
Manhattan(a, b) == Abs(a[1] - b[1]) + Abs(a[2] - b[2])

\* Every simple path of at most MAX_DETOUR hops more than the distance.
EnumeratePaths(dev, src, dst) ==
  LET hops == Manhattan(src, dst) + MAX_DETOUR
      From[k \in 0..hops] ==
        IF k = 0 THEN {<<src>>}
        ELSE UNION {{Append(path, c) : c \in {c \in Grid(dev) \ PathCells(path) :
                                                Adjacent(c, path[Len(path)])}} :
                      path \in {q \in From[k - 1] : q[Len(q)] # dst}}
  IN  {path \in UNION {From[k] : k \in 0..hops} : path[Len(path)] = dst}

\* Candidate order: shortest first, then by the cells.
PathBefore(p, q) ==
  \/ Len(p) < Len(q)
  \/ /\ Len(p) = Len(q)
     /\ \E i \in DOMAIN p : /\ p[i] # q[i]
                            /\ \A j \in 1..(i - 1) : p[j] = q[j]
                            /\ p[i][1] < q[i][1] \/ (p[i][1] = q[i][1] /\ p[i][2] < q[i][2])
PathRank(S, p) == Cardinality({q \in S : PathBefore(q, p)})
-----------------------------------------------------------------------------
(* The nets to route.  Reset rides with Launch: it adds its width and gets   *)
(* the same path.                                                            *)

ResetWidth(g, n) ==
  IF n.channel # "launch" THEN 0
  ELSE g.nets[CHOOSE i \in DOMAIN g.nets :
                g.nets[i].channel = "reset" /\ g.nets[i].name = n.name].width

CrossSlotNets(g, p) ==
  SelectSeq([i \in DOMAIN g.nets |->
               [of |-> i, src |-> CellOf(p[g.nets[i].src]), dst |-> CellOf(p[g.nets[i].dst]),
                width |-> g.nets[i].width + ResetWidth(g, g.nets[i])]],
            LAMBDA n : n.src # n.dst /\ g.nets[n.of].channel # "reset")

\* The slots of the Body registers along a route.
PipelineRegCells(route, scheme) ==
  LET n == Len(route)
      Times(i) == 1 + Cardinality({j \in {i - 1, i} : j \in 1..(n - 1)
                                     /\ route[j][2] # route[j + 1][2]})
      Repeat(i) == [k \in 1..Times(i) |-> route[i]]
      Expanded == FlattenSeq([i \in 1..n |-> Repeat(i)])
  IN  IF n < 2 THEN <<>>
      ELSE CASE scheme = "single" -> SubSeq(route, 2, n - 1)
             [] scheme = "double" -> FlattenSeq([i \in 1..(n - 1) |-> <<route[i], route[i + 1]>>])
             [] OTHER -> SubSeq(Expanded, 2, Len(Expanded) - 1)
Count(s, c) == Cardinality({i \in DOMAIN s : s[i] = c})
-----------------------------------------------------------------------------
(* The routing program.                                                     *)

Boundaries(dev) == {b \in Grid(dev) \X Grid(dev) :
                      Adjacent(b[1], b[2]) /\ (b[1][1] < b[2][1] \/ b[1][2] < b[2][2])}
PathCrosses(path, b) == \E i \in 1..(Len(path) - 1) : {path[i], path[i + 1]} = {b[1], b[2]}
Load(nets, routes, b) ==
  SumOver({i \in DOMAIN nets : PathCrosses(routes[i], b)}, LAMBDA i : nets[i].width)
BoundaryCap(dev, b) == PairCapacity(dev, b[1], b[2])
WithinCapacity(dev, nets, routes) ==
  \A b \in Boundaries(dev) :
    BoundaryCap(dev, b) # Unbounded => Load(nets, routes, b) <= BoundaryCap(dev, b)

\* Flip-flops a slot can still spend on Body registers.
RegisterBudget(dev, g, p, limit, c) ==
  LET cap == ScaledAmount(SlotAt(dev, c).area["ff"], limit)
      used == PlacedUsage(g, p, Slot(c[1], c[2]))["ff"]
  IN  IF used <= cap THEN cap - used ELSE 0
BudgetRows(dev, g, p, limit, scheme, nets, routes) ==
  \A c \in Grid(dev) :
    SumOver(DOMAIN nets, LAMBDA i : nets[i].width * Count(PipelineRegCells(routes[i], scheme), c))
    <= RegisterBudget(dev, g, p, limit, c)

\* All choices of one path per net.
RouteChoices(dev, nets) ==
  OnePerPosition([i \in DOMAIN nets |-> EnumeratePaths(dev, nets[i].src, nets[i].dst)])

\* Nets with the same ends and width take their paths in net order.
Twins(nets) == {q \in (DOMAIN nets) \X (DOMAIN nets) :
  /\ q[1] < q[2] /\ nets[q[1]].width = nets[q[2]].width
  /\ nets[q[1]].src = nets[q[2]].src /\ nets[q[1]].dst = nets[q[2]].dst}
SymmetryRows(nets, routes) ==
  \A q \in Twins(nets) : ~PathBefore(routes[q[2]], routes[q[1]])

Routings(dev, g, p, limit, scheme) ==
  LET nets == CrossSlotNets(g, p)
  IN  {r \in RouteChoices(dev, nets) :
         /\ SymmetryRows(nets, r)
         /\ WithinCapacity(dev, nets, r)
         /\ BudgetRows(dev, g, p, limit, scheme, nets, r)}

\* The objective: the highest utilization of a bounded boundary, in thousandths
\* (the solver's gap), or the hops when no boundary is bounded.
RouteObjective(dev, nets, routes) ==
  LET bounded == {b \in Boundaries(dev) : BoundaryCap(dev, b) > 0}
  IN  IF bounded # {}
      THEN Max({(1000 * Load(nets, routes, b)) \div BoundaryCap(dev, b) : b \in bounded})
      ELSE SumOver(DOMAIN nets, LAMBDA i : Len(routes[i]) - 1)
RouteLexRank(dev, nets, routes) ==
  SumOver(DOMAIN nets, LAMBDA i :
    PathRank(EnumeratePaths(dev, nets[i].src, nets[i].dst), routes[i]))
RoutePinned(dev, nets, S, r) ==
  {q \in S : RouteObjective(dev, nets, q) <= RouteObjective(dev, nets, r)}
\* Every net on its first path, whether or not the rows allow it.
FirstPaths(dev, nets) ==
  [i \in DOMAIN nets |-> CHOOSE p \in EnumeratePaths(dev, nets[i].src, nets[i].dst) :
                            PathRank(EnumeratePaths(dev, nets[i].src, nets[i].dst), p) = 0]
-----------------------------------------------------------------------------
(* Published routes and realized usage.                                     *)

\* One route per channel: a Launch is followed by its Reset on the same path.
PlannedRoutes(g, p, scheme, routes) ==
  LET nets == CrossSlotNets(g, p)
      Carried(i) == LET n == g.nets[nets[i].of]
                    IN  SelectSeq(g.nets, LAMBDA m :
                          m = n \/ (n.channel = "launch" /\ m.channel = "reset" /\ m.name = n.name))
  IN  FlattenSeq([i \in DOMAIN nets |->
        MapSeq(LAMBDA m : [net |-> m, route |-> routes[i],
                           regs |-> PipelineRegCells(routes[i], scheme)], Carried(i))])

Flops(n) == [ZeroArea EXCEPT !["ff"] = n]
HeadOf(r) == r.route[1]
TailOf(r) == r.route[Len(r.route)]
\* Mutant: the estimate taken out is that of the declared depth.
OriginalFifoMutant(n) == FifoArea(n.payload, n.depth)

\* The estimate of a stream's FIFO that its consumer was charged.
OriginalFifo(n) == FifoArea(n.payload, FloorplannedDepth(n.depth))

\* What the Tail costs: a deeper FIFO behind a stream or an AXI channel, one
\* register behind a control bundle.
TailArea(r) ==
  LET n == r.net
  IN  CASE n.kind = "stream" -> FifoArea(n.payload, n.depth + 2 * Len(r.regs) + 6)
        [] n.kind = "axi" -> FifoArea(n.payload, 2 * Len(r.regs) + 8)
        [] OTHER -> Flops(n.width)
HeadArea(r) == [Flops(r.net.width) EXCEPT !["lut"] = IF r.net.kind = "control" THEN 0 ELSE 1]

\* The usage of slot c after routing, and whether taking out the FIFO estimates
\* the Tails replace would underflow.
Replaced(planned, c) ==
  SumAreas({i \in DOMAIN planned : planned[i].net.kind = "stream" /\ TailOf(planned[i]) = c},
           LAMBDA i : OriginalFifo(planned[i].net))
RealizedUsage(g, p, planned, c) ==
  LET added == SumAreas(DOMAIN planned, LAMBDA i :
        AddArea(AddArea(IF HeadOf(planned[i]) = c THEN HeadArea(planned[i]) ELSE ZeroArea,
                        IF TailOf(planned[i]) = c THEN TailArea(planned[i]) ELSE ZeroArea),
                Flops(planned[i].net.width * Count(planned[i].regs, c))))
  IN  SubArea(AddArea(PlacedUsage(g, p, Slot(c[1], c[2])), added), Replaced(planned, c))
AccountingError(g, p, planned, c) ==
  ~CanSub(PlacedUsage(g, p, Slot(c[1], c[2])), Replaced(planned, c))
\* The routes start and end where the placement put their endpoints.
EndpointsMatch(p, planned) ==
  \A i \in DOMAIN planned : /\ HeadOf(planned[i]) = CellOf(p[planned[i].net.src])
                            /\ TailOf(planned[i]) = CellOf(p[planned[i].net.dst])

WithinRealizedCaps(dev, usage, logic, block) ==
  \A c \in Grid(dev) : \A r \in dev.planned :
    usage[c][r] <= ScaledAmount(SlotAt(dev, c).area[r], IF IsLogic(r) THEN logic ELSE block)
-----------------------------------------------------------------------------
(* The XDC: every placed cell to the pblock of its slot.                    *)

\* Body stages on either side of a vertical transition are SLL registers.
UserSllBodies(r, scheme) ==
  IF scheme = "single" THEN {}
  ELSE UNION {{i, i + 1} : i \in {i \in 1..(Len(r.regs) - 1) : r.regs[i][2] # r.regs[i + 1][2]}}

\* What emit_xdc refuses: a stage that is no slot of the device, and two region
\* names that the pattern for a cell or its FIFO cannot tell apart.
XdcErrors == {"EmptyRoute", "InvalidRegion", "AmbiguousFifoSuffix"}
XdcError(dev, regions, planned, rtlNames) ==
  FirstError(<<
    <<\E n \in DOMAIN regions : regions[n] \notin Grid(dev), "InvalidRegion">>,
    <<\E i \in DOMAIN planned : planned[i].route = <<>>, "EmptyRoute">>,
    <<\E i \in DOMAIN planned : ~(PathCells(planned[i].route) \union PathCells(planned[i].regs)
                                  \subseteq Grid(dev)), "InvalidRegion">>,
    <<\E n \in rtlNames : n[1] = "user" /\ <<"fifo", n[2]>> \in rtlNames, "AmbiguousFifoSuffix">> >>)

\* The matches emit_xdc writes: <<cell, slot>>.  A routed stream's own key is
\* skipped, its stages follow the route.
XdcMatches(regions, planned) ==
  LET routed == {<<"user", planned[i].net.name>> :
                   i \in {i \in DOMAIN planned : planned[i].net.kind = "stream"}}
      id(i) == <<planned[i].net.kind, planned[i].net.name, planned[i].net.channel>>
  IN  {<<<<"cell", n>>, regions[n]>> : n \in DOMAIN regions \ routed}
      \union {<<<<"head", id(i)>>, HeadOf(planned[i])>> : i \in DOMAIN planned}
      \union {<<<<"tail", id(i)>>, TailOf(planned[i])>> : i \in DOMAIN planned}
      \union UNION {{<<<<"body", Append(id(i), ToString(k))>>, planned[i].regs[k]>> :
                        k \in DOMAIN planned[i].regs} : i \in DOMAIN planned}
=============================================================================
