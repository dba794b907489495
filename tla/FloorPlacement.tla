--------------------------- MODULE FloorPlacement ---------------------------
(***************************************************************************)
(* The solver interface (tapa-floorplan/src/solver): one run of the         *)
(* external cbc and what solve makes of it.  A model is the set of its      *)
(* integral points; a run is a record                                       *)
(*   spawned, ok   did cbc start, and exit with success                     *)
(*   header        first line of the solution file, "none" without a file   *)
(*   objective     the value it states: that of the listed point (exact),   *)
(*                 less the model's constant (bare), wrong, or none         *)
(*   values, point the listing: a point, or "garbled" (a line that does not *)
(*                 parse, a variable twice) or "partial"                    *)
(*                                                                          *)
(* The placement problem (tapa-floorplan/src/partition/ilp.rs): the         *)
(* candidate regions of every vertex, the resource and cut rows, the        *)
(* wirelength objective and the lexicographic tie-break.  A placement is a  *)
(* function from vertices to regions.                                       *)
(***************************************************************************)
EXTENDS FloorGraph

SolverErrors ==
  {"InvalidOptions", "Spawn", "ToolFailure", "BadOutput", "InvalidSolution", "InvalidModel"}
LpStatus == {"Optimal", "Feasible", "Infeasible", "Unbounded", "NotSolved"}
IsFound(status) == status \in {"Optimal", "Feasible"}

CbcRun(header, objective, values, point) ==
  [spawned |-> TRUE, ok |-> TRUE, header |-> header, objective |-> objective,
   values |-> values, point |-> point]

\* The status a header stands for; a run stopped early has an incumbent when
\* it states an objective.
HeaderStatus(run) ==
  CASE run.header = "optimal" -> "Optimal"
    [] run.header \in {"infeasible", "integer infeasible"} -> "Infeasible"
    [] run.header = "unbounded" -> "Unbounded"
    [] run.header = "stopped" -> IF run.objective = "none" THEN "NotSolved" ELSE "Feasible"
    [] OTHER -> "unknown"

ParseError(run) ==
  FirstError(<<
    <<run.header = "none", "BadOutput">>,
    <<HeaderStatus(run) = "unknown", "BadOutput">>,
    <<IsFound(HeaderStatus(run)) /\ run.objective = "none", "BadOutput">>,
    <<run.values = "garbled", "BadOutput">> >>)

\* An incumbent is complete, integral, satisfies every row and has the stated
\* objective, with or without the constant.
ValidateSolution(S, run) ==
  IF IsFound(HeaderStatus(run))
     /\ (run.values = "partial" \/ run.point \notin S \/ run.objective = "wrong")
  THEN "InvalidSolution" ELSE "ok"

\* Limits cbc would reinterpret are refused: [seconds, threads].
OptsError(opts) == IF opts.seconds = 0 \/ opts.threads = 0 THEN "InvalidOptions" ELSE "ok"

Solve(S, opts, run) ==
  LET failed == FirstError(<<
        <<OptsError(opts) # "ok", "InvalidOptions">>,
        <<~run.spawned, "Spawn">>,
        <<~run.ok, "ToolFailure">> >>)
      err == IF failed # "ok" THEN failed
             ELSE IF ParseError(run) # "ok" THEN ParseError(run) ELSE ValidateSolution(S, run)
  IN  [err |-> err, status |-> IF err = "ok" THEN HeaderStatus(run) ELSE "NotSolved",
       point |-> run.point]

\* cbc, external: it proves what it claims to have proved, may stop early with
\* any incumbent or none, and may fail in any way that can be noticed.
\* Points outside the model stand for what a defective build might list.
CbcRuns(S, best, outside) ==
  LET Without(header, objective, values) == CbcRun(header, objective, values, <<>>)
  IN  {CbcRun("optimal", obj, "point", p) : obj \in {"exact", "bare", "wrong"}, p \in best}
      \union {CbcRun("stopped", "exact", "point", p) : p \in S \union outside}
      \union (IF S = {} THEN {Without("infeasible", "none", "partial")} ELSE {})
      \union {Without("stopped", "none", "partial"), Without("unbounded", "none", "partial"),
              Without("none", "none", "partial"), Without("other", "exact", "partial"),
              Without("optimal", "none", "partial"), Without("optimal", "exact", "garbled"),
              Without("optimal", "exact", "partial"),
              [Without("optimal", "exact", "partial") EXCEPT !.spawned = FALSE],
              [Without("optimal", "exact", "partial") EXCEPT !.ok = FALSE]}
-----------------------------------------------------------------------------
(* Placement *)

IlpErrors ==
  {"Solver", "Infeasible", "NoIncumbent", "InvalidLimit", "NoCandidates", "AnchorUnplaceable"}
USAGE_LIMIT_STEP == 2          \* percent
MAX_USAGE_LIMIT == 95
FLAT_EDGE_LIMIT == 300
MULTI_LEVEL_EDGE_LIMIT == 800
MIN_MULTI_LEVEL_ROWS == 3

\* Flat below 300 edges or on one column, multi-level above 800, and in between
\* as the device has rows to divide by.
SelectStrategy(dev, edges) ==
  IF dev.cols = 1 \/ edges < FLAT_EDGE_LIMIT THEN "flat"
  ELSE IF edges > MULTI_LEVEL_EDGE_LIMIT \/ dev.rows >= MIN_MULTI_LEVEL_ROWS
  THEN "multilevel" ELSE "flat"
ResolveStrategy(strategy, dev, edges) ==
  IF strategy = "auto" THEN SelectStrategy(dev, edges) ELSE strategy

\* A configuration: base and ceiling limits, and the limit that overrides them
\* for hard blocks (0: none).
ConfigError(c) ==
  FirstError(<<
    <<c.base \notin 1..100 \/ c.ceiling \notin 1..100 \/ c.ceiling < c.base, "InvalidLimit">>,
    <<c.block \notin 0..100, "InvalidLimit">> >>)

\* The ladder from base to ceiling in steps, the ceiling always the last rung.
LadderLast(base, ceiling) == (ceiling - base + USAGE_LIMIT_STEP - 1) \div USAGE_LIMIT_STEP
LadderRung(base, ceiling, i) ==
  IF base + i * USAGE_LIMIT_STEP <= ceiling THEN base + i * USAGE_LIMIT_STEP ELSE ceiling

ScaledAmount(amount, limit) == (amount * limit) \div 100
LookupLimit(c, limit, r) == IF c.block # 0 /\ ~IsLogic(r) THEN c.block ELSE limit
Available(dev, c, limit, region, r) ==
  ScaledAmount(IslandArea(dev, region)[r], LookupLimit(c, limit, r))

\* A region is a candidate when it lies in the vertex's parent, carries its tag
\* and has room for it alone.
CandidateDomain(dev, g, c, limit, regions, parents, v) ==
  {region \in regions :
     /\ parents # <<>> => IsInside(region, parents[v])
     /\ g.vertices[v].tag # "none" => RegionHasTag(dev, region, g.vertices[v].tag)
     /\ \A r \in dev.planned : g.vertices[v].area[r] <= Available(dev, c, limit, region, r)}

\* The error of the first vertex without a candidate.
DomainError(dev, g, c, limit, regions, parents) ==
  LET empty == {v \in DOMAIN g.vertices :
                  CandidateDomain(dev, g, c, limit, regions, parents, v) = {}}
  IN  IF empty = {} THEN "ok"
      ELSE IF g.vertices[Min(empty)].tag # "none" THEN "AnchorUnplaceable" ELSE "NoCandidates"

Crosses(p, e) == p[e.src] # p[e.dst]

\* Flip-flops a region reserves for the Heads of the channels leaving it.
HeadFlops(g, p, region) ==
  SumOver({e \in g.edges : Crosses(p, e)},
          LAMBDA e : (IF p[e.src] = region THEN e.forward ELSE 0)
                     + (IF p[e.dst] = region THEN e.reverse ELSE 0))

\* The sequences that take one element of each set of a sequence of sets.
OnePerPosition(sets) ==
  LET Upto[k \in 0..Len(sets)] ==
        IF k = 0 THEN {<<>>} ELSE {Append(q[1], q[2]) : q \in Upto[k - 1] \X sets[k]}
  IN  Upto[Len(sets)]

\* The placements that satisfy the resource rows of every region in use and
\* the capacity of every cut.
Placements(dev, g, c, limit, regions, parents) ==
  LET domain == [v \in DOMAIN g.vertices |->
                   CandidateDomain(dev, g, c, limit, regions, parents, v)]
      available == [q \in regions \X dev.planned |-> Available(dev, c, limit, q[1], q[2])]
      cuts == FindCutsForRegions(dev, regions)
      ResourceRows(p) ==
        \A region \in {p[v] : v \in DOMAIN p} : \A r \in dev.planned :
          SumOver({v \in DOMAIN p : p[v] = region}, LAMBDA v : g.vertices[v].area[r])
            + (IF r = "ff" THEN HeadFlops(g, p, region) ELSE 0) <= available[<<region, r>>]
      CutRows(p) ==
        \A cut \in cuts :
          SumOver({e \in g.edges : (p[e.src] \in cut.lhs) # (p[e.dst] \in cut.lhs)},
                  LAMBDA e : e.width) <= cut.capacity
  IN  {p \in OnePerPosition(domain) : ResourceRows(p) /\ CutRows(p)}
\* Every vertex in its first candidate, whether or not the rows allow it.
FirstCandidates(dev, g, c, limit, regions, parents) ==
  [v \in DOMAIN g.vertices |->
     CHOOSE r \in CandidateDomain(dev, g, c, limit, regions, parents, v) :
       \A s \in CandidateDomain(dev, g, c, limit, regions, parents, v) : ~Before(s, r)]
-----------------------------------------------------------------------------
(* The objective: width times weighted distance, vertical hops counting     *)
(* twice, measured between anchors or centroids in quarters of a unit.      *)

CentroidQuarters(region) ==
  <<2 * UNIT_DIST_X * (region.x0 + region.x1), 2 * UNIT_DIST_Y * (region.y0 + region.y1)>>
LocationQuarters(dev, vertex, region) ==
  IF vertex.tag # "none" /\ AnchorsOf(dev, vertex.tag) # {}
  THEN AnchorPositionQuarters(dev, vertex.tag) ELSE CentroidQuarters(region)
Distance(a, b) == Abs(a[1] - b[1]) + VERTICAL_DIST_PENALTY * Abs(a[2] - b[2])
Objective(dev, g, p) ==
  SumOver(g.edges, LAMBDA e :
    e.width * Distance(LocationQuarters(dev, g.vertices[e.src], p[e.src]),
                       LocationQuarters(dev, g.vertices[e.dst], p[e.dst])))

\* The rank of a region among a vertex's sorted candidates.
RankIn(domain, region) == Cardinality({s \in domain : Before(s, region)})
LexRank(dev, g, c, limit, regions, parents, p) ==
  SumOver(DOMAIN p, LAMBDA v :
    RankIn(CandidateDomain(dev, g, c, limit, regions, parents, v), p[v]))

Cheapest(S, cost(_)) ==
  LET best == Min({cost(p) : p \in S})
  IN  IF S = {} THEN {} ELSE {p \in S : cost(p) = best}
Optima(dev, g, S) == Cheapest(S, LAMBDA p : Objective(dev, g, p))
\* The pinned model of the second solve, and its optima.
Pinned(dev, g, S, p) == {q \in S : Objective(dev, g, q) <= Objective(dev, g, p)}
LexRefined(dev, g, c, limit, regions, parents, pinned) ==
  Cheapest(pinned, LAMBDA q : LexRank(dev, g, c, limit, regions, parents, q))

\* The usage each slot reports: the vertices that become cells.
PlacedUsage(g, p, region) ==
  SumAreas({v \in DOMAIN p : p[v] = region /\ g.vertices[v].materialize},
           LAMBDA v : g.vertices[v].area)
=============================================================================
