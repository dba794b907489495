---------------------------- MODULE FloorDevice -----------------------------
(***************************************************************************)
(* The device tables the floorplanner places onto: the grid of slots, their *)
(* resources, tags, anchors and wire capacities                             *)
(* (tapa-floorplan/src/device/model.rs, device/select.rs), the rectangles   *)
(* of tapa-ir/src/floorplan.rs, and the guillotine cuts of                  *)
(* tapa-floorplan/src/partition/cut.rs.  Pure operators; fractions of a     *)
(* resource are integer percentages.                                        *)
(***************************************************************************)
EXTENDS Integers, Sequences, FiniteSets, FiniteSetsExt

Resources == {"lut", "ff", "bram"}   \* bram stands for every hard block
IsLogic(r) == r \in {"lut", "ff"}
ZeroArea == [r \in Resources |-> 0]
AddArea(a, b) == [r \in Resources |-> a[r] + b[r]]
\* checked_sub refuses to wrap.
CanSub(a, b) == \A r \in Resources : b[r] <= a[r]
SubArea(a, b) == [r \in Resources |-> a[r] - b[r]]
SumOver(S, f(_)) == MapThenSumSet(f, S)
SumAreas(S, f(_)) == [r \in Resources |-> SumOver(S, LAMBDA e : f(e)[r])]

UNIT_DIST_X == 100
UNIT_DIST_Y == 150
VERTICAL_DIST_PENALTY == 2
WIRE_CAPACITY_INF == 1000000
Unbounded == -1

\* The first check of a sequence <<failed, error>> that fails, or "ok".
FirstError(checks) ==
  LET failed == SelectSeq(checks, LAMBDA c : c[1])
  IN  IF failed = <<>> THEN "ok" ELSE Head(failed)[2]
-----------------------------------------------------------------------------
(* Rectangles of grid cells (Coor).                                         *)

Slot(x, y) == [x0 |-> x, y0 |-> y, x1 |-> x, y1 |-> y]
Span(a, b, c, d) == [x0 |-> a, y0 |-> b, x1 |-> c, y1 |-> d]
Cells(r) == (r.x0 .. r.x1) \X (r.y0 .. r.y1)
CellOf(r) == <<r.x0, r.y0>>
IsAtomic(r) == r.x0 = r.x1 /\ r.y0 = r.y1
IsInside(r, s) == r.x0 >= s.x0 /\ r.y0 >= s.y0 /\ r.x1 <= s.x1 /\ r.y1 <= s.y1
\* Lexicographic order on the coordinates, as derived for Coor.
Before(r, s) ==
  LET a == <<r.x0, r.y0, r.x1, r.y1>>
      b == <<s.x0, s.y0, s.x1, s.y1>>
  IN  \E i \in 1..4 : a[i] < b[i] /\ \A j \in 1..(i - 1) : a[j] = b[j]
Abs(i) == IF i < 0 THEN -i ELSE i
Adjacent(c, d) == Abs(c[1] - d[1]) + Abs(c[2] - d[2]) = 1
\* Two rectangles share an edge when a cell of one faces a cell of the other.
Facing(r, s) == {pair \in Cells(r) \X Cells(s) : Adjacent(pair[1], pair[2])}
IsNeighbor(r, s) == Facing(r, s) # {}
-----------------------------------------------------------------------------
(* The device: [key, cols, rows, platform, slots, anchors, planned,         *)
(* ceiling, placement, clip].  slots is a sequence of [x, y, area,          *)
(* centroid, cap, tags, ranges]; cap has the four directions; anchors is a  *)
(* sequence of [tag, noc, dx, dy], offsets in quarters of a distance unit;  *)
(* ceiling is a percentage or 0 for none; clip is user_pblock_name.         *)

SlotIndices(dev) == DOMAIN dev.slots
SlotsAt(dev, c) == {i \in SlotIndices(dev) : <<dev.slots[i].x, dev.slots[i].y>> = c}
SlotAt(dev, c) == dev.slots[CHOOSE i \in SlotsAt(dev, c) : TRUE]
Grid(dev) == (0 .. dev.cols - 1) \X (0 .. dev.rows - 1)
SlotsWithTag(dev, t) == {i \in SlotIndices(dev) : t \in dev.slots[i].tags}
AnchorsOf(dev, t) == {i \in DOMAIN dev.anchors : dev.anchors[i].tag = t}
BankTags == {"HBM", "DDR"}
DeviceErrors ==
  {"EmptyGrid", "SlotOutOfBounds", "DuplicateSlot", "MissingSlot", "CentroidOffGrid",
   "BankTagWithoutPlatform", "InvalidAnchorTag", "InvalidAnchorSite", "AnchorOutsideSlot",
   "AnchorTagWithoutCapacity", "MissingPblockRanges", "InvalidPblockRange",
   "InvalidUserPblockName", "UnknownPart"}

\* The grid is complete: every cell once, its centroid on the unit grid.
ValidateGrid(dev) ==
  LET S == SlotIndices(dev)
  IN  FirstError(<<
        <<dev.cols = 0 \/ dev.rows = 0, "EmptyGrid">>,
        <<\E i \in S : <<dev.slots[i].x, dev.slots[i].y>> \notin Grid(dev), "SlotOutOfBounds">>,
        <<\E c \in Grid(dev) : Cardinality(SlotsAt(dev, c)) > 1, "DuplicateSlot">>,
        <<\E c \in Grid(dev) : SlotsAt(dev, c) = {}, "MissingSlot">>,
        <<\E i \in S : dev.slots[i].centroid #
             <<UNIT_DIST_X * dev.slots[i].x, UNIT_DIST_Y * dev.slots[i].y>>, "CentroidOffGrid">> >>)

\* Every anchor's tag is on exactly one slot, no tag has two anchors, the site
\* is a NoC site and its offset stays in the slot.
ValidateAnchors(dev) ==
  LET A == DOMAIN dev.anchors
  IN  FirstError(<<
        <<\E i \in A : Cardinality(SlotsWithTag(dev, dev.anchors[i].tag)) # 1, "InvalidAnchorTag">>,
        <<\E i \in A : Cardinality(AnchorsOf(dev, dev.anchors[i].tag)) # 1, "InvalidAnchorTag">>,
        <<\E i \in A : ~dev.anchors[i].noc, "InvalidAnchorSite">>,
        <<\E i \in A : Abs(dev.anchors[i].dx) > 2 * UNIT_DIST_X
                       \/ Abs(dev.anchors[i].dy) > 2 * UNIT_DIST_Y, "AnchorOutsideSlot">> >>)

ValidateDevice(dev) ==
  LET S == SlotIndices(dev)
  IN  IF ValidateGrid(dev) # "ok" THEN ValidateGrid(dev)
      ELSE IF dev.platform = "none" /\ \E t \in BankTags : SlotsWithTag(dev, t) # {}
      THEN "BankTagWithoutPlatform"
      ELSE IF ValidateAnchors(dev) # "ok" THEN ValidateAnchors(dev)
      ELSE FirstError(<<
        <<\E i \in S : dev.slots[i].tags # {} /\ dev.slots[i].area = ZeroArea, "AnchorTagWithoutCapacity">>,
        <<\E i \in S : dev.slots[i].ranges = {}, "MissingPblockRanges">>,
        <<\E i \in S : "bad" \in dev.slots[i].ranges, "InvalidPblockRange">>,
        <<dev.clip = "bad", "InvalidUserPblockName">> >>)

\* select_device: every table is read and validated before the first one whose
\* key, part or part family is the query is taken.
SelectDevice(tables, query) ==
  LET invalid == SelectSeq(tables, LAMBDA d : ValidateDevice(d) # "ok")
      matches == SelectSeq(tables, LAMBDA d : query \in {d.key, d.part, d.family})
  IN  IF invalid # <<>> THEN [err |-> ValidateDevice(Head(invalid))]
      ELSE IF matches = <<>> THEN [err |-> "UnknownPart"]
      ELSE [err |-> "ok", device |-> Head(matches)]

IslandArea(dev, r) == SumAreas(Cells(r), LAMBDA c : SlotAt(dev, c).area)
RegionHasTag(dev, r, t) == \E c \in Cells(r) : t \in SlotAt(dev, c).tags

\* The position of an anchor, in quarters of a distance unit.
AnchorPositionQuarters(dev, t) ==
  LET s == dev.slots[CHOOSE i \in SlotsWithTag(dev, t) : TRUE]
      a == dev.anchors[CHOOSE i \in AnchorsOf(dev, t) : TRUE]
  IN  <<4 * s.centroid[1] + a.dx, 4 * s.centroid[2] + a.dy>>
-----------------------------------------------------------------------------
(* Wire capacities and cuts.                                                *)

\* Seven tenths of the raw capacity, rounded half up without overflowing.
UsableWireCapacity(raw) == (raw \div 10) * 7 + ((raw % 10) * 7 + 5) \div 10

\* The capacity two facing declarations leave, Unbounded when neither binds.
BoundedBorderCapacity(near, far) ==
  LET cap == IF near <= far THEN near ELSE far
  IN  IF cap < WIRE_CAPACITY_INF THEN UsableWireCapacity(cap) ELSE Unbounded

\* What the slot at c declares towards its neighbour d.
DirCap(dev, c, d) ==
  LET cap == SlotAt(dev, c).cap
  IN  CASE d[2] > c[2] -> cap.north [] d[2] < c[2] -> cap.south
        [] d[1] > c[1] -> cap.east [] OTHER -> cap.west

PairCapacity(dev, c, d) == BoundedBorderCapacity(DirCap(dev, c, d), DirCap(dev, d, c))

BorderCapacity(dev, r, s) ==
  IF \E q \in Facing(r, s) : PairCapacity(dev, q[1], q[2]) = Unbounded THEN Unbounded
  ELSE SumOver(Facing(r, s), LAMBDA q : PairCapacity(dev, q[1], q[2]))

\* The straight cuts that split no region and bind on all of their border.
FindCutsForRegions(dev, regions) ==
  LET YCuts == {<<{r \in regions : r.y1 <= y}, {r \in regions : r.y0 > y}>> :
                  y \in 0 .. Max({r.y1 : r \in regions}) - 1}
      XCuts == {<<{r \in regions : r.x1 <= x}, {r \in regions : r.x0 > x}>> :
                  x \in 0 .. Max({r.x1 : r \in regions}) - 1}
      Pairs(c) == {q \in c[1] \X c[2] : IsNeighbor(q[1], q[2])}
      Clean(c) == c[1] \union c[2] = regions
      Binding(c) == \A q \in Pairs(c) : BorderCapacity(dev, q[1], q[2]) # Unbounded
  IN  {[lhs |-> c[1], rhs |-> c[2],
        capacity |-> SumOver(Pairs(c), LAMBDA q : BorderCapacity(dev, q[1], q[2]))] :
         c \in {c \in YCuts \union XCuts : Clean(c) /\ Binding(c)}}

AtomicRegions(dev) == {Slot(c[1], c[2]) : c \in Grid(dev)}
RowRegions(dev) == {Span(0, y, dev.cols - 1, y) : y \in 0 .. dev.rows - 1}
=============================================================================
