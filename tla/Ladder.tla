------------------------------- MODULE Ladder -------------------------------
(***************************************************************************)
(* The steps of solve_iteration (tapa-floorplan/src/partition/ilp.rs), which *)
(* searches the utilization ladder for the lowest rung at which a placement *)
(* exists: it probes the base rung, gallops upwards with a doubling stride   *)
(* and bisects the bracket it lands in.  A search is a record; Floorplanner  *)
(* runs it against the placement problem.                                    *)
(***************************************************************************)
EXTENDS Integers

Modes == {"base", "gallop", "bisect", "settled", "infeasible"}

Lower(a, b) == IF a <= b THEN a ELSE b

\* The search before its first probe.
LadderStart == [mode |-> "base", infeasible |-> 0, feasible |-> 0, stride |-> 1]

\* The rung probed next.
Rung(s, last) ==
  CASE s.mode = "base" -> 0
    [] s.mode = "gallop" -> Lower(s.infeasible + s.stride, last)
    [] OTHER -> s.infeasible + ((s.feasible - s.infeasible) \div 2)

\* The bracket (infeasible, feasible] is bisected until it holds one rung.
Bisect(s) ==
  [s EXCEPT !.mode = IF s.feasible - s.infeasible > 1 THEN "bisect" ELSE "settled"]

\* Mutant: the gallop's first success is taken without bisecting.
TakeFirstMutant(s, last) ==
  [s EXCEPT !.mode = "settled", !.feasible = Rung(s, last)]

\* The probe placed: the base rung settles at once, any other becomes the upper
\* end of the bracket.
AfterPlaced(s, last) ==
  IF s.mode = "base" THEN [s EXCEPT !.mode = "settled"]
  ELSE Bisect([s EXCEPT !.feasible = Rung(s, last)])

\* The probe was infeasible: at the last rung the iteration fails, below it the
\* rung becomes the lower end of the bracket and the stride doubles.
AfterInfeasible(s, last) ==
  CASE s.mode = "base" -> [s EXCEPT !.mode = IF last = 0 THEN "infeasible" ELSE "gallop"]
    [] s.mode = "gallop" ->
         IF Rung(s, last) = last THEN [s EXCEPT !.mode = "infeasible"]
         ELSE [s EXCEPT !.infeasible = Rung(s, last), !.stride = 2 * s.stride]
    [] OTHER -> Bisect([s EXCEPT !.infeasible = Rung(s, last)])
=============================================================================
