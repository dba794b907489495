----------------------- MODULE CompileFlowStepProofs -----------------------
(***************************************************************************)
(* What each step of CompileFlow does, for every set of projects and of    *)
(* candidates and every number of attempts: the first part of the proofs   *)
(* that CompileFlowProofs completes.                                       *)
(*                                                                         *)
(* A command is a sequence of operations in increasing Rank, and some of   *)
(* them it cannot leave out (Control).  This module defines the conjuncts  *)
(* of the inductive invariant, shows which files each operation touches,   *)
(* and that a step keeps Control, SynthKind, Shape and OneState.           *)
(***************************************************************************)
EXTENDS CompileFlow, TLAPS

\* The operations of each command, and where each comes in its sequence.
OpsOf == [
  analyze |-> {"tapacc", "state"},
  synth |-> {"invalidate", "aieinvalidate", "aieprep", "aieremove", "aiecompile", "aiekeep",
             "aiejson", "aieyaml", "plan", "hls", "prune", "rmrtl", "rtl", "util", "json", "yaml",
             "finish"},
  floorplan |-> {"rmxdc", "rmconn", "rmtiming", "rmmetrics", "rmrtl", "planrtl", "planstate",
                 "timing", "bits", "metrics", "conn", "xdc"},
  pack |-> {"overlay", "rawxo", "bundle", "libadf", "cfg", "control", "zipopen", "zip"},
  link |-> {"rmimage", "xsa", "link", "linked"},
  aiesim |-> {"simulate", "foldjson", "foldyaml"}]
Rank == [
  tapacc |-> 1, state |-> 2,
  invalidate |-> 1, aieinvalidate |-> 1, aieprep |-> 2, aieremove |-> 2, aiecompile |-> 3,
  aiekeep |-> 4, aiejson |-> 5, aieyaml |-> 6, plan |-> 4, hls |-> 5, prune |-> 6, rmrtl |-> 7,
  rtl |-> 8, util |-> 9, json |-> 10, yaml |-> 11, finish |-> 12,
  rmxdc |-> 1, rmconn |-> 2, rmtiming |-> 3, rmmetrics |-> 4, planrtl |-> 8, planstate |-> 9,
  timing |-> 10, bits |-> 11, metrics |-> 12, conn |-> 13, xdc |-> 14,
  overlay |-> 1, rawxo |-> 2, bundle |-> 3, libadf |-> 4, cfg |-> 5, control |-> 6, zipopen |-> 2,
  zip |-> 3, rmimage |-> 1, xsa |-> 2, link |-> 3, linked |-> 4,
  simulate |-> 1, foldjson |-> 2, foldyaml |-> 3, done |-> 20]

Ops == DOMAIN Rank

\* The elements of a sequence, and what a command has yet to do.
Elems(s) == {s[i] : i \in 1..Len(s)}
Pending == Elems(todo)

\* The operations a command does whatever its arguments.
Must ==
  IF cmd.op = "analyze" THEN {"state"}
  ELSE IF cmd.op = "synth"
  THEN IF cmd.args.aieOnly THEN {}
       ELSE {"plan", "hls", "prune", "rmrtl", "rtl", "json", "yaml", "finish"}
  ELSE IF cmd.op = "floorplan" THEN {"rmxdc", "planrtl", "planstate", "conn", "xdc"}
  ELSE IF cmd.op = "pack"
  THEN IF State.graph.target = "vitis" THEN {"bundle", "libadf", "cfg"} ELSE {"zip"}
  ELSE IF cmd.op = "link" THEN {"link"} ELSE {}

\* What is pending belongs to the command, in increasing rank, and an operation
\* that must be done is pending while one before it is.
Control ==
  /\ todo \in Seq(Ops)
  /\ todo # <<>> => cmd.op \in DOMAIN OpsOf /\ Pending \subseteq OpsOf[cmd.op] \cup {"done"}
  /\ \A i, j \in 1..Len(todo) : i < j => Rank[todo[i]] < Rank[todo[j]]
  /\ \A x \in Pending, y \in Must : Rank[x] < Rank[y] => y \in Pending

\* r is a record (a function) with the fields F.
IsRec(r, F) == r = [f \in F |-> r[f]]
WorkFields == {"tree", "tapa", "hls", "rtl", "json", "yaml", "util", "aie", "xdc", "conn",
               "timing", "bits", "metrics"}
\* The work directory, the outputs and the jobs have their fields.
Shape ==
  /\ project \in Projects
  /\ IsRec(work, WorkFields) /\ IsRec(out, {"pkg", "libadf", "cfg", "control", "image"})
  /\ IsRec(work.hls, Tasks) /\ \A t \in Tasks : IsRec(work.hls[t], {"key", "rpt", "hdl", "fresh"})
  /\ IsRec(job, Tasks)
  /\ \A r \in work.rtl : IsRec(r, {"build", "flatten", "plan", "custom"})
  /\ \A r \in work.json \cup work.yaml : IsRec(r, {"build", "aie", "timing"})

\* The flow state in tapa.json: of a graph that some version of the source has.
StateFields == {"version", "graph", "flatten", "dev", "skipAie", "synthed", "floorplan", "area"}
Graphs == UNION {{p.graph : p \in pr.programs} : pr \in Projects}
IsState(s) == IsRec(s, StateFields) /\ s.graph \in Graphs

\* There is at most one flow state, and a command that loaded it has what is on disk
\* (link reads the package's, and analyze makes a new one).
Stateful == cmd.op \in {"synth", "floorplan", "pack", "aiesim"}
OneState ==
  /\ (\A s \in work.tapa : work.tapa = {s} /\ IsState(s))
  /\ Stateful => work.tapa # {} /\ mem = work.tapa
  /\ cmd.op = "analyze" => cmd.program.graph \in Graphs

\* What HLS makes of t for the device d from the tree as it is, and what a task's
\* settings certify: one and the same complete output, for the settings' device;
\* made from the present tree unless the tree is newer.
MadeFor(s, d, t) == [dev |-> d, src |-> Sources(s.graph, Tree, t), whole |-> TRUE]
Certified(t) ==
  LET h == work.hls[t]
  IN  h.key # {} => \E m \in h.hdl : /\ h.hdl = {m} /\ h.rpt = {m}
                                     /\ \A k \in h.key : k.dev = m.dev
                                     /\ h.fresh => \A s \in work.tapa : m = MadeFor(s, m.dev, t)
\* Every task's settings certify, also once the tree is rewritten and the new state
\* is not yet there.
Cache ==
  /\ \A t \in Tasks : Certified(t)
  /\ cmd.op = "analyze" /\ "tapacc" \notin Pending => \A t \in Tasks : ~work.hls[t].fresh

\* How far a job is says what it has written, and when it has taken the settings away.
JobIs(t) ==
  LET h == work.hls[t]
      at == job[t].at
  IN  /\ t \notin HlsTasks(Pl) => at = "none"
      /\ at \notin {"start", "none", "done"} => h.key = {}
      /\ at \in {"clear", "copy", "copying", "settings"} => h.rpt = {Made(t)}
      /\ at \in {"copying", "settings"} => h.fresh
      /\ at = "settings" => h.hdl = {Made(t)}
      /\ at = "done" /\ ~cmd.args.fixtures => h.hdl = {Made(t)} /\ h.rpt = {Made(t)}
\* The jobs of a synthesis, and what they leave when all are done.
Jobs ==
  cmd.op = "synth" =>
    /\ "plan" \notin Pending /\ Pending \cap {"hls", "prune", "finish"} # {} =>
         HlsTasks(Pl) \subseteq Tasks
    /\ "hls" \in Pending /\ "plan" \notin Pending => \A t \in Tasks : JobIs(t)
    /\ "prune" \in Pending /\ "hls" \notin Pending /\ ~cmd.args.fixtures =>
         \A t \in HlsTasks(Pl) : work.hls[t].hdl = {Made(t)} /\ work.hls[t].rpt = {Made(t)}

\* One synthesis for the state s: the areas, the RTL and both reports are of the build
\* that the HDL on disk makes, and the AI Engine graph is of the state's device.
BuildOf(s) == [graph |-> s.graph.id, dev |-> s.dev,
               hdl |-> [t \in HlsTasks(Some(PlGraph(s.graph))) |-> work.hls[t].hdl]]
AieIsOf(s) == \A a \in work.aie : a.graph = s.graph.id /\ a.dev \in s.dev
WholeOf(s) ==
  /\ HlsTasks(Some(PlGraph(s.graph))) \subseteq Tasks
  /\ \E a \in s.area : s.area = {a} /\ a.build = BuildOf(s)
  /\ \A r \in work.rtl : r.build = BuildOf(s)
  /\ work.json # {} /\ work.yaml # {}
  /\ \A r \in work.json \cup work.yaml : r.build = s.area
  /\ AieIsOf(s)
Whole == \A s \in work.tapa : s.synthed => WholeOf(s)

\* --aie-only does no operation of a full synthesis, nor the other way round.
AieOps == {"aieinvalidate", "aieprep", "aiecompile", "aiekeep", "aiejson", "aieyaml", "done"}
SynthKind ==
  cmd.op = "synth" =>
    IF cmd.args.aieOnly THEN Pending \subseteq AieOps
    ELSE Pending \cap {"aieinvalidate", "aiekeep", "aiejson", "aieyaml"} = {}
\* What a synthesis in progress has already replaced.
SynthProgress ==
  cmd.op = "synth" =>
    /\ "invalidate" \in Pending => "aieprep" \in Pending \/ "aieremove" \in Pending
    /\ "invalidate" \notin Pending /\ "aieinvalidate" \notin Pending => State.dev = {cmd.dev}
    /\ "invalidate" \notin Pending /\ "finish" \in Pending =>
       /\ ~State.synthed /\ State.floorplan = {}
       /\ "aieprep" \notin Pending /\ "aieremove" \notin Pending => AieIsOf(State)
       /\ "rtl" \notin Pending => \A r \in work.rtl : r.build = Build
       /\ "json" \notin Pending => work.json # {} /\ \A r \in work.json : r.build = Areas
       /\ "yaml" \notin Pending => work.yaml # {} /\ \A r \in work.yaml : r.build = Areas

\* What a publication in progress has removed or replaced: once the old file is gone,
\* only the new plan's can be there, and the constraint file is last.
FloorplanProgress ==
  cmd.op = "floorplan" =>
    /\ State.synthed
    /\ "rmxdc" \notin Pending /\ "xdc" \in Pending => work.xdc = {}
    /\ "rmconn" \notin Pending => work.conn \subseteq {cmd.plan}
    /\ "rmtiming" \notin Pending => \A x \in work.timing : x.plan = cmd.plan
    /\ "rmmetrics" \notin Pending => \A x \in work.metrics : x.plan = cmd.plan
    /\ "rmrtl" \notin Pending => \A r \in work.rtl : r.plan = {cmd.plan}
    /\ "planstate" \notin Pending => State.floorplan = {cmd.plan}

\* Beside its constraint file, a floorplan in the state is published as a whole.
PublishedOf(s) ==
  s.floorplan # {} /\ work.xdc # {} =>
    /\ work.xdc = s.floorplan
    /\ \A r \in work.rtl : r.plan = s.floorplan
    /\ work.conn \subseteq s.floorplan
    /\ \A x \in work.timing \cup work.metrics : x.plan \in s.floorplan
Published == \A s \in work.tapa : s.synthed => PublishedOf(s)

\* What a pack in progress has written, from a synthesized and whole state.
PackProgress ==
  cmd.op = "pack" =>
    /\ State.synthed /\ (State.floorplan # {} => work.xdc # {})
    /\ "bundle" \notin Pending /\ "zip" \notin Pending => \A p \in out.pkg : p.state = mem /\ p.rtl = work.rtl
    /\ State.graph.target = "vitis" /\ "libadf" \notin Pending =>
         /\ out.libadf = (IF Partition(State) THEN work.aie ELSE {})
         /\ out.libadf = {} => out.cfg = {}
    /\ State.graph.target = "vitis" /\ "cfg" \notin Pending =>
         out.cfg = IF out.libadf # {} THEN {State.graph.id} ELSE {}

\* Once the earlier image is gone, only one of these inputs can be there.
LinkProgress ==
  cmd.op = "link" /\ "rmimage" \notin Pending =>
    \A i \in out.image : i.pkg = out.pkg /\ i.libadf = out.libadf
-----------------------------------------------------------------------------
(* Sequences of operations *)

\* The table of ranks, entry by entry.
LEMMA RankTable ==
  /\ Rank["tapacc"] = 1 /\ Rank["state"] = 2 /\ Rank["invalidate"] = 1
  /\ Rank["aieinvalidate"] = 1 /\ Rank["aieprep"] = 2 /\ Rank["aieremove"] = 2
  /\ Rank["aiecompile"] = 3 /\ Rank["aiekeep"] = 4 /\ Rank["aiejson"] = 5 /\ Rank["aieyaml"] = 6
  /\ Rank["plan"] = 4 /\ Rank["hls"] = 5 /\ Rank["prune"] = 6 /\ Rank["rmrtl"] = 7
  /\ Rank["rtl"] = 8 /\ Rank["util"] = 9 /\ Rank["json"] = 10 /\ Rank["yaml"] = 11
  /\ Rank["finish"] = 12 /\ Rank["rmxdc"] = 1 /\ Rank["rmconn"] = 2 /\ Rank["rmtiming"] = 3
  /\ Rank["rmmetrics"] = 4 /\ Rank["planrtl"] = 8 /\ Rank["planstate"] = 9 /\ Rank["timing"] = 10
  /\ Rank["bits"] = 11 /\ Rank["metrics"] = 12 /\ Rank["conn"] = 13 /\ Rank["xdc"] = 14
  /\ Rank["overlay"] = 1 /\ Rank["rawxo"] = 2 /\ Rank["bundle"] = 3 /\ Rank["libadf"] = 4
  /\ Rank["cfg"] = 5 /\ Rank["control"] = 6 /\ Rank["zipopen"] = 2 /\ Rank["zip"] = 3
  /\ Rank["rmimage"] = 1 /\ Rank["xsa"] = 2 /\ Rank["link"] = 3 /\ Rank["linked"] = 4
  /\ Rank["simulate"] = 1 /\ Rank["foldjson"] = 2 /\ Rank["foldyaml"] = 3 /\ Rank["done"] = 20
  BY DEF Rank

\* Ranks are numbers.
LEMMA RankType == Rank \in [Ops -> Nat]
  BY DEF Rank, Ops

\* Operations in order, with ranks from lo up to but not including hi.
Chain(s, lo, hi) ==
  /\ s \in Seq(Ops)
  /\ \A i \in 1..Len(s) : lo <= Rank[s[i]] /\ Rank[s[i]] < hi
  /\ \A i, j \in 1..Len(s) : i < j => Rank[s[i]] < Rank[s[j]]

\* Two stretches of operations, one after the other.
LEMMA ChainConcat ==
  ASSUME NEW s, NEW t, NEW lo \in Nat, NEW mid \in Nat, NEW hi \in Nat, lo <= mid, mid <= hi,
         Chain(s, lo, mid), Chain(t, mid, hi)
  PROVE  Chain(s \o t, lo, hi) /\ Elems(s \o t) = Elems(s) \cup Elems(t)
<1>1. /\ s \o t \in Seq(Ops) /\ Len(s \o t) = Len(s) + Len(t) /\ Len(s) \in Nat /\ Len(t) \in Nat
      /\ \A i \in 1..Len(s) : (s \o t)[i] = s[i]
      /\ \A i \in 1..Len(t) : (s \o t)[Len(s) + i] = t[i]
  BY DEF Chain
<1>2. ASSUME NEW i \in 1..Len(s \o t), NEW j \in 1..Len(s \o t), i < j
      PROVE  Rank[(s \o t)[i]] < Rank[(s \o t)[j]]
  <2>1. CASE j <= Len(s)
    BY <1>1, <1>2, <2>1 DEF Chain
  <2>2. CASE i > Len(s)
    <3>1. i - Len(s) \in 1..Len(t) /\ j - Len(s) \in 1..Len(t) /\ i - Len(s) < j - Len(s)
      BY <1>1, <1>2, <2>2
    <3>2. (s \o t)[i] = t[i - Len(s)] /\ (s \o t)[j] = t[j - Len(s)]
      BY <1>1, <3>1
    <3> QED BY <3>1, <3>2 DEF Chain
  <2>3. CASE i <= Len(s) /\ j > Len(s)
    <3>1. i \in 1..Len(s) /\ j - Len(s) \in 1..Len(t)
      BY <1>1, <1>2, <2>3
    <3>2. (s \o t)[i] = s[i] /\ (s \o t)[j] = t[j - Len(s)]
      BY <1>1, <3>1
    <3>3. s[i] \in Ops /\ t[j - Len(s)] \in Ops
      BY <3>1 DEF Chain
    <3>4. Rank[s[i]] \in Nat /\ Rank[t[j - Len(s)]] \in Nat
      BY <3>3, RankType
    <3>5. Rank[s[i]] < mid /\ mid <= Rank[t[j - Len(s)]]
      BY <3>1 DEF Chain
    <3>6. Rank[s[i]] < Rank[t[j - Len(s)]]
      BY ONLY <3>4, <3>5, mid \in Nat
    <3> QED BY <3>2, <3>6
  <2> QED BY <1>1, <2>1, <2>2, <2>3
<1>3. Elems(s \o t) = Elems(s) \cup Elems(t)
  <2>1. ASSUME NEW x \in Elems(s \o t) PROVE x \in Elems(s) \cup Elems(t)
    <3>1. PICK i \in 1..Len(s \o t) : x = (s \o t)[i]
      BY <2>1 DEF Elems
    <3>2. CASE i <= Len(s)
      BY <1>1, <3>1, <3>2 DEF Elems
    <3>3. CASE i > Len(s)
      <4>1. i - Len(s) \in 1..Len(t) /\ x = t[i - Len(s)]
        BY <1>1, <3>1, <3>3
      <4> QED BY <4>1 DEF Elems
    <3> QED BY <1>1, <3>2, <3>3
  <2>2. ASSUME NEW x \in Elems(s) PROVE x \in Elems(s \o t)
    <3>1. PICK i \in 1..Len(s) : x = s[i]
      BY <2>2 DEF Elems
    <3>2. i \in 1..Len(s \o t) /\ (s \o t)[i] = x
      BY <1>1, <3>1
    <3> QED BY <3>2 DEF Elems
  <2>3. ASSUME NEW x \in Elems(t) PROVE x \in Elems(s \o t)
    <3>1. PICK i \in 1..Len(t) : x = t[i]
      BY <2>3 DEF Elems
    <3>2. Len(s) + i \in 1..Len(s \o t) /\ (s \o t)[Len(s) + i] = x
      BY <1>1, <3>1
    <3> QED BY <3>2 DEF Elems
  <2> QED BY <2>1, <2>2, <2>3
<1>4. ASSUME NEW i \in 1..Len(s \o t) PROVE lo <= Rank[(s \o t)[i]] /\ Rank[(s \o t)[i]] < hi
  <2>1. (s \o t)[i] \in Ops
    BY <1>1, <1>4
  <2>2. Rank[(s \o t)[i]] \in Nat
    BY <2>1, RankType
  <2>3. CASE i <= Len(s)
    BY <1>1, <2>2, <2>3 DEF Chain
  <2>4. CASE i > Len(s)
    <3>1. i - Len(s) \in 1..Len(t) /\ (s \o t)[i] = t[i - Len(s)]
      BY <1>1, <2>4
    <3> QED BY <2>2, <3>1 DEF Chain
  <2> QED BY <1>1, <2>3, <2>4
<1> QED BY <1>1, <1>2, <1>3, <1>4, Zenon DEF Chain


\* Every operation of a command is in the table.
LEMMA OpsTable ==
  {"tapacc", "state", "aieinvalidate", "aieprep", "aiecompile", "aiekeep", "aiejson", "aieyaml",
   "invalidate", "aieremove", "plan", "hls", "prune", "rmrtl", "rtl", "util", "json", "yaml",
   "finish", "rmxdc", "rmconn", "rmtiming", "rmmetrics", "planrtl", "planstate", "timing",
   "bits", "metrics", "conn", "xdc", "overlay", "rawxo", "bundle", "libadf", "cfg",
   "control", "zipopen", "zip", "rmimage", "xsa", "link", "linked", "simulate", "foldjson",
   "foldyaml", "done"} \subseteq Ops
  BY DEF Ops, Rank

\* The stretches that the commands are put together from.
LEMMA Stretches ==
  /\ \A lo, hi \in Nat : Chain(<<>>, lo, hi) /\ Elems(<<>>) = {}
  /\ Chain(<<"tapacc", "state">>, 1, 3)
  /\ Chain(<<"aieinvalidate", "aieprep", "aiecompile", "aiekeep", "aiejson", "aieyaml">>, 1, 7)
  /\ Chain(<<"invalidate">>, 1, 2)
  /\ Chain(<<"aieprep", "aiecompile">>, 2, 4)
  /\ Chain(<<"aieremove">>, 2, 4)
  /\ Chain(<<"plan", "hls", "prune", "rmrtl", "rtl">>, 4, 9)
  /\ Chain(<<"util">>, 9, 10)
  /\ Chain(<<"json", "yaml", "finish">>, 10, 13)
  /\ Chain(<<"rmxdc", "rmconn", "rmtiming", "rmmetrics">>, 1, 5)
  /\ Chain(<<"rmrtl", "planrtl", "planstate">>, 5, 10)
  /\ Chain(<<"timing", "bits", "metrics">>, 10, 13)
  /\ Chain(<<"conn", "xdc">>, 13, 15)
  /\ Chain(<<"overlay">>, 1, 2)
  /\ Chain(<<"rawxo", "bundle", "libadf", "cfg", "control">>, 2, 7)
  /\ Chain(<<"zipopen", "zip">>, 2, 7)
  /\ Chain(<<"rmimage">>, 1, 2)
  /\ Chain(<<"xsa">>, 2, 3)
  /\ Chain(<<"link", "linked">>, 3, 5)
  /\ Chain(<<"simulate", "foldjson", "foldyaml">>, 1, 4)
  /\ Chain(<<"simulate">>, 1, 2)
  /\ Elems(<<"tapacc", "state">>) = {"tapacc", "state"}
  /\ Elems(<<"aieinvalidate", "aieprep", "aiecompile", "aiekeep", "aiejson", "aieyaml">>) = {"aieinvalidate", "aieprep", "aiecompile", "aiekeep", "aiejson", "aieyaml"}
  /\ Elems(<<"invalidate">>) = {"invalidate"}
  /\ Elems(<<"aieprep", "aiecompile">>) = {"aieprep", "aiecompile"}
  /\ Elems(<<"aieremove">>) = {"aieremove"}
  /\ Elems(<<"plan", "hls", "prune", "rmrtl", "rtl">>) = {"plan", "hls", "prune", "rmrtl", "rtl"}
  /\ Elems(<<"util">>) = {"util"}
  /\ Elems(<<"json", "yaml", "finish">>) = {"json", "yaml", "finish"}
  /\ Elems(<<"rmxdc", "rmconn", "rmtiming", "rmmetrics">>) = {"rmxdc", "rmconn", "rmtiming", "rmmetrics"}
  /\ Elems(<<"rmrtl", "planrtl", "planstate">>) = {"rmrtl", "planrtl", "planstate"}
  /\ Elems(<<"timing", "bits", "metrics">>) = {"timing", "bits", "metrics"}
  /\ Elems(<<"conn", "xdc">>) = {"conn", "xdc"}
  /\ Elems(<<"overlay">>) = {"overlay"}
  /\ Elems(<<"rawxo", "bundle", "libadf", "cfg", "control">>) = {"rawxo", "bundle", "libadf", "cfg", "control"}
  /\ Elems(<<"zipopen", "zip">>) = {"zipopen", "zip"}
  /\ Elems(<<"rmimage">>) = {"rmimage"}
  /\ Elems(<<"xsa">>) = {"xsa"}
  /\ Elems(<<"link", "linked">>) = {"link", "linked"}
  /\ Elems(<<"simulate", "foldjson", "foldyaml">>) = {"simulate", "foldjson", "foldyaml"}
  /\ Elems(<<"simulate">>) = {"simulate"}
<1>0. \A lo, hi \in Nat : Chain(<<>>, lo, hi) /\ Elems(<<>>) = {}
  BY DEF Chain, Elems
<1>1. Chain(<<"tapacc", "state">>, 1, 3)
  BY RankTable, OpsTable DEF Chain
<1>2. Chain(<<"aieinvalidate", "aieprep", "aiecompile", "aiekeep", "aiejson", "aieyaml">>, 1, 7)
  BY RankTable, OpsTable DEF Chain
<1>3. Chain(<<"invalidate">>, 1, 2)
  BY RankTable, OpsTable DEF Chain
<1>4. Chain(<<"aieprep", "aiecompile">>, 2, 4)
  BY RankTable, OpsTable DEF Chain
<1>5. Chain(<<"aieremove">>, 2, 4)
  BY RankTable, OpsTable DEF Chain
<1>6. Chain(<<"plan", "hls", "prune", "rmrtl", "rtl">>, 4, 9)
  BY RankTable, OpsTable DEF Chain
<1>7. Chain(<<"util">>, 9, 10)
  BY RankTable, OpsTable DEF Chain
<1>8. Chain(<<"json", "yaml", "finish">>, 10, 13)
  BY RankTable, OpsTable DEF Chain
<1>9. Chain(<<"rmxdc", "rmconn", "rmtiming", "rmmetrics">>, 1, 5)
  BY RankTable, OpsTable DEF Chain
<1>10. Chain(<<"rmrtl", "planrtl", "planstate">>, 5, 10)
  BY RankTable, OpsTable DEF Chain
<1>11. Chain(<<"timing", "bits", "metrics">>, 10, 13)
  BY RankTable, OpsTable DEF Chain
<1>12. Chain(<<"conn", "xdc">>, 13, 15)
  BY RankTable, OpsTable DEF Chain
<1>13. Chain(<<"overlay">>, 1, 2)
  BY RankTable, OpsTable DEF Chain
<1>14. Chain(<<"rawxo", "bundle", "libadf", "cfg", "control">>, 2, 7)
  BY RankTable, OpsTable DEF Chain
<1>15. Chain(<<"zipopen", "zip">>, 2, 7)
  BY RankTable, OpsTable DEF Chain
<1>16. Chain(<<"rmimage">>, 1, 2)
  BY RankTable, OpsTable DEF Chain
<1>17. Chain(<<"xsa">>, 2, 3)
  BY RankTable, OpsTable DEF Chain
<1>18. Chain(<<"link", "linked">>, 3, 5)
  BY RankTable, OpsTable DEF Chain
<1>19. Chain(<<"simulate", "foldjson", "foldyaml">>, 1, 4)
  BY RankTable, OpsTable DEF Chain
<1>20. Chain(<<"simulate">>, 1, 2)
  BY RankTable, OpsTable DEF Chain
<1>21. Elems(<<"tapacc", "state">>) = {"tapacc", "state"}
  BY DEF Elems
<1>22. Elems(<<"aieinvalidate", "aieprep", "aiecompile", "aiekeep", "aiejson", "aieyaml">>) = {"aieinvalidate", "aieprep", "aiecompile", "aiekeep", "aiejson", "aieyaml"}
  BY DEF Elems
<1>23. Elems(<<"invalidate">>) = {"invalidate"}
  BY DEF Elems
<1>24. Elems(<<"aieprep", "aiecompile">>) = {"aieprep", "aiecompile"}
  BY DEF Elems
<1>25. Elems(<<"aieremove">>) = {"aieremove"}
  BY DEF Elems
<1>26. Elems(<<"plan", "hls", "prune", "rmrtl", "rtl">>) = {"plan", "hls", "prune", "rmrtl", "rtl"}
  BY DEF Elems
<1>27. Elems(<<"util">>) = {"util"}
  BY DEF Elems
<1>28. Elems(<<"json", "yaml", "finish">>) = {"json", "yaml", "finish"}
  BY DEF Elems
<1>29. Elems(<<"rmxdc", "rmconn", "rmtiming", "rmmetrics">>) = {"rmxdc", "rmconn", "rmtiming", "rmmetrics"}
  BY DEF Elems
<1>30. Elems(<<"rmrtl", "planrtl", "planstate">>) = {"rmrtl", "planrtl", "planstate"}
  BY DEF Elems
<1>31. Elems(<<"timing", "bits", "metrics">>) = {"timing", "bits", "metrics"}
  BY DEF Elems
<1>32. Elems(<<"conn", "xdc">>) = {"conn", "xdc"}
  BY DEF Elems
<1>33. Elems(<<"overlay">>) = {"overlay"}
  BY DEF Elems
<1>34. Elems(<<"rawxo", "bundle", "libadf", "cfg", "control">>) = {"rawxo", "bundle", "libadf", "cfg", "control"}
  BY DEF Elems
<1>35. Elems(<<"zipopen", "zip">>) = {"zipopen", "zip"}
  BY DEF Elems
<1>36. Elems(<<"rmimage">>) = {"rmimage"}
  BY DEF Elems
<1>37. Elems(<<"xsa">>) = {"xsa"}
  BY DEF Elems
<1>38. Elems(<<"link", "linked">>) = {"link", "linked"}
  BY DEF Elems
<1>39. Elems(<<"simulate", "foldjson", "foldyaml">>) = {"simulate", "foldjson", "foldyaml"}
  BY DEF Elems
<1>40. Elems(<<"simulate">>) = {"simulate"}
  BY DEF Elems
<1> QED BY <1>0, <1>1, <1>2, <1>3, <1>4, <1>5, <1>6, <1>7, <1>8, <1>9, <1>10, <1>11, <1>12, <1>13,
           <1>14, <1>15, <1>16, <1>17, <1>18, <1>19, <1>20, <1>21, <1>22, <1>23, <1>24, <1>25, <1>26,
           <1>27, <1>28, <1>29, <1>30, <1>31, <1>32, <1>33, <1>34, <1>35, <1>36, <1>37, <1>38, <1>39,
           <1>40

\* A stretch may be given more room.
LEMMA ChainWiden ==
  ASSUME NEW s, NEW lo \in Nat, NEW hi \in Nat, NEW a \in Nat, NEW b \in Nat, a <= lo, hi <= b,
         Chain(s, lo, hi)
  PROVE  Chain(s, a, b)
<1>1. ASSUME NEW i \in 1..Len(s) PROVE a <= Rank[s[i]] /\ Rank[s[i]] < b
  <2>1. Rank[s[i]] \in Nat
    BY RankType DEF Chain
  <2> QED BY <2>1 DEF Chain
<1> QED BY <1>1 DEF Chain

\* synth's operations, in order.
LEMMA SynthChain ==
  ASSUME NEW args, NEW state
  PROVE  LET ops == SynthOps(args, state) IN
         /\ Chain(ops, 1, 20) /\ Elems(ops) \subseteq OpsOf["synth"]
         /\ args.aieOnly => "aieinvalidate" \in Elems(ops) /\ Elems(ops) \subseteq AieOps
         /\ ~args.aieOnly => /\ {"invalidate", "plan", "hls", "prune", "rmrtl", "rtl", "json", "yaml",
                                "finish"} \subseteq Elems(ops)
                             /\ "aieprep" \in Elems(ops) \/ "aieremove" \in Elems(ops)
                             /\ Elems(ops) \cap {"aieinvalidate", "aiekeep", "aiejson",
                                                "aieyaml"} = {}
<1>1. CASE args.aieOnly
  <2> DEFINE ops == <<"aieinvalidate", "aieprep", "aiecompile", "aiekeep", "aiejson", "aieyaml">>
  <2>1. SynthOps(args, state) = ops
    BY <1>1 DEF SynthOps
  <2>2. /\ Chain(ops, 1, 7)
        /\ Elems(ops) = {"aieinvalidate", "aieprep", "aiecompile", "aiekeep", "aiejson", "aieyaml"}
    BY Stretches
  <2> HIDE DEF ops
  <2>3. Chain(ops, 1, 20)
    BY <2>2, ChainWiden
  <2> QED BY <1>1, <2>1, <2>2, <2>3 DEF OpsOf, AieOps
<1>2. CASE ~args.aieOnly
  <2> DEFINE a == <<"invalidate">>
             b == IF Partition(state) /\ ~args.skipAie THEN <<"aieprep", "aiecompile">>
                  ELSE <<"aieremove">>
             c == IF args.util THEN <<"util">> ELSE <<>>
             d == <<"json", "yaml", "finish">>
  <2>1. SynthOps(args, state) = (((a \o b) \o SynthRest) \o c) \o d
    BY <1>2, Zenon DEF SynthOps
  <2>2. Chain(a, 1, 2) /\ Elems(a) = {"invalidate"}
    BY Stretches
  <2>3. /\ Chain(b, 2, 4)
        /\ Elems(b) = {"aieprep", "aiecompile"} \/ Elems(b) = {"aieremove"}
    BY Stretches
  <2>4. /\ Chain(SynthRest, 4, 9) /\ Elems(SynthRest) = {"plan", "hls", "prune", "rmrtl", "rtl"}
    BY Stretches DEF SynthRest
  <2>5. Chain(c, 9, 10) /\ Elems(c) \subseteq {"util"}
    BY Stretches
  <2>6. Chain(d, 10, 13) /\ Elems(d) = {"json", "yaml", "finish"}
    BY Stretches
  <2> HIDE DEF a, b, c, d
  <2>7. Chain(a \o b, 1, 4) /\ Elems(a \o b) = Elems(a) \cup Elems(b)
    BY <2>2, <2>3, ChainConcat
  <2> DEFINE ab == a \o b
  <2> HIDE DEF ab
  <2>8. Chain(ab \o SynthRest, 1, 9) /\ Elems(ab \o SynthRest) = Elems(ab) \cup Elems(SynthRest)
    BY <2>4, <2>7, ChainConcat DEF ab
  <2> DEFINE abr == ab \o SynthRest
  <2> HIDE DEF abr
  <2>9. Chain(abr \o c, 1, 10) /\ Elems(abr \o c) = Elems(abr) \cup Elems(c)
    BY <2>5, <2>8, ChainConcat DEF abr
  <2> DEFINE abrc == abr \o c
  <2> HIDE DEF abrc
  <2>10. Chain(abrc \o d, 1, 13) /\ Elems(abrc \o d) = Elems(abrc) \cup Elems(d)
    BY <2>6, <2>9, ChainConcat DEF abrc
  <2>11. SynthOps(args, state) = abrc \o d
    BY <2>1 DEF ab, abr, abrc
  <2>12. Elems(abrc \o d) = Elems(a) \cup Elems(b) \cup Elems(SynthRest) \cup Elems(c) \cup Elems(d)
    BY <2>7, <2>8, <2>9, <2>10 DEF ab, abr, abrc
  <2>13. Chain(abrc \o d, 1, 20)
    BY <2>10, ChainWiden
  <2> QED BY <1>2, <2>2, <2>3, <2>4, <2>5, <2>6, <2>11, <2>12, <2>13 DEF OpsOf
<1> QED BY <1>1, <1>2

\* floorplan's operations, in order.
LEMMA PublishChain ==
  ASSUME NEW impl
  PROVE  /\ Chain(Publish(impl), 1, 20) /\ Elems(Publish(impl)) \subseteq OpsOf["floorplan"]
         /\ {"rmxdc", "rmconn", "rmtiming", "rmmetrics", "rmrtl", "planrtl", "planstate", "conn",
             "xdc"} \subseteq Elems(Publish(impl))
<1> DEFINE b == <<"rmrtl", "planrtl", "planstate">>
           c == IF impl THEN <<"timing", "bits", "metrics">> ELSE <<>>
           d == <<"conn", "xdc">>
<1>1. Publish(impl) = ((Unpublish \o b) \o c) \o d
  BY DEF Publish
<1>2. Chain(Unpublish, 1, 5) /\ Elems(Unpublish) = {"rmxdc", "rmconn", "rmtiming", "rmmetrics"}
  BY Stretches DEF Unpublish
<1>3. Chain(b, 5, 10) /\ Elems(b) = {"rmrtl", "planrtl", "planstate"}
  BY Stretches
<1>4. Chain(c, 10, 13) /\ Elems(c) \subseteq {"timing", "bits", "metrics"}
  BY Stretches
<1>5. Chain(d, 13, 15) /\ Elems(d) = {"conn", "xdc"}
  BY Stretches
<1> HIDE DEF b, c, d
<1>6. Chain(Unpublish \o b, 1, 10) /\ Elems(Unpublish \o b) = Elems(Unpublish) \cup Elems(b)
  BY <1>2, <1>3, ChainConcat
<1> DEFINE ub == Unpublish \o b
<1> HIDE DEF ub
<1>7. Chain(ub \o c, 1, 13) /\ Elems(ub \o c) = Elems(ub) \cup Elems(c)
  BY <1>4, <1>6, ChainConcat DEF ub
<1> DEFINE ubc == ub \o c
<1> HIDE DEF ubc
<1>8. Chain(ubc \o d, 1, 15) /\ Elems(ubc \o d) = Elems(ubc) \cup Elems(d)
  BY <1>5, <1>7, ChainConcat DEF ubc
<1>9. Publish(impl) = ubc \o d
  BY <1>1 DEF ub, ubc
<1>10. Elems(ubc \o d) = Elems(Unpublish) \cup Elems(b) \cup Elems(c) \cup Elems(d)
  BY <1>6, <1>7, <1>8 DEF ub, ubc
<1>11. Chain(ubc \o d, 1, 20)
  BY <1>8, ChainWiden
<1> QED BY <1>2, <1>3, <1>4, <1>5, <1>9, <1>10, <1>11 DEF OpsOf

\* pack's operations, in order.
LEMMA PackChain ==
  ASSUME NEW state, NEW custom
  PROVE  LET ops == PackOps(state, custom) IN
         /\ Chain(ops, 1, 20) /\ Elems(ops) \subseteq OpsOf["pack"]
         /\ state.graph.target = "vitis" => {"bundle", "libadf", "cfg"} \subseteq Elems(ops)
         /\ state.graph.target # "vitis" => "zip" \in Elems(ops)
<1> DEFINE a == IF custom THEN <<"overlay">> ELSE <<>>
           b == IF state.graph.target = "vitis" THEN <<"rawxo", "bundle", "libadf", "cfg", "control">>
                ELSE <<"zipopen", "zip">>
<1>1. PackOps(state, custom) = a \o b
  BY DEF PackOps
<1>2. Chain(a, 1, 2) /\ Elems(a) \subseteq {"overlay"}
  BY Stretches
<1>3. /\ Chain(b, 2, 7)
      /\ state.graph.target = "vitis" => Elems(b) = {"rawxo", "bundle", "libadf", "cfg", "control"}
      /\ state.graph.target # "vitis" => Elems(b) = {"zipopen", "zip"}
  BY Stretches
<1> HIDE DEF a, b
<1>4. Chain(a \o b, 1, 7) /\ Elems(a \o b) = Elems(a) \cup Elems(b)
  BY <1>2, <1>3, ChainConcat
<1>5. Chain(a \o b, 1, 20)
  BY <1>4, ChainWiden
<1> QED BY <1>1, <1>2, <1>3, <1>4, <1>5 DEF OpsOf

\* link's operations, in order.
LEMMA LinkChain ==
  ASSUME NEW slash, NEW aie
  PROVE  LET ops == (IF slash THEN <<>> ELSE <<"rmimage">>) \o (IF aie THEN <<"xsa">> ELSE <<>>)
                    \o <<"link", "linked">> IN
         /\ Chain(ops, 1, 20) /\ Elems(ops) \subseteq OpsOf["link"]
         /\ "link" \in Elems(ops) /\ (~slash => "rmimage" \in Elems(ops))
<1> DEFINE a == IF slash THEN <<>> ELSE <<"rmimage">>
           b == IF aie THEN <<"xsa">> ELSE <<>>
           c == <<"link", "linked">>
<1>1. Chain(a, 1, 2) /\ Elems(a) \subseteq {"rmimage"} /\ (~slash => "rmimage" \in Elems(a))
  BY Stretches
<1>2. Chain(b, 2, 3) /\ Elems(b) \subseteq {"xsa"}
  BY Stretches
<1>3. Chain(c, 3, 5) /\ Elems(c) = {"link", "linked"}
  BY Stretches
<1> HIDE DEF a, b, c
<1>4. Chain(a \o b, 1, 3) /\ Elems(a \o b) = Elems(a) \cup Elems(b)
  BY <1>1, <1>2, ChainConcat
<1> DEFINE ab == a \o b
<1> HIDE DEF ab
<1>5. Chain(ab \o c, 1, 5) /\ Elems(ab \o c) = Elems(ab) \cup Elems(c)
  BY <1>3, <1>4, ChainConcat DEF ab
<1>6. Chain(ab \o c, 1, 20)
  BY <1>5, ChainWiden
<1>7. /\ Chain((a \o b) \o c, 1, 20) /\ Elems((a \o b) \o c) \subseteq OpsOf["link"]
      /\ "link" \in Elems((a \o b) \o c) /\ (~slash => "rmimage" \in Elems((a \o b) \o c))
  BY <1>1, <1>2, <1>3, <1>4, <1>5, <1>6 DEF ab, OpsOf
<1> QED BY <1>7 DEF a, b, c

\* A command's operations end with "done".
LEMMA ChainDone ==
  ASSUME NEW s, Chain(s, 1, 20)
  PROVE  Chain(Append(s, "done"), 1, 21) /\ Elems(Append(s, "done")) = Elems(s) \cup {"done"}
<1> DEFINE d == <<"done">>
<1>1. Chain(d, 20, 21) /\ Elems(d) = {"done"}
  BY RankTable, OpsTable DEF Chain, Elems
<1>2. Append(s, "done") = s \o d
  <2>1. s \in Seq(Ops) /\ d \in Seq(Ops) /\ "done" \in Ops
    BY <1>1, OpsTable DEF Chain
  <2> QED BY <2>1
<1> HIDE DEF d
<1>3. Chain(s \o d, 1, 21) /\ Elems(s \o d) = Elems(s) \cup Elems(d)
  BY <1>1, ChainConcat
<1> QED BY <1>1, <1>2, <1>3, Zenon

\* A command starts with all of its operations ahead of it.
LEMMA StartControl ==
  ASSUME NEW c, NEW state, NEW ops, Start(c, state, ops), Chain(ops, 1, 20),
         c.op \in DOMAIN OpsOf, Elems(ops) \subseteq OpsOf[c.op], Must' \subseteq Elems(ops)
  PROVE  /\ Control' /\ Pending' = Elems(ops) \cup {"done"} /\ cmd' = c /\ mem' = state
         /\ UNCHANGED <<project, work, out, job>>
<1>1. todo' = Append(ops, "done") /\ cmd' = c /\ mem' = state /\ UNCHANGED <<project, work, out, job>>
  BY DEF Start
<1>2. Chain(todo', 1, 21) /\ Pending' = Elems(ops) \cup {"done"}
  BY <1>1, ChainDone DEF Pending
<1> QED BY <1>1, <1>2 DEF Control, Chain

\* What a step of a command leaves to do, and what cannot be left.
LEMMA TodoStep ==
  ASSUME Control, NEW op, At(op), todo' = Tail(todo)
  PROVE  /\ op \in Pending /\ op \in Ops /\ Pending' = Pending \ {op}
         /\ \A x \in Pending : x \in Ops /\ (x = op \/ Rank[op] < Rank[x])
         /\ cmd.op \in DOMAIN OpsOf /\ Pending \subseteq OpsOf[cmd.op] \cup {"done"}
         /\ \A y \in Must : Rank[op] < Rank[y] => y \in Pending
         /\ todo' \in Seq(Ops)
         /\ \A i, j \in 1..Len(todo') : i < j => Rank[todo'[i]] < Rank[todo'[j]]
<1>1. todo \in Seq(Ops) /\ todo # <<>> /\ Head(todo) = op
  BY DEF Control, At
<1>2. /\ Len(todo) \in Nat \ {0} /\ todo[1] = op /\ op \in Ops
      /\ todo' \in Seq(Ops) /\ Len(todo') = Len(todo) - 1
      /\ \A i \in 1..Len(todo') : todo'[i] = todo[i + 1]
  BY <1>1
<1>3. op \in Pending
  BY <1>2 DEF Pending, Elems
<1>4. ASSUME NEW x \in Pending PROVE x \in Ops /\ (x = op \/ Rank[op] < Rank[x])
  <2>1. PICK i \in 1..Len(todo) : x = todo[i]
    BY DEF Pending, Elems
  <2>2. x \in Ops
    BY <1>1, <2>1
  <2>3. CASE i = 1
    BY <1>2, <2>1, <2>2, <2>3
  <2>4. CASE i > 1
    <3>1. 1 \in 1..Len(todo) /\ 1 < i
      BY <1>2, <2>4
    <3> QED BY <1>2, <2>1, <2>2, <3>1 DEF Control
  <2> QED BY <1>2, <2>1, <2>3, <2>4
<1>5. Pending' = Pending \ {op}
  <2>1. ASSUME NEW x \in Pending' PROVE x \in Pending /\ x # op
    <3>1. PICK i \in 1..Len(todo') : x = todo'[i]
      BY DEF Pending, Elems
    <3>2. i + 1 \in 1..Len(todo) /\ x = todo[i + 1] /\ 1 \in 1..Len(todo) /\ 1 < i + 1
      BY <1>2, <3>1
    <3>3. Rank[op] < Rank[x]
      BY <1>2, <3>2 DEF Control
    <3>4. Rank[op] \in Nat
      BY <1>2, RankType
    <3> QED BY <3>2, <3>3, <3>4 DEF Pending, Elems
  <2>2. ASSUME NEW x \in Pending, x # op PROVE x \in Pending'
    <3>1. PICK i \in 1..Len(todo) : x = todo[i]
      BY DEF Pending, Elems
    <3>2. i - 1 \in 1..Len(todo') /\ todo'[i - 1] = todo[i]
      BY <1>2, <2>2, <3>1
    <3> QED BY <3>1, <3>2 DEF Pending, Elems
  <2> QED BY <2>1, <2>2
<1>6. ASSUME NEW i \in 1..Len(todo'), NEW j \in 1..Len(todo'), i < j
      PROVE  Rank[todo'[i]] < Rank[todo'[j]]
  <2>1. i + 1 \in 1..Len(todo) /\ j + 1 \in 1..Len(todo) /\ i + 1 < j + 1
    BY <1>2, <1>6
  <2> QED BY <1>2, <2>1 DEF Control
<1>7. cmd.op \in DOMAIN OpsOf /\ Pending \subseteq OpsOf[cmd.op] \cup {"done"}
  BY <1>1 DEF Control
<1>8. \A y \in Must : Rank[op] < Rank[y] => y \in Pending
  BY <1>3 DEF Control
<1> QED BY <1>2, <1>3, <1>4, <1>5, <1>6, <1>7, <1>8

\* A step of a command keeps the order of what is left.
LEMMA DoesControl ==
  ASSUME Control, NEW op, Does(op), cmd.op = "pack" => mem' = mem
  PROVE  /\ Control' /\ cmd' = cmd
         /\ op \in Pending /\ op \in Ops /\ Pending' = Pending \ {op}
         /\ \A x \in Pending : x \in Ops /\ (x = op \/ Rank[op] < Rank[x])
         /\ cmd.op \in DOMAIN OpsOf /\ Pending \subseteq OpsOf[cmd.op] \cup {"done"}
         /\ \A y \in Must : Rank[op] < Rank[y] => y \in Pending
<1>1. At(op) /\ todo' = Tail(todo) /\ cmd' = cmd
  BY DEF Does
<1>2. /\ op \in Pending /\ op \in Ops /\ Pending' = Pending \ {op}
      /\ \A x \in Pending : x \in Ops /\ (x = op \/ Rank[op] < Rank[x])
      /\ cmd.op \in DOMAIN OpsOf /\ Pending \subseteq OpsOf[cmd.op] \cup {"done"}
      /\ \A y \in Must : Rank[op] < Rank[y] => y \in Pending
      /\ todo' \in Seq(Ops)
      /\ \A i, j \in 1..Len(todo') : i < j => Rank[todo'[i]] < Rank[todo'[j]]
  BY <1>1, TodoStep, Zenon
<1>3. Must' = Must
  BY <1>1 DEF Must, State
<1>4. ASSUME NEW x \in Pending', NEW y \in Must', Rank[x] < Rank[y] PROVE y \in Pending'
  <2>1. x \in Pending /\ y \in Must /\ x \in Ops /\ Rank[op] < Rank[x]
    BY <1>2, <1>3, <1>4
  <2>2. y \in Pending
    BY <1>4, <2>1 DEF Control
  <2>3. Rank[op] \in Nat /\ Rank[x] \in Nat
    BY <1>2, <2>1, RankType
  <2> QED BY <1>2, <1>4, <2>1, <2>2, <2>3
<1> QED BY <1>1, <1>2, <1>4 DEF Control

\* The option that holds one value.
LEMMA SomeOne == \A x : Some({x}) = x
  BY DEF Some

\* analyze starts with tapacc and the state ahead.
LEMMA AnalyzeStarts ==
  ASSUME Analyze
  PROVE  /\ Control' /\ cmd'.op = "analyze" /\ "tapacc" \in Pending'
         /\ \E p \in project.programs : cmd'.program = p
         /\ UNCHANGED <<project, work, out, job>>
<1>1. PICK p \in project.programs :
        Start([op |-> "analyze", program |-> p], {}, <<"tapacc", "state">>)
  BY DEF Analyze
<1> DEFINE c == [op |-> "analyze", program |-> p]
           ops == <<"tapacc", "state">>
<1>2. Chain(ops, 1, 20) /\ Elems(ops) = {"tapacc", "state"}
  BY Stretches, ChainWiden
<1>3. c.op = "analyze" /\ c.program = p /\ cmd' = c
  BY <1>1 DEF Start
<1>4. Must' = {"state"}
  BY <1>3 DEF Must
<1>5. "analyze" \in DOMAIN OpsOf /\ {"tapacc", "state"} \subseteq OpsOf["analyze"]
  BY DEF OpsOf
<1> HIDE DEF c, ops
<1>6. Start(c, {}, ops)
  BY <1>1 DEF c, ops
<1>7. /\ Control' /\ Pending' = Elems(ops) \cup {"done"} /\ cmd' = c
      /\ UNCHANGED <<project, work, out, job>>
  BY <1>2, <1>3, <1>4, <1>5, <1>6, StartControl
<1> QED BY <1>2, <1>3, <1>7

\* synth starts with the device ahead of everything.
LEMMA SynthStarts ==
  ASSUME Synth
  PROVE  /\ Control' /\ cmd'.op = "synth" /\ UNCHANGED <<project, work, out, job>>
         /\ \E state \in Loaded : mem' = {state}
         /\ SynthKind'
         /\ cmd'.args.aieOnly => "aieinvalidate" \in Pending'
         /\ ~cmd'.args.aieOnly => /\ "invalidate" \in Pending' /\ "plan" \in Pending'
                                  /\ "hls" \in Pending'
                                  /\ "aieprep" \in Pending' \/ "aieremove" \in Pending'
<1>1. PICK args \in project.synth, state \in Loaded :
        \E dev \in ResolveDeviceInfo(args, state.graph.target) :
          Start([op |-> "synth", args |-> args, dev |-> dev], {state}, SynthOps(args, state))
  BY Zenon DEF Synth
<1>2. PICK dev \in ResolveDeviceInfo(args, state.graph.target) :
        Start([op |-> "synth", args |-> args, dev |-> dev], {state}, SynthOps(args, state))
  BY <1>1
<1> DEFINE c == [op |-> "synth", args |-> args, dev |-> dev]
           ops == SynthOps(args, state)
<1>3. c.op = "synth" /\ c.args = args /\ cmd' = c
  BY <1>2 DEF Start
<1>4. Must' = IF args.aieOnly THEN {}
              ELSE {"plan", "hls", "prune", "rmrtl", "rtl", "json", "yaml", "finish"}
  BY <1>3 DEF Must
<1>5. "synth" \in DOMAIN OpsOf
  BY DEF OpsOf
<1> HIDE DEF c, ops
<1>6. Start(c, {state}, ops)
  BY <1>2 DEF c, ops
<1>7. /\ Chain(ops, 1, 20) /\ Elems(ops) \subseteq OpsOf["synth"]
      /\ args.aieOnly => "aieinvalidate" \in Elems(ops) /\ Elems(ops) \subseteq AieOps
      /\ ~args.aieOnly => /\ {"invalidate", "plan", "hls", "prune", "rmrtl", "rtl", "json", "yaml",
                             "finish"} \subseteq Elems(ops)
                          /\ "aieprep" \in Elems(ops) \/ "aieremove" \in Elems(ops)
                          /\ Elems(ops) \cap {"aieinvalidate", "aiekeep", "aiejson",
                                             "aieyaml"} = {}
  BY SynthChain DEF ops
<1>8. /\ Control' /\ Pending' = Elems(ops) \cup {"done"} /\ cmd' = c /\ mem' = {state}
      /\ UNCHANGED <<project, work, out, job>>
  BY <1>3, <1>4, <1>5, <1>6, <1>7, StartControl, Zenon
<1>9. SynthKind'
  BY <1>3, <1>7, <1>8 DEF SynthKind, AieOps
<1> QED BY <1>3, <1>7, <1>8, <1>9

\* floorplan starts with everything it replaces ahead of it.
LEMMA FloorplanStarts ==
  ASSUME Floorplan \/ FloorplanDse
  PROVE  /\ Control' /\ cmd'.op = "floorplan" /\ UNCHANGED <<project, work, out, job>>
         /\ \E state \in Loaded : mem' = {state} /\ state.synthed
         /\ {"rmxdc", "rmconn", "rmtiming", "rmmetrics", "rmrtl", "planstate"} \subseteq Pending'
<1>0. PICK c : \E state \in Loaded, impl \in BOOLEAN :
        Start(c, {state}, Publish(impl)) /\ state.synthed /\ c.op = "floorplan"
  <2>1. CASE Floorplan
    <3>1. PICK option \in project.options, state \in Loaded :
            /\ state.synthed
            /\ Start([op |-> "floorplan", impl |-> {}, plan |-> PlanOf(state, option)], {state},
                     Publish(FALSE))
      BY <2>1, Zenon DEF Floorplan
    <3> WITNESS [op |-> "floorplan", impl |-> {}, plan |-> PlanOf(state, option)]
    <3> WITNESS state \in Loaded, FALSE \in BOOLEAN
    <3> QED BY <3>1, Zenon
  <2>2. CASE FloorplanDse
    <3>1. PICK fmax \in Outcomes, state \in Loaded :
            /\ state.synthed
            /\ Start([op |-> "floorplan", impl |-> {fmax[WinnerIndex(fmax)]},
                      plan |-> PlanOf(state, WinnerIndex(fmax))], {state}, Publish(TRUE))
      BY <2>2, Zenon DEF FloorplanDse
    <3> WITNESS [op |-> "floorplan", impl |-> {fmax[WinnerIndex(fmax)]},
                 plan |-> PlanOf(state, WinnerIndex(fmax))]
    <3> WITNESS state \in Loaded, TRUE \in BOOLEAN
    <3> QED BY <3>1, Zenon
  <2> QED BY <2>1, <2>2, Zenon
<1>1. PICK state \in Loaded, impl \in BOOLEAN :
        Start(c, {state}, Publish(impl)) /\ state.synthed /\ c.op = "floorplan"
  BY <1>0
<1> DEFINE ops == Publish(impl)
<1>2. cmd' = c
  BY <1>1 DEF Start
<1>3. Must' = {"rmxdc", "planrtl", "planstate", "conn", "xdc"}
  BY <1>1, <1>2 DEF Must
<1>4. "floorplan" \in DOMAIN OpsOf
  BY DEF OpsOf
<1>5. /\ Chain(ops, 1, 20) /\ Elems(ops) \subseteq OpsOf["floorplan"]
      /\ {"rmxdc", "rmconn", "rmtiming", "rmmetrics", "rmrtl", "planrtl", "planstate", "conn",
          "xdc"} \subseteq Elems(ops)
  BY PublishChain
<1> HIDE DEF ops
<1>6. Start(c, {state}, ops)
  BY <1>1 DEF ops
<1>7. /\ Control' /\ Pending' = Elems(ops) \cup {"done"} /\ mem' = {state}
      /\ UNCHANGED <<project, work, out, job>>
  BY <1>1, <1>3, <1>4, <1>5, <1>6, StartControl
<1> QED BY <1>1, <1>2, <1>5, <1>7

\* pack starts over a published floorplan, or none.
LEMMA PackStarts ==
  ASSUME Pack
  PROVE  /\ Control' /\ cmd'.op = "pack" /\ UNCHANGED <<project, work, out, job>>
         /\ \E state \in Loaded :
              /\ mem' = {state} /\ state.synthed /\ (state.floorplan # {} => work.xdc # {})
              /\ state.graph.target = "vitis" => {"bundle", "libadf", "cfg"} \subseteq Pending'
              /\ state.graph.target # "vitis" => "zip" \in Pending'
<1>1. PICK custom \in project.pack, state \in Loaded :
        /\ Packable(state, custom)
        /\ Start([op |-> "pack", custom |-> custom], {state}, PackOps(state, custom))
  BY Zenon DEF Pack
<1> DEFINE c == [op |-> "pack", custom |-> custom]
           ops == PackOps(state, custom)
<1>2. c.op = "pack" /\ cmd' = c /\ mem' = {state}
  BY <1>1 DEF Start
<1>3. State' = state
  BY <1>2, SomeOne, Zenon DEF State
<1>4. Must' = IF state.graph.target = "vitis" THEN {"bundle", "libadf", "cfg"} ELSE {"zip"}
  BY <1>2, <1>3 DEF Must
<1>5. "pack" \in DOMAIN OpsOf
  BY DEF OpsOf
<1> HIDE DEF c, ops
<1>6. Start(c, {state}, ops)
  BY <1>1 DEF c, ops
<1>7. /\ Chain(ops, 1, 20) /\ Elems(ops) \subseteq OpsOf["pack"]
      /\ state.graph.target = "vitis" => {"bundle", "libadf", "cfg"} \subseteq Elems(ops)
      /\ state.graph.target # "vitis" => "zip" \in Elems(ops)
  BY PackChain DEF ops
<1>8. /\ Control' /\ Pending' = Elems(ops) \cup {"done"} /\ UNCHANGED <<project, work, out, job>>
  BY <1>2, <1>4, <1>5, <1>6, <1>7, StartControl
<1>9. state.synthed /\ (state.floorplan # {} => work.xdc # {})
  BY <1>1 DEF Packable, Marked
<1> QED BY <1>2, <1>7, <1>8, <1>9

\* link starts by removing an image, or without one.
LEMMA LinkStarts ==
  ASSUME Link
  PROVE  /\ Control' /\ cmd'.op = "link" /\ UNCHANGED <<project, work, out, job>>
         /\ "rmimage" \in Pending' \/ out.image = {}
<1>1. PICK c, state, plan :
        /\ plan.backend = "slash" => out.image = {}
        /\ c.op = "link"
        /\ Start(c, {state},
             (IF plan.backend = "slash" THEN <<>> ELSE <<"rmimage">>) \o
             (IF plan.backend = "vitis" /\ out.libadf # {} THEN <<"xsa">> ELSE <<>>) \o
             <<"link", "linked">>)
  BY Zenon DEF Link
<1> DEFINE slash == plan.backend = "slash"
           aie == plan.backend = "vitis" /\ out.libadf # {}
           ops == (IF slash THEN <<>> ELSE <<"rmimage">>) \o (IF aie THEN <<"xsa">> ELSE <<>>)
                  \o <<"link", "linked">>
<1>2. cmd' = c
  BY <1>1 DEF Start
<1>3. Must' = {"link"}
  BY <1>1, <1>2 DEF Must
<1>4. "link" \in DOMAIN OpsOf
  BY DEF OpsOf
<1>6. Start(c, {state}, ops)
  BY <1>1
<1>7. /\ Chain(ops, 1, 20) /\ Elems(ops) \subseteq OpsOf["link"]
      /\ "link" \in Elems(ops) /\ (~slash => "rmimage" \in Elems(ops))
  <2> HIDE DEF slash, aie
  <2> QED BY LinkChain
<1> HIDE DEF ops
<1>8. /\ Control' /\ Pending' = Elems(ops) \cup {"done"} /\ UNCHANGED <<project, work, out, job>>
  BY <1>1, <1>3, <1>4, <1>6, <1>7, StartControl
<1> QED BY <1>1, <1>2, <1>7, <1>8

\* aiesim changes reports at most.
LEMMA AiesimStarts ==
  ASSUME Aiesim
  PROVE  /\ Control' /\ cmd'.op = "aiesim" /\ UNCHANGED <<project, work, out, job>>
         /\ \E state \in Loaded : mem' = {state}
<1>1. PICK state \in Loaded, ops \in {<<"simulate", "foldjson", "foldyaml">>, <<"simulate">>} :
        Start([op |-> "aiesim"], {state}, ops)
  BY Zenon DEF Aiesim
<1> DEFINE c == [op |-> "aiesim"]
<1>2. c.op = "aiesim" /\ cmd' = c
  BY <1>1 DEF Start
<1>3. Must' = {}
  BY <1>2 DEF Must
<1>4. "aiesim" \in DOMAIN OpsOf /\ OpsOf["aiesim"] = {"simulate", "foldjson", "foldyaml"}
  BY DEF OpsOf
<1>5. Chain(ops, 1, 20) /\ Elems(ops) \subseteq OpsOf["aiesim"]
  <2>1. CASE ops = <<"simulate", "foldjson", "foldyaml">>
    BY <1>4, <2>1, Stretches, ChainWiden
  <2>2. CASE ops = <<"simulate">>
    BY <1>4, <2>2, Stretches, ChainWiden
  <2> QED BY <2>1, <2>2
<1> HIDE DEF c
<1>6. Start(c, {state}, ops)
  BY <1>1 DEF c
<1>7. /\ Control' /\ mem' = {state} /\ UNCHANGED <<project, work, out, job>>
  BY <1>2, <1>3, <1>4, <1>5, <1>6, StartControl
<1> QED BY <1>2, <1>7
-----------------------------------------------------------------------------
(* What each operation changes *)

\* The fields outside F stay.
Others(F) == \A g \in WorkFields \ F : work'[g] = work[g]

\* An update of one field.
LEMMA WriteField ==
  ASSUME NEW f \in WorkFields, NEW v, IsRec(work, WorkFields), work' = [work EXCEPT ![f] = v]
  PROVE  IsRec(work', WorkFields) /\ work'[f] = v /\ Others({f})
  BY DEF IsRec, Others

PublicationSteps ==
  \/ RemoveXdc \/ RemoveConnectivity \/ RemoveTiming \/ RemoveMetrics
  \/ PublishTiming \/ PublishBits \/ PublishMetrics \/ PublishConnectivity \/ PublishXdc
OutputSteps ==
  \/ RawXo \/ BundleXo \/ OpenZip \/ CloseZip \/ PackLibadf \/ PackConfig \/ PackControl
  \/ RemoveImage \/ LinkXsa \/ LinkImage \/ Linked
RtlSteps == RemoveRtl \/ RenameRtl \/ PlanRtl \/ ApplyCustomRtl
ReportSteps == AieJson \/ AieYaml \/ WriteJson \/ WriteYaml \/ FoldJson \/ FoldYaml
AieSteps == AiePrepare \/ AieRemove \/ AieCompile

\* The steps of a floorplan that publish or remove a file.
LEMMA PublicationEffect ==
  ASSUME Shape, PublicationSteps
  PROVE  /\ IsRec(work', WorkFields) /\ Others({"xdc", "conn", "timing", "bits", "metrics"})
         /\ UNCHANGED <<out, mem, job, project, cmd>>
         /\ \E op \in {"rmxdc", "rmconn", "rmtiming", "rmmetrics", "timing", "bits", "metrics",
                       "conn", "xdc"} : Does(op)
<1>0. IsRec(work, WorkFields) /\ {"xdc", "conn", "timing", "bits", "metrics"} \subseteq WorkFields
  BY DEF Shape, WorkFields
<1>1. PICK f \in {"xdc", "conn", "timing", "bits", "metrics"} : \E v : work' = [work EXCEPT ![f] = v]
  BY DEF PublicationSteps, RemoveXdc, RemoveConnectivity, RemoveTiming, RemoveMetrics,
         PublishTiming, PublishBits, PublishMetrics, PublishConnectivity, PublishXdc, Writes
<1>2. IsRec(work', WorkFields) /\ Others({f})
  BY <1>0, <1>1, WriteField, Zenon
<1>3. /\ UNCHANGED <<out, mem, job, project, cmd>>
      /\ \E op \in {"rmxdc", "rmconn", "rmtiming", "rmmetrics", "timing", "bits", "metrics",
                    "conn", "xdc"} : Does(op)
  BY DEF PublicationSteps, RemoveXdc, RemoveConnectivity, RemoveTiming, RemoveMetrics,
         PublishTiming, PublishBits, PublishMetrics, PublishConnectivity, PublishXdc, Writes, Does
<1> QED BY <1>0, <1>1, <1>2, <1>3 DEF Others

\* The steps of pack and link that write outside the work directory.
LEMMA OutputEffect ==
  ASSUME OutputSteps
  PROVE  /\ work' = work /\ UNCHANGED <<mem, job, project, cmd>>
         /\ \E op \in {"rawxo", "bundle", "zipopen", "zip", "libadf", "cfg", "control", "rmimage",
                       "xsa", "link", "linked"} : Does(op)
  BY Zenon DEF OutputSteps, RawXo, BundleXo, OpenZip, CloseZip, PackLibadf, PackConfig, PackControl,
         RemoveImage, LinkXsa, LinkImage, Linked, Emits, Does

\* The steps that replace the RTL.
LEMMA RtlEffect ==
  ASSUME Shape, RtlSteps
  PROVE  /\ IsRec(work', WorkFields) /\ Others({"rtl"}) /\ UNCHANGED <<out, mem, job, project, cmd>>
         /\ RemoveRtl => Does("rmrtl") /\ work'.rtl = {}
         /\ RenameRtl => Does("rtl") /\ work'.rtl = {[build |-> Build, flatten |-> State.flatten,
                                                      plan |-> {}, custom |-> FALSE]}
         /\ PlanRtl => Does("planrtl") /\ work'.rtl = {[build |-> Build, flatten |-> TRUE,
                                                        plan |-> {cmd.plan}, custom |-> FALSE]}
         /\ ApplyCustomRtl => /\ Does("overlay")
                              /\ work'.rtl = {[r EXCEPT !.custom = TRUE] : r \in work.rtl}
<1>0. IsRec(work, WorkFields) /\ "rtl" \in WorkFields
  BY DEF Shape, WorkFields
<1>1. PICK v : work' = [work EXCEPT !["rtl"] = v]
  BY DEF RtlSteps, RemoveRtl, RenameRtl, PlanRtl, ApplyCustomRtl, Writes
<1>2. IsRec(work', WorkFields) /\ Others({"rtl"})
  BY <1>0, <1>1, WriteField, Zenon
<1>3. UNCHANGED <<out, mem, job, project, cmd>>
  BY DEF RtlSteps, RemoveRtl, RenameRtl, PlanRtl, ApplyCustomRtl, Writes, Does
<1>4. RemoveRtl => Does("rmrtl") /\ work'.rtl = {}
  BY <1>0, WriteField DEF RemoveRtl, Writes
<1>5. RenameRtl => Does("rtl") /\ work'.rtl = {[build |-> Build, flatten |-> State.flatten,
                                                plan |-> {}, custom |-> FALSE]}
  BY <1>0, WriteField DEF RenameRtl, Writes
<1>6. PlanRtl => Does("planrtl") /\ work'.rtl = {[build |-> Build, flatten |-> TRUE,
                                                  plan |-> {cmd.plan}, custom |-> FALSE]}
  BY <1>0, WriteField DEF PlanRtl, Writes
<1>7. ApplyCustomRtl => /\ Does("overlay")
                        /\ work'.rtl = {[r EXCEPT !.custom = TRUE] : r \in work.rtl}
  BY <1>0, WriteField DEF ApplyCustomRtl, Writes
<1> QED BY <1>2, <1>3, <1>4, <1>5, <1>6, <1>7

\* The steps that write reports.
LEMMA ReportEffect ==
  ASSUME Shape, ReportSteps
  PROVE  /\ IsRec(work', WorkFields) /\ Others({"json", "yaml"})
         /\ UNCHANGED <<out, mem, job, project, cmd>>
         /\ AieJson => /\ Does("aiejson") /\ work'.yaml = work.yaml
                       /\ work'.json = IF Refreshes THEN {Report} ELSE work.json
         /\ AieYaml => /\ Does("aieyaml") /\ work'.json = work.json
                       /\ work'.yaml = IF Refreshes THEN {Report} ELSE work.yaml
         /\ WriteJson => Does("json") /\ work'.yaml = work.yaml /\ work'.json = {SynthReport}
         /\ WriteYaml => Does("yaml") /\ work'.json = work.json /\ work'.yaml = {SynthReport}
         /\ FoldJson => Does("foldjson") /\ work'.yaml = work.yaml /\ work'.json = Fold(work.json)
         /\ FoldYaml => Does("foldyaml") /\ work'.json = work.json /\ work'.yaml = Fold(work.yaml)
<1>0. IsRec(work, WorkFields) /\ "json" \in WorkFields /\ "yaml" \in WorkFields
  BY DEF Shape, WorkFields
<1>1. UNCHANGED <<out, mem, job, project, cmd>>
  BY DEF ReportSteps, AieJson, AieYaml, WriteJson, WriteYaml, FoldJson, FoldYaml, Writes, Does
<1>2. ASSUME AieJson PROVE /\ IsRec(work', WorkFields) /\ Others({"json"})
                           /\ work'.json = IF Refreshes THEN {Report} ELSE work.json
  <2>1. CASE Refreshes
    BY <1>0, <1>2, <2>1, WriteField DEF AieJson, Writes
  <2>2. CASE ~Refreshes
    BY <1>0, <1>2, <2>2 DEF AieJson, Writes, Others
  <2> QED BY <2>1, <2>2
<1>3. ASSUME AieYaml PROVE /\ IsRec(work', WorkFields) /\ Others({"yaml"})
                           /\ work'.yaml = IF Refreshes THEN {Report} ELSE work.yaml
  <2>1. CASE Refreshes
    BY <1>0, <1>3, <2>1, WriteField DEF AieYaml, Writes
  <2>2. CASE ~Refreshes
    BY <1>0, <1>3, <2>2 DEF AieYaml, Writes, Others
  <2> QED BY <2>1, <2>2
<1>4. WriteJson => IsRec(work', WorkFields) /\ Others({"json"}) /\ work'.json = {SynthReport}
  BY <1>0, WriteField DEF WriteJson, Writes
<1>5. WriteYaml => IsRec(work', WorkFields) /\ Others({"yaml"}) /\ work'.yaml = {SynthReport}
  BY <1>0, WriteField DEF WriteYaml, Writes
<1>6. FoldJson => IsRec(work', WorkFields) /\ Others({"json"}) /\ work'.json = Fold(work.json)
  BY <1>0, WriteField DEF FoldJson, Writes
<1>7. FoldYaml => IsRec(work', WorkFields) /\ Others({"yaml"}) /\ work'.yaml = Fold(work.yaml)
  BY <1>0, WriteField DEF FoldYaml, Writes
<1>8. /\ AieJson => Does("aiejson")
      /\ AieYaml => Does("aieyaml")
      /\ WriteJson => Does("json")
      /\ WriteYaml => Does("yaml")
      /\ FoldJson => Does("foldjson")
      /\ FoldYaml => Does("foldyaml")
  BY DEF AieJson, AieYaml, WriteJson, WriteYaml, FoldJson, FoldYaml, Writes
<1>9. /\ Others({"json"}) => Others({"json", "yaml"}) /\ work'.yaml = work.yaml
      /\ Others({"yaml"}) => Others({"json", "yaml"}) /\ work'.json = work.json
  BY <1>0 DEF Others
<1> QED BY <1>1, <1>2, <1>3, <1>4, <1>5, <1>6, <1>7, <1>8, <1>9 DEF ReportSteps

\* The command an operation belongs to.
LEMMA CommandOf ==
  ASSUME Control, NEW op, At(op)
  PROVE  /\ op \in {"tapacc", "state"} => cmd.op = "analyze"
         /\ op \in {"invalidate", "aieinvalidate", "aieprep", "aieremove", "aiecompile", "aiekeep",
                    "aiejson", "aieyaml", "plan", "hls", "prune", "rtl", "util", "json", "yaml",
                    "finish"} => cmd.op = "synth"
         /\ op = "rmrtl" => cmd.op \in {"synth", "floorplan"}
         /\ op \in {"rmxdc", "rmconn", "rmtiming", "rmmetrics", "planrtl", "planstate", "timing",
                    "bits", "metrics", "conn", "xdc"} => cmd.op = "floorplan"
         /\ op \in {"overlay", "rawxo", "bundle", "libadf", "cfg", "control", "zipopen", "zip"} =>
              cmd.op = "pack"
         /\ op \in {"rmimage", "xsa", "link", "linked"} => cmd.op = "link"
         /\ op \in {"simulate", "foldjson", "foldyaml"} => cmd.op = "aiesim"
<1>1. todo \in Seq(Ops) /\ todo # <<>> /\ Head(todo) = op /\ cmd.op \in DOMAIN OpsOf
      /\ Pending \subseteq OpsOf[cmd.op] \cup {"done"}
  BY DEF Control, At
<1>2. op \in Pending
  BY <1>1 DEF Pending, Elems
<1>3. DOMAIN OpsOf = {"analyze", "synth", "floorplan", "pack", "link", "aiesim"}
  BY DEF OpsOf
<1> QED BY <1>1, <1>2, <1>3 DEF OpsOf

\* A command with a state has it in memory and on disk.
LEMMA StateIs ==
  ASSUME OneState, Stateful
  PROVE  mem = {State} /\ work.tapa = {State} /\ IsState(State)
<1>1. PICK s \in work.tapa : work.tapa = {s} /\ IsState(s) /\ mem = {s}
  BY DEF OneState
<1> QED BY <1>1, SomeOne, Zenon DEF State

\* The steps that replace the AI Engine graph.
LEMMA AieEffect ==
  ASSUME Shape, AieSteps
  PROVE  /\ IsRec(work', WorkFields) /\ Others({"aie"}) /\ UNCHANGED <<out, mem, job, project, cmd>>
         /\ AiePrepare => Does("aieprep") /\ work'.aie = {}
         /\ AieRemove => Does("aieremove") /\ work'.aie = {}
         /\ AieCompile => Does("aiecompile") /\ work'.aie = {AieBuilt}
<1>0. IsRec(work, WorkFields) /\ "aie" \in WorkFields
  BY DEF Shape, WorkFields
<1>1. PICK v : work' = [work EXCEPT !["aie"] = v]
  BY DEF AieSteps, AiePrepare, AieRemove, AieCompile, Writes
<1>2. IsRec(work', WorkFields) /\ Others({"aie"})
  BY <1>0, <1>1, WriteField, Zenon
<1>3. UNCHANGED <<out, mem, job, project, cmd>>
  BY DEF AieSteps, AiePrepare, AieRemove, AieCompile, Writes, Does
<1>4. AiePrepare => Does("aieprep") /\ work'.aie = {}
  BY <1>0, WriteField DEF AiePrepare, Writes
<1>5. AieRemove => Does("aieremove") /\ work'.aie = {}
  BY <1>0, WriteField DEF AieRemove, Writes
<1>6. AieCompile => Does("aiecompile") /\ work'.aie = {AieBuilt}
  BY <1>0, WriteField DEF AieCompile, Writes
<1> QED BY <1>2, <1>3, <1>4, <1>5, <1>6

\* The utilization reports, and a simulation, touch nothing else.
LEMMA UtilEffect ==
  ASSUME Shape, PostSynthUtil \/ Simulate
  PROVE  /\ IsRec(work', WorkFields) /\ Others({"util"}) /\ UNCHANGED <<out, mem, job, project, cmd>>
         /\ PostSynthUtil => Does("util")
         /\ Simulate => Does("simulate") /\ work' = work
<1>0. IsRec(work, WorkFields) /\ "util" \in WorkFields
  BY DEF Shape, WorkFields
<1>1. CASE PostSynthUtil
  <2>1. PICK v : work' = [work EXCEPT !["util"] = v]
    BY <1>1, Zenon DEF PostSynthUtil, Writes
  <2>2. IsRec(work', WorkFields) /\ Others({"util"})
    BY <1>0, <2>1, WriteField, Zenon
  <2>3. At("util")
    BY <1>1 DEF PostSynthUtil, Writes, Does
  <2>4. ~At("simulate")
    BY <2>3 DEF At
  <2> QED BY <1>1, <2>2, <2>4 DEF PostSynthUtil, Writes, Does, Simulate
<1>2. CASE Simulate
  <2>1. At("simulate") /\ work' = work
    BY <1>2 DEF Simulate, Writes, Does
  <2>2. ~At("util")
    BY <2>1 DEF At
  <2> QED BY <1>0, <1>2, <2>1, <2>2 DEF PostSynthUtil, Writes, Does, Simulate, Others
<1> QED BY <1>1, <1>2

\* Planning and joining the HLS jobs writes no file.
LEMMA PoolEffect ==
  ASSUME PlanHls \/ HlsJoin
  PROVE  /\ UNCHANGED <<work, out, mem, project, cmd>>
         /\ PlanHls => Does("plan")
         /\ HlsJoin => Does("hls")
  BY Zenon DEF PlanHls, HlsJoin, Does

\* tapacc makes every output older than the tree.
LEMMA TapaccEffect ==
  ASSUME Shape, RunTapacc
  PROVE  /\ IsRec(work', WorkFields) /\ Others({"tree", "hls", "util"})
         /\ IsRec(work'.hls, Tasks)
         /\ \A t \in Tasks : /\ IsRec(work'.hls[t], {"key", "rpt", "hdl", "fresh"})
                             /\ work'.hls[t].key = work.hls[t].key
                             /\ work'.hls[t].rpt = work.hls[t].rpt
                             /\ work'.hls[t].hdl = work.hls[t].hdl
                             /\ work'.hls[t].fresh = FALSE
         /\ UNCHANGED <<out, mem, job, project, cmd>> /\ Does("tapacc")
<1>0. /\ IsRec(work, WorkFields) /\ {"tree", "hls", "util"} \subseteq WorkFields
      /\ \A t \in Tasks : IsRec(work.hls[t], {"key", "rpt", "hdl", "fresh"})
  BY DEF Shape, WorkFields
<1> DEFINE h == [t \in Tasks |-> [work.hls[t] EXCEPT !.fresh = FALSE]]
           u == [t \in Tasks |-> [work.util[t] EXCEPT !.fresh = FALSE]]
<1>1. work' = [[[work EXCEPT !.tree = {cmd.program.tree}] EXCEPT !.hls = h] EXCEPT !.util = u]
  BY <1>0 DEF RunTapacc, Writes, IsRec
<1>2. \A t \in Tasks : /\ IsRec(h[t], {"key", "rpt", "hdl", "fresh"})
                       /\ h[t].key = work.hls[t].key /\ h[t].rpt = work.hls[t].rpt
                       /\ h[t].hdl = work.hls[t].hdl /\ h[t].fresh = FALSE
  BY <1>0, Zenon DEF IsRec
<1>3. IsRec(h, Tasks)
  BY DEF IsRec
<1> HIDE DEF h, u
<1>4. IsRec(work', WorkFields) /\ Others({"tree", "hls", "util"}) /\ work'.hls = h
  BY <1>0, <1>1, Zenon DEF IsRec, Others
<1>5. UNCHANGED <<out, mem, job, project, cmd>> /\ Does("tapacc")
  BY DEF RunTapacc, Writes, Does
<1> QED BY <1>2, <1>3, <1>4, <1>5

\* Pruning keeps the outputs of the design's HLS tasks.
LEMMA PruneEffect ==
  ASSUME Shape, PruneInactive
  PROVE  /\ IsRec(work', WorkFields) /\ Others({"hls"}) /\ IsRec(work'.hls, Tasks)
         /\ \A t \in Tasks : work'.hls[t] = work.hls[t] \/ work'.hls[t] = NoHls
         /\ UNCHANGED <<out, mem, job, project, cmd>> /\ Does("prune")
<1>0. IsRec(work, WorkFields) /\ "hls" \in WorkFields
  BY DEF Shape, WorkFields
<1> DEFINE h == [t \in Tasks |-> IF t \in HlsTasks(Pl) THEN work.hls[t] ELSE NoHls]
<1>1. work' = [work EXCEPT !["hls"] = h]
  BY <1>0 DEF PruneInactive, Writes, IsRec
<1>2. IsRec(h, Tasks) /\ \A t \in Tasks : h[t] = work.hls[t] \/ h[t] = NoHls
  BY DEF IsRec
<1> HIDE DEF h
<1>3. IsRec(work', WorkFields) /\ Others({"hls"}) /\ work'.hls = h
  BY <1>0, <1>1, WriteField, Zenon
<1>4. UNCHANGED <<out, mem, job, project, cmd>> /\ Does("prune")
  BY DEF PruneInactive, Writes, Does
<1> QED BY <1>2, <1>3, <1>4

HlsFields == {"key", "rpt", "hdl", "fresh"}

\* A step of one HLS job leaves the other jobs, and their outputs, alone.
LEMMA JobEffect ==
  ASSUME Shape, NEW t \in Tasks, NEW from, NEW to, NEW h, JobStep(t, from, to, h)
  PROVE  /\ IsRec(work', WorkFields) /\ Others({"hls"}) /\ IsRec(work'.hls, Tasks)
         /\ work'.hls[t] = h /\ \A u \in Tasks \ {t} : work'.hls[u] = work.hls[u]
         /\ IsRec(job', Tasks) /\ job[t].at = from /\ job'[t].at = to
         /\ \A u \in Tasks \ {t} : job'[u] = job[u]
         /\ At("hls") /\ UNCHANGED <<out, cmd, mem, todo, project>>
<1>0. /\ IsRec(work, WorkFields) /\ "hls" \in WorkFields /\ IsRec(work.hls, Tasks) /\ IsRec(job, Tasks)
  BY DEF Shape, WorkFields
<1> DEFINE hls == [work.hls EXCEPT ![t] = h]
           j == [at |-> to, left |-> IF to = "run" THEN job[t].left ELSE 0]
<1>1. work' = [work EXCEPT !["hls"] = hls]
  BY <1>0 DEF JobStep, IsRec
<1>2. IsRec(hls, Tasks) /\ hls[t] = h /\ \A u \in Tasks \ {t} : hls[u] = work.hls[u]
  BY <1>0 DEF IsRec
<1> HIDE DEF hls
<1>3. IsRec(work', WorkFields) /\ Others({"hls"}) /\ work'.hls = hls
  BY <1>0, <1>1, WriteField, Zenon
<1>4. job' = [job EXCEPT ![t] = j]
  BY <1>0 DEF JobStep, IsRec
<1>5. j.at = to
  OBVIOUS
<1> HIDE DEF j
<1>6. IsRec(job', Tasks) /\ job'[t] = j /\ \A u \in Tasks \ {t} : job'[u] = job[u]
  BY <1>0, <1>4 DEF IsRec
<1>7. job[t].at = from /\ At("hls") /\ UNCHANGED <<out, cmd, mem, todo, project>>
  BY DEF JobStep
<1> QED BY <1>2, <1>3, <1>5, <1>6, <1>7

\* A retry only counts.
LEMMA RetryEffect ==
  ASSUME Shape, NEW t \in Tasks, HlsRetry(t)
  PROVE  /\ IsRec(job', Tasks) /\ job[t].at = "run" /\ job'[t].at = "run"
         /\ \A u \in Tasks \ {t} : job'[u] = job[u]
         /\ At("hls") /\ UNCHANGED <<work, out, cmd, mem, todo, project>>
<1>0. IsRec(job, Tasks)
  BY DEF Shape
<1> DEFINE j == [job[t] EXCEPT !.left = @ - 1]
<1>1. job' = [job EXCEPT ![t] = j] /\ job[t].at = "run"
  BY <1>0 DEF HlsRetry, IsRec
<1>2. j.at = "run"
  BY <1>1
<1> HIDE DEF j
<1>3. IsRec(job', Tasks) /\ job'[t] = j /\ \A u \in Tasks \ {t} : job'[u] = job[u]
  BY <1>0, <1>1 DEF IsRec
<1> QED BY <1>1, <1>2, <1>3 DEF HlsRetry

\* A step of t's job is one of its command, and leaves whole records.
OtherJobsKept(t) ==
  /\ IsRec(work', WorkFields) /\ Others({"hls"}) /\ IsRec(work'.hls, Tasks)
  /\ \A u \in Tasks \ {t} : work'.hls[u] = work.hls[u] /\ job'[u] = job[u]
  /\ IsRec(work'.hls[t], HlsFields) /\ IsRec(job', Tasks)
  /\ At("hls") /\ UNCHANGED <<out, cmd, mem, todo, project>>

\* What becomes of an output directory in each step of its job.
LEMMA HlsEffect ==
  ASSUME Shape, NEW t \in Tasks, Hls(t)
  PROVE  LET h == work.hls[t]
             H == work'.hls[t]
         IN /\ OtherJobsKept(t)
            /\ \/ /\ job[t].at = "start" /\ job'[t].at = "run"
                  /\ H.key = {} /\ H.rpt = h.rpt /\ H.hdl = h.hdl /\ H.fresh = h.fresh
               \/ job[t].at = "run" /\ job'[t].at \in {"run", "failed"} /\ H = h
               \/ /\ job[t].at = "run" /\ job'[t].at = "report"
                  /\ H.key = h.key /\ H.rpt = {} /\ H.hdl = h.hdl /\ H.fresh = h.fresh
               \/ /\ job[t].at = "report" /\ job'[t].at = "clear"
                  /\ H.key = h.key /\ H.rpt = {Made(t)} /\ H.hdl = h.hdl /\ H.fresh = h.fresh
               \/ /\ job[t].at = "clear" /\ job'[t].at = "copy"
                  /\ H.key = h.key /\ H.rpt = h.rpt /\ H.hdl = {} /\ H.fresh = h.fresh
               \/ /\ job[t].at = "copy" /\ job'[t].at = "copying"
                  /\ H.key = h.key /\ H.rpt = h.rpt /\ H.fresh = TRUE
               \/ /\ job[t].at = "copying" /\ job'[t].at = "settings"
                  /\ H.key = h.key /\ H.rpt = h.rpt /\ H.hdl = {Made(t)} /\ H.fresh = h.fresh
               \/ /\ job[t].at = "settings" /\ job'[t].at = "done"
                  /\ H.key = {Settings} /\ H.rpt = h.rpt /\ H.hdl = h.hdl /\ H.fresh = h.fresh
<1> DEFINE h == work.hls[t]
<1>0. IsRec(h, HlsFields) /\ IsRec(work, WorkFields) /\ IsRec(work.hls, Tasks)
  BY DEF Shape, HlsFields
<1>a. ASSUME NEW from, NEW to, NEW g, JobStep(t, from, to, g), IsRec(g, HlsFields)
      PROVE  /\ OtherJobsKept(t)
             /\ work'.hls[t] = g /\ job[t].at = from /\ job'[t].at = to
  BY <1>a, JobEffect DEF OtherJobsKept
<1>1. CASE HlsStart(t)
  <2> DEFINE H == [h EXCEPT !.key = {}]
  <2>1. IsRec(H, HlsFields) /\ H.key = {} /\ H.rpt = h.rpt /\ H.hdl = h.hdl /\ H.fresh = h.fresh
    BY <1>0 DEF IsRec, HlsFields
  <2>2. JobStep(t, "start", "run", H)
    BY <1>1 DEF HlsStart
  <2> HIDE DEF H
  <2>3. OtherJobsKept(t) /\ work'.hls[t] = H /\ job[t].at = "start" /\ job'[t].at = "run"
    BY <1>a, <2>1, <2>2
  <2> QED BY <2>1, <2>3, Zenon
<1>2. CASE HlsRetry(t)
  BY <1>0, <1>2, RetryEffect, Zenon DEF Others, OtherJobsKept
<1>3. CASE HlsFail(t)
  <2>1. JobStep(t, "run", "failed", h)
    BY <1>3 DEF HlsFail
  <2>2. OtherJobsKept(t) /\ work'.hls[t] = h /\ job[t].at = "run" /\ job'[t].at = "failed"
    BY <1>0, <1>a, <2>1
  <2> QED BY <2>2, Zenon
<1>4. CASE HlsReport(t)
  <2> DEFINE H == [h EXCEPT !.rpt = {}]
  <2>1. IsRec(H, HlsFields) /\ H.key = h.key /\ H.rpt = {} /\ H.hdl = h.hdl /\ H.fresh = h.fresh
    BY <1>0 DEF IsRec, HlsFields
  <2>2. JobStep(t, "run", "report", H)
    BY <1>4 DEF HlsReport
  <2> HIDE DEF H
  <2>3. OtherJobsKept(t) /\ work'.hls[t] = H /\ job[t].at = "run" /\ job'[t].at = "report"
    BY <1>a, <2>1, <2>2
  <2> QED BY <2>1, <2>3, Zenon
<1>5. CASE HlsReported(t)
  <2> DEFINE H == [h EXCEPT !.rpt = {Made(t)}]
  <2>1. /\ IsRec(H, HlsFields) /\ H.key = h.key /\ H.rpt = {Made(t)} /\ H.hdl = h.hdl
        /\ H.fresh = h.fresh
    BY <1>0 DEF IsRec, HlsFields
  <2>2. JobStep(t, "report", "clear", H)
    BY <1>5 DEF HlsReported
  <2> HIDE DEF H
  <2>3. OtherJobsKept(t) /\ work'.hls[t] = H /\ job[t].at = "report" /\ job'[t].at = "clear"
    BY <1>a, <2>1, <2>2, Zenon
  <2> QED BY <2>1, <2>3, Zenon
<1>6. CASE HlsClear(t)
  <2> DEFINE H == [h EXCEPT !.hdl = {}]
  <2>1. IsRec(H, HlsFields) /\ H.key = h.key /\ H.rpt = h.rpt /\ H.hdl = {} /\ H.fresh = h.fresh
    BY <1>0, Zenon DEF IsRec, HlsFields
  <2>2. JobStep(t, "clear", "copy", H)
    BY <1>6 DEF HlsClear
  <2> HIDE DEF H
  <2>3. OtherJobsKept(t) /\ work'.hls[t] = H /\ job[t].at = "clear" /\ job'[t].at = "copy"
    BY <1>a, <2>1, <2>2
  <2> QED BY <2>1, <2>3, Zenon
<1>7. CASE HlsCopy(t)
  <2> DEFINE part == {[Made(t) EXCEPT !.whole = FALSE]}
  <2> HIDE DEF part
  <2> DEFINE H == [h EXCEPT !.hdl = part, !.fresh = TRUE]
  <2>1. IsRec(H, HlsFields) /\ H.key = h.key /\ H.rpt = h.rpt /\ H.fresh = TRUE
    BY <1>0, Zenon DEF IsRec, HlsFields
  <2>2. JobStep(t, "copy", "copying", H)
    BY <1>7 DEF HlsCopy, part
  <2> HIDE DEF H
  <2>3. OtherJobsKept(t) /\ work'.hls[t] = H /\ job[t].at = "copy" /\ job'[t].at = "copying"
    BY <1>a, <2>1, <2>2
  <2> QED BY <2>1, <2>3, Zenon
<1>8. CASE HlsCopied(t)
  <2> DEFINE H == [h EXCEPT !.hdl = {Made(t)}]
  <2>1. /\ IsRec(H, HlsFields) /\ H.key = h.key /\ H.rpt = h.rpt /\ H.hdl = {Made(t)}
        /\ H.fresh = h.fresh
    BY <1>0 DEF IsRec, HlsFields
  <2>2. JobStep(t, "copying", "settings", H)
    BY <1>8 DEF HlsCopied
  <2> HIDE DEF H
  <2>3. OtherJobsKept(t) /\ work'.hls[t] = H /\ job[t].at = "copying" /\ job'[t].at = "settings"
    BY <1>a, <2>1, <2>2, Zenon
  <2> QED BY <2>1, <2>3, Zenon
<1>9. CASE HlsSettings(t)
  <2> DEFINE H == [h EXCEPT !.key = {Settings}]
  <2>1. /\ IsRec(H, HlsFields) /\ H.key = {Settings} /\ H.rpt = h.rpt /\ H.hdl = h.hdl
        /\ H.fresh = h.fresh
    BY <1>0 DEF IsRec, HlsFields
  <2>2. JobStep(t, "settings", "done", H)
    BY <1>9 DEF HlsSettings
  <2> HIDE DEF H
  <2>3. OtherJobsKept(t) /\ work'.hls[t] = H /\ job[t].at = "settings" /\ job'[t].at = "done"
    BY <1>a, <2>1, <2>2
  <2> QED BY <2>1, <2>3, Zenon
<1> QED BY <1>1, <1>2, <1>3, <1>4, <1>5, <1>6, <1>7, <1>8, <1>9, Zenon DEF Hls

\* A store leaves one state, in memory and on disk.
LEMMA StoreEffect ==
  ASSUME Shape, NEW op, NEW state, Stores(op, work, state)
  PROVE  /\ IsRec(work', WorkFields) /\ Others({"tapa"}) /\ work'.tapa = {state}
         /\ mem' = {state} /\ State' = state /\ UNCHANGED <<out, job, project, cmd>> /\ Does(op)
<1>1. IsRec(work, WorkFields) /\ "tapa" \in WorkFields
  BY DEF Shape, WorkFields
<1>2. /\ work' = [work EXCEPT !["tapa"] = {state}] /\ mem' = {state}
      /\ UNCHANGED <<out, job, project, cmd>> /\ Does(op)
  BY Zenon DEF Stores, Does
<1>3. IsRec(work', WorkFields) /\ Others({"tapa"}) /\ work'.tapa = {state}
  BY <1>1, <1>2, WriteField, Zenon
<1>4. State' = state
  BY <1>2, SomeOne DEF State
<1> QED BY <1>2, <1>3, <1>4

\* What every store does.
Stored(op) ==
  /\ IsRec(work', WorkFields) /\ Others({"tapa"}) /\ work'.tapa = {State'}
  /\ mem' = {State'} /\ UNCHANGED <<out, job, project, cmd>> /\ Does(op) /\ IsState(State')

\* analyze stores a state with nothing done.
LEMMA StoreAnalysisEffect ==
  ASSUME Shape, OneState, Control, StoreAnalysis
  PROVE  Stored("state") /\ ~State'.synthed /\ State'.floorplan = {}
<1> DEFINE g == cmd.program.graph
           s == NewState(g, cmd.program.flatten)
<1>1. Stores("state", work, s) /\ At("state")
  BY DEF StoreAnalysis
<1>2. cmd.op = "analyze"
  BY <1>1, CommandOf
<1>3. g \in Graphs
  BY <1>2 DEF OneState
<1>4. IsState(s) /\ ~s.synthed /\ s.floorplan = {}
  BY <1>3, Zenon DEF NewState, IsState, IsRec, StateFields
<1> HIDE DEF s
<1> QED BY <1>1, <1>4, StoreEffect DEF Stored

\* synth makes the previous results inactive.
LEMMA InvalidateEffect ==
  ASSUME Shape, OneState, Control, Invalidate
  PROVE  /\ Stored("invalidate") /\ State'.graph = State.graph
         /\ State'.dev = {cmd.dev} /\ ~State'.synthed /\ State'.floorplan = {}
<1> DEFINE s == [State EXCEPT !.dev = {cmd.dev}, !.skipAie = cmd.args.skipAie, !.synthed = FALSE,
                              !.floorplan = {}]
<1>1. Stores("invalidate", work, s) /\ At("invalidate")
  BY DEF Invalidate, Stores, Does
<1>2. Stateful
  BY <1>1, CommandOf DEF Stateful
<1>3. IsState(State)
  BY <1>2, StateIs
<1>4. /\ IsState(s) /\ s.graph = State.graph /\ s.dev = {cmd.dev} /\ ~s.synthed
      /\ s.floorplan = {}
  BY <1>3, Zenon DEF IsState, IsRec, StateFields
<1> HIDE DEF s
<1> QED BY <1>1, <1>4, StoreEffect, Zenon DEF Stored

\* --aie-only keeps the results of the same device.
LEMMA AieInvalidateEffect ==
  ASSUME Shape, OneState, Control, AieInvalidate
  PROVE  /\ Stored("aieinvalidate") /\ State'.graph = State.graph
         /\ State'.dev = {cmd.dev} /\ State'.area = State.area
         /\ State'.synthed => State.synthed /\ State.dev = {cmd.dev}
         /\ State'.floorplan # {} => State'.floorplan = State.floorplan
<1> DEFINE same == State.dev = {cmd.dev}
           s == [State EXCEPT !.dev = {cmd.dev}, !.synthed = @ /\ same,
                              !.floorplan = IF same THEN @ ELSE {}]
<1>1. Stores("aieinvalidate", work, s) /\ At("aieinvalidate")
  BY Zenon DEF AieInvalidate, Stores, Does
<1>2. Stateful
  BY <1>1, CommandOf DEF Stateful
<1>3. IsState(State)
  BY <1>2, StateIs
<1>4. /\ IsState(s) /\ s.graph = State.graph /\ s.dev = {cmd.dev} /\ s.area = State.area
      /\ s.synthed => State.synthed /\ State.dev = {cmd.dev}
      /\ s.floorplan # {} => s.floorplan = State.floorplan
  BY <1>3, Zenon DEF IsState, IsRec, StateFields
<1> HIDE DEF s
<1> QED BY <1>1, <1>4, StoreEffect, Zenon DEF Stored

\* --aie-only remembers that the graph is built.
LEMMA AieKeepEffect ==
  ASSUME Shape, OneState, Control, AieKeep
  PROVE  /\ Stored("aiekeep") /\ State'.graph = State.graph
         /\ State'.dev = State.dev /\ State'.area = State.area
         /\ State'.synthed = State.synthed /\ State'.floorplan = State.floorplan
<1> DEFINE s == [State EXCEPT !.skipAie = FALSE]
<1>1. Stores("aiekeep", work, s) /\ At("aiekeep")
  BY DEF AieKeep, Stores, Does
<1>2. Stateful
  BY <1>1, CommandOf DEF Stateful
<1>3. IsState(State)
  BY <1>2, StateIs
<1>4. /\ IsState(s) /\ s.graph = State.graph /\ s.dev = State.dev /\ s.area = State.area
      /\ s.synthed = State.synthed /\ s.floorplan = State.floorplan
  BY <1>3, Zenon DEF IsState, IsRec, StateFields
<1> HIDE DEF s
<1> QED BY <1>1, <1>4, StoreEffect DEF Stored

\* synth ends with its areas in the state.
LEMMA FinishEffect ==
  ASSUME Shape, OneState, Control, Finish
  PROVE  /\ Stored("finish") /\ State'.graph = State.graph
         /\ State'.dev = State.dev /\ State'.area = Areas /\ State'.floorplan = State.floorplan
<1> DEFINE s == [State EXCEPT !.synthed = TRUE, !.area = Areas]
<1>1. Stores("finish", work, s) /\ At("finish")
  BY DEF Finish, Stores, Does
<1>2. Stateful
  BY <1>1, CommandOf DEF Stateful
<1>3. IsState(State)
  BY <1>2, StateIs
<1>4. /\ IsState(s) /\ s.graph = State.graph /\ s.dev = State.dev /\ s.area = Areas
      /\ s.floorplan = State.floorplan
  BY <1>3, Zenon DEF IsState, IsRec, StateFields
<1> HIDE DEF s
<1> QED BY <1>1, <1>4, StoreEffect DEF Stored

\* floorplan stores its plan.
LEMMA PlanStateEffect ==
  ASSUME Shape, OneState, Control, PlanState
  PROVE  /\ Stored("planstate") /\ State'.graph = State.graph
         /\ State'.dev = State.dev /\ State'.area = State.area /\ State'.synthed = State.synthed
         /\ State'.floorplan = {cmd.plan}
<1> DEFINE s == [State EXCEPT !.floorplan = {cmd.plan}]
<1>1. Stores("planstate", work, s) /\ At("planstate")
  BY DEF PlanState, Stores, Does
<1>2. Stateful
  BY <1>1, CommandOf DEF Stateful
<1>3. IsState(State)
  BY <1>2, StateIs
<1>4. /\ IsState(s) /\ s.graph = State.graph /\ s.dev = State.dev /\ s.area = State.area
      /\ s.synthed = State.synthed /\ s.floorplan = {cmd.plan}
  BY <1>3 DEF IsState, IsRec, StateFields
<1> HIDE DEF s
<1> QED BY <1>1, <1>4, StoreEffect DEF Stored
-----------------------------------------------------------------------------
(* The control state and the shape of the files *)

Starts == Analyze \/ Synth \/ Floorplan \/ FloorplanDse \/ Pack \/ Link \/ Aiesim
StoreSteps == StoreAnalysis \/ Invalidate \/ AieInvalidate \/ AieKeep \/ Finish \/ PlanState
FileSteps ==
  \/ PublicationSteps \/ OutputSteps \/ RtlSteps \/ ReportSteps \/ AieSteps \/ RunTapacc
  \/ PlanHls \/ HlsJoin \/ PruneInactive \/ PostSynthUtil \/ Simulate
HlsSteps == \E t \in Tasks : Hls(t)

\* Every step is of one of these kinds.
LEMMA StepKinds ==
  ASSUME [Next]_vars
  PROVE  Starts \/ StoreSteps \/ FileSteps \/ HlsSteps \/ Done \/ Stop \/ UNCHANGED vars
  BY DEF Next, Starts, StoreSteps, FileSteps, HlsSteps, PublicationSteps, OutputSteps, RtlSteps,
         ReportSteps, AieSteps

\* A command that starts touches no file.
LEMMA StartsEffect ==
  ASSUME Starts
  PROVE  /\ Control' /\ UNCHANGED <<project, work, out, job>>
         /\ cmd'.op \in {"analyze", "synth", "floorplan", "pack", "link", "aiesim"}
         /\ cmd'.op = "analyze" => Analyze
         /\ cmd'.op = "synth" => Synth
         /\ cmd'.op = "floorplan" => Floorplan \/ FloorplanDse
         /\ cmd'.op = "pack" => Pack
         /\ cmd'.op = "link" => Link
  BY AnalyzeStarts, SynthStarts, FloorplanStarts, PackStarts, LinkStarts, AiesimStarts DEF Starts

\* A store is the next operation of its command.
LEMMA StoreKinds ==
  ASSUME Shape, OneState, Control, StoreSteps
  PROVE  \E op \in {"state", "invalidate", "aieinvalidate", "aiekeep", "finish", "planstate"} :
           Stored(op)
  BY StoreAnalysisEffect, InvalidateEffect, AieInvalidateEffect, AieKeepEffect, FinishEffect,
     PlanStateEffect DEF StoreSteps

\* A step on other files is the next operation of its command, and keeps its state.
LEMMA FileKinds ==
  ASSUME Shape, FileSteps
  PROVE  /\ \E op : Does(op)
         /\ UNCHANGED <<mem, project, cmd>> /\ IsRec(work', WorkFields) /\ work'.tapa = work.tapa
<1>0. "tapa" \in WorkFields /\ IsRec(work, WorkFields)
  BY DEF WorkFields, Shape
<1>1. CASE PublicationSteps
  BY <1>0, <1>1, PublicationEffect DEF Others
<1>2. CASE OutputSteps
  BY <1>0, <1>2, OutputEffect
<1>3. CASE RtlSteps
  BY <1>0, <1>3, RtlEffect DEF Others, RtlSteps
<1>4. CASE ReportSteps
  BY <1>0, <1>4, ReportEffect DEF Others, ReportSteps
<1>5. CASE AieSteps
  BY <1>0, <1>5, AieEffect DEF Others, AieSteps
<1>6. CASE RunTapacc
  BY <1>0, <1>6, TapaccEffect DEF Others
<1>7. CASE PlanHls \/ HlsJoin
  BY <1>0, <1>7, PoolEffect
<1>8. CASE PruneInactive
  BY <1>0, <1>8, PruneEffect DEF Others
<1>9. CASE PostSynthUtil \/ Simulate
  BY <1>0, <1>9, UtilEffect DEF Others
<1> QED BY <1>1, <1>2, <1>3, <1>4, <1>5, <1>6, <1>7, <1>8, <1>9 DEF FileSteps

\* A step of the command that runs takes one operation off its list.
LEMMA OperationDone ==
  ASSUME Shape, OneState, Control, StoreSteps \/ FileSteps
  PROVE  /\ Control' /\ UNCHANGED <<project, cmd>> /\ IsRec(work', WorkFields)
         /\ \E op : Does(op) /\ Pending' = Pending \ {op}
<1>1. CASE StoreSteps
  <2>1. PICK op \in {"state", "invalidate", "aieinvalidate", "aiekeep", "finish", "planstate"} :
          Stored(op)
    BY <1>1, StoreKinds
  <2>2. Does(op) /\ UNCHANGED <<project, cmd>> /\ IsRec(work', WorkFields) /\ At(op)
    BY <2>1 DEF Stored, Does
  <2>3. cmd.op # "pack"
    BY <2>2, CommandOf
  <2>4. Control' /\ Pending' = Pending \ {op}
    BY <2>2, <2>3, DoesControl
  <2> QED BY <2>2, <2>4
<1>2. CASE FileSteps
  <2>1. PICK op : Does(op)
    BY <1>2, FileKinds
  <2>2. UNCHANGED <<mem, project, cmd>> /\ IsRec(work', WorkFields)
    BY <1>2, FileKinds
  <2>3. Control' /\ Pending' = Pending \ {op}
    BY <2>1, <2>2, DoesControl
  <2> QED BY <2>1, <2>2, <2>3
<1> QED BY <1>1, <1>2

\* A command that ends leaves nothing to do.
LEMMA EndsEffect ==
  ASSUME Done \/ Stop
  PROVE  /\ todo' = <<>> /\ Pending' = {} /\ cmd'.op = "none" /\ UNCHANGED <<project, work, out>>
         /\ IsRec(job', Tasks) /\ Control'
<1>1. /\ todo' = <<>> /\ cmd' = NoCommand /\ job' = [t \in Tasks |-> NoJob]
      /\ UNCHANGED <<project, work, out>>
  BY DEF Done, Stop, Ends
<1>2. cmd'.op = "none" /\ IsRec(job', Tasks)
  BY <1>1 DEF NoCommand, IsRec
<1>3. Pending' = {} /\ Len(todo') = 0 /\ todo' \in Seq(Ops)
  BY <1>1 DEF Pending, Elems
<1>4. Control'
  BY <1>1, <1>3 DEF Control
<1> QED BY <1>1, <1>2, <1>3, <1>4

\* The operations of a command stay in order.
LEMMA ControlKept ==
  ASSUME Shape, OneState, Control, [Next]_vars
  PROVE  Control'
<1>1. CASE Starts
  BY <1>1, StartsEffect
<1>2. CASE StoreSteps \/ FileSteps
  BY <1>2, OperationDone
<1>3. CASE HlsSteps
  <2>1. UNCHANGED <<cmd, mem, todo>>
    BY <1>3, HlsEffect, Zenon DEF HlsSteps, OtherJobsKept
  <2>2. Pending' = Pending /\ Must' = Must
    BY <2>1 DEF Pending, Must, State
  <2> QED BY <2>1, <2>2 DEF Control
<1>4. CASE Done \/ Stop
  BY <1>4, EndsEffect
<1>5. CASE UNCHANGED vars
  <2>1. UNCHANGED <<cmd, mem, todo>>
    BY <1>5 DEF vars
  <2>2. Pending' = Pending /\ Must' = Must
    BY <2>1 DEF Pending, Must, State
  <2> QED BY <2>1, <2>2 DEF Control
<1> QED BY <1>1, <1>2, <1>3, <1>4, <1>5, StepKinds

\* synth does the operations of the mode it was started in.
LEMMA SynthKindKept ==
  ASSUME Shape, OneState, Control, SynthKind, [Next]_vars
  PROVE  SynthKind'
<1>1. CASE Starts
  BY <1>1, StartsEffect, SynthStarts DEF SynthKind
<1>2. CASE StoreSteps \/ FileSteps
  BY <1>2, OperationDone DEF SynthKind
<1>3. CASE HlsSteps
  <2>1. UNCHANGED <<cmd, todo>>
    BY <1>3, HlsEffect, Zenon DEF HlsSteps, OtherJobsKept
  <2> QED BY <2>1 DEF SynthKind, Pending
<1>4. CASE Done \/ Stop
  BY <1>4, EndsEffect DEF SynthKind
<1>5. CASE UNCHANGED vars
  BY <1>5 DEF SynthKind, Pending, vars
<1> QED BY <1>1, <1>2, <1>3, <1>4, <1>5, StepKinds

\* The files keep their shape: those the step does not touch, and those it does.
LEMMA ShapeFrame ==
  ASSUME Shape, IsRec(work', WorkFields), UNCHANGED <<project, out, job>>,
         work'.hls = work.hls, work'.rtl = work.rtl, work'.json = work.json, work'.yaml = work.yaml
  PROVE  Shape'
  BY DEF Shape

\* The files keep their shape.
LEMMA ShapeKept ==
  ASSUME Shape, OneState, Control, [Next]_vars
  PROVE  Shape'
<1>0. /\ IsRec(work, WorkFields) /\ {"hls", "rtl", "json", "yaml"} \subseteq WorkFields
  BY DEF WorkFields, Shape
<1>1. CASE Starts
  BY <1>0, <1>1, StartsEffect, ShapeFrame
<1>2. CASE StoreSteps
  BY <1>0, <1>2, StoreKinds, ShapeFrame DEF Stored, Others
<1>3. CASE PublicationSteps
  BY <1>0, <1>3, PublicationEffect, ShapeFrame DEF Others
<1>4. CASE OutputSteps
  <2>1. work' = work /\ UNCHANGED <<project, job>>
    BY <1>4, OutputEffect
  <2>2. IsRec(out', {"pkg", "libadf", "cfg", "control", "image"})
    <3>1. IsRec(out, {"pkg", "libadf", "cfg", "control", "image"})
      BY DEF Shape
    <3>2. CASE RawXo \/ BundleXo \/ OpenZip \/ CloseZip
      <4>1. PICK v : out' = [out EXCEPT !.pkg = v]
        BY <3>2 DEF RawXo, BundleXo, OpenZip, CloseZip, Emits
      <4> QED BY <3>1, <4>1 DEF IsRec
    <3>3. CASE PackLibadf
      BY <3>1, <3>3, Zenon DEF PackLibadf, Emits, IsRec
    <3>4. CASE PackConfig \/ PackControl \/ LinkXsa \/ Linked
      BY <3>1, <3>4 DEF PackConfig, PackControl, LinkXsa, Linked, Emits, IsRec
    <3>5. CASE RemoveImage \/ LinkImage
      <4>1. PICK v : out' = [out EXCEPT !.image = v]
        BY <3>5 DEF RemoveImage, LinkImage, Emits
      <4> QED BY <3>1, <4>1 DEF IsRec
    <3> QED BY <1>4, <3>2, <3>3, <3>4, <3>5 DEF OutputSteps
  <2> QED BY <2>1, <2>2 DEF Shape
<1>5. CASE RtlSteps
  <2>1. /\ IsRec(work', WorkFields) /\ UNCHANGED <<project, out, job>> /\ work'.hls = work.hls
        /\ work'.json = work.json /\ work'.yaml = work.yaml
    BY <1>0, <1>5, RtlEffect DEF Others
  <2>2. \A r \in work'.rtl : IsRec(r, {"build", "flatten", "plan", "custom"})
    <3>1. CASE RemoveRtl
      BY <1>5, <3>1, RtlEffect
    <3>2. CASE RenameRtl
      BY <1>5, <3>2, RtlEffect DEF IsRec
    <3>3. CASE PlanRtl
      BY <1>5, <3>3, RtlEffect DEF IsRec
    <3>4. CASE ApplyCustomRtl
      <4>1. work'.rtl = {[r EXCEPT !.custom = TRUE] : r \in work.rtl}
        BY <1>5, <3>4, RtlEffect
      <4> QED BY <4>1, Zenon DEF Shape, IsRec
    <3> QED BY <1>5, <3>1, <3>2, <3>3, <3>4 DEF RtlSteps
  <2> QED BY <2>1, <2>2 DEF Shape
<1>6. CASE ReportSteps
  <2>1. /\ IsRec(work', WorkFields) /\ UNCHANGED <<project, out, job>> /\ work'.hls = work.hls
        /\ work'.rtl = work.rtl
    BY <1>0, <1>6, ReportEffect DEF Others
  <2>2. \A r \in work'.json \cup work'.yaml : IsRec(r, {"build", "aie", "timing"})
    <3>0. \A r \in work.json \cup work.yaml : IsRec(r, {"build", "aie", "timing"})
      BY DEF Shape
    <3>1. IsRec(Report, {"build", "aie", "timing"})
      BY DEF IsRec, Report
    <3>2. IsRec(SynthReport, {"build", "aie", "timing"})
      BY DEF IsRec, SynthReport
    <3>3. ASSUME NEW R, \A r \in R : IsRec(r, {"build", "aie", "timing"})
          PROVE  \A r \in Fold(R) : IsRec(r, {"build", "aie", "timing"})
      BY <3>3 DEF Fold, IsRec
    <3>4. CASE AieJson \/ AieYaml
      BY <1>6, <3>0, <3>1, <3>4, ReportEffect
    <3>5. CASE WriteJson \/ WriteYaml
      BY <1>6, <3>0, <3>2, <3>5, ReportEffect
    <3>6. CASE FoldJson \/ FoldYaml
      BY <1>6, <3>0, <3>3, <3>6, ReportEffect
    <3> QED BY <1>6, <3>4, <3>5, <3>6 DEF ReportSteps
  <2> QED BY <2>1, <2>2 DEF Shape
<1>7. CASE AieSteps
  BY <1>0, <1>7, AieEffect, ShapeFrame DEF Others
<1>8. CASE RunTapacc
  <2>1. /\ IsRec(work', WorkFields) /\ UNCHANGED <<project, out, job>> /\ work'.rtl = work.rtl
        /\ work'.json = work.json /\ work'.yaml = work.yaml
    BY <1>0, <1>8, TapaccEffect DEF Others
  <2> QED BY <1>8, <2>1, TapaccEffect, Zenon DEF Shape
<1>9. CASE PlanHls \/ HlsJoin
  <2>1. UNCHANGED <<project, work, out>>
    BY <1>9, PoolEffect
  <2>2. IsRec(job', Tasks)
    BY <1>9 DEF PlanHls, HlsJoin, IsRec
  <2> QED BY <2>1, <2>2 DEF Shape
<1>10. CASE PruneInactive
  <2>1. /\ IsRec(work', WorkFields) /\ UNCHANGED <<project, out, job>> /\ work'.rtl = work.rtl
        /\ work'.json = work.json /\ work'.yaml = work.yaml
    BY <1>0, <1>10, PruneEffect DEF Others
  <2>2. IsRec(NoHls, {"key", "rpt", "hdl", "fresh"})
    BY DEF NoHls, IsRec
  <2> QED BY <1>10, <2>1, <2>2, PruneEffect, Zenon DEF Shape
<1>11. CASE PostSynthUtil \/ Simulate
  BY <1>0, <1>11, UtilEffect, ShapeFrame DEF Others
<1>12. CASE HlsSteps
  <2>1. PICK t \in Tasks : Hls(t)
    BY <1>12 DEF HlsSteps
  <2>2. /\ IsRec(work', WorkFields) /\ UNCHANGED <<project, out>> /\ work'.rtl = work.rtl
        /\ work'.json = work.json /\ work'.yaml = work.yaml
    BY <1>0, <2>1, HlsEffect, Zenon DEF Others, OtherJobsKept
  <2>3. /\ IsRec(work'.hls, Tasks) /\ IsRec(job', Tasks) /\ IsRec(work'.hls[t], HlsFields)
        /\ \A u \in Tasks \ {t} : work'.hls[u] = work.hls[u]
    BY <2>1, HlsEffect, Zenon DEF OtherJobsKept
  <2> QED BY <2>2, <2>3 DEF Shape, HlsFields
<1>13. CASE Done \/ Stop
  BY <1>13, EndsEffect, Zenon DEF Shape
<1>14. CASE UNCHANGED vars
  BY <1>14 DEF Shape, vars
<1> QED BY <1>1, <1>2, <1>3, <1>4, <1>5, <1>6, <1>7, <1>8, <1>9, <1>10, <1>11, <1>12, <1>13, <1>14,
           StepKinds DEF FileSteps

\* There is one state, and the command that runs has it.
LEMMA OneStateKept ==
  ASSUME Shape, OneState, Control, [Next]_vars
  PROVE  OneState'
<1>1. CASE Starts
  <2>1. UNCHANGED <<project, work>>
    BY <1>1, StartsEffect
  <2>2. \A s \in work'.tapa : work'.tapa = {s} /\ IsState(s)
    BY <2>1 DEF OneState
  <2>3. CASE Analyze
    <3>1. PICK p \in project.programs : cmd'.program = p
      BY <2>3, AnalyzeStarts
    <3>2. p.graph \in Graphs
      BY DEF Shape, Graphs
    <3>3. cmd'.op = "analyze"
      BY <2>3, AnalyzeStarts
    <3> QED BY <2>2, <3>1, <3>2, <3>3 DEF OneState, Stateful
  <2>4. CASE Link
    BY <2>2, <2>4, LinkStarts DEF OneState, Stateful
  <2>5. CASE Synth \/ Floorplan \/ FloorplanDse \/ Pack \/ Aiesim
    <3>1. PICK state \in Loaded : mem' = {state}
      BY <2>5, SynthStarts, FloorplanStarts, PackStarts, AiesimStarts
    <3>2. work.tapa = {state}
      BY <3>1 DEF Loaded, OneState
    <3>3. cmd'.op # "analyze"
      BY <2>5, SynthStarts, FloorplanStarts, PackStarts, AiesimStarts
    <3> QED BY <2>1, <2>2, <3>1, <3>2, <3>3 DEF OneState
  <2> QED BY <1>1, <2>3, <2>4, <2>5 DEF Starts
<1>2. CASE StoreSteps
  <2>1. PICK op \in {"state", "invalidate", "aieinvalidate", "aiekeep", "finish", "planstate"} :
          Stored(op)
    BY <1>2, StoreKinds
  <2> QED BY <2>1 DEF OneState, Stored
<1>3. CASE FileSteps
  BY <1>3, FileKinds DEF OneState, Stateful
<1>4. CASE HlsSteps
  <2>1. UNCHANGED <<cmd, mem>> /\ work'.tapa = work.tapa
    BY <1>4, HlsEffect, Zenon DEF HlsSteps, Others, WorkFields, OtherJobsKept
  <2> QED BY <2>1 DEF OneState, Stateful
<1>5. CASE Done \/ Stop
  BY <1>5, EndsEffect, Zenon DEF OneState, Stateful
<1>6. CASE UNCHANGED vars
  BY <1>6 DEF OneState, Stateful, vars
<1> QED BY <1>1, <1>2, <1>3, <1>4, <1>5, <1>6, StepKinds
-----------------------------------------------------------------------------
(* What comes before and after an operation *)

\* The operations that planning, joining and tapacc alone perform.
LEMMA FileOps ==
  ASSUME Shape, FileSteps
  PROVE  \E op : /\ Does(op)
                 /\ op = "plan" => PlanHls
                 /\ op = "hls" => HlsJoin
                 /\ op = "tapacc" => RunTapacc
                 /\ op = "prune" => PruneInactive
                 /\ op # "state" /\ op # "done"
<1>1. CASE PublicationSteps
  BY <1>1, PublicationEffect
<1>2. CASE OutputSteps
  BY <1>2, OutputEffect
<1>3. CASE RtlSteps
  BY <1>3, RtlEffect DEF RtlSteps
<1>4. CASE ReportSteps
  BY <1>4, ReportEffect DEF ReportSteps
<1>5. CASE AieSteps
  BY <1>5, AieEffect DEF AieSteps
<1>6. CASE RunTapacc
  BY <1>6, TapaccEffect
<1>7. CASE PlanHls \/ HlsJoin
  BY <1>7, PoolEffect
<1>8. CASE PruneInactive
  BY <1>8, PruneEffect
<1>9. CASE PostSynthUtil \/ Simulate
  BY <1>9, UtilEffect
<1> QED BY <1>1, <1>2, <1>3, <1>4, <1>5, <1>6, <1>7, <1>8, <1>9 DEF FileSteps

\* Most steps on files leave the HLS outputs and the tree alone.
LEMMA HlsFrame ==
  ASSUME Shape, FileSteps, ~RunTapacc, ~PruneInactive
  PROVE  work'.hls = work.hls /\ work'.tree = work.tree
<1>0. {"hls", "tree"} \subseteq WorkFields
  BY DEF WorkFields
<1>1. CASE PublicationSteps
  BY <1>0, <1>1, PublicationEffect, Zenon DEF Others
<1>2. CASE OutputSteps
  BY <1>0, <1>2, OutputEffect
<1>3. CASE RtlSteps
  BY <1>0, <1>3, RtlEffect DEF Others
<1>4. CASE ReportSteps
  BY <1>0, <1>4, ReportEffect, Zenon DEF Others
<1>5. CASE AieSteps
  BY <1>0, <1>5, AieEffect, Zenon DEF Others
<1>6. CASE PlanHls \/ HlsJoin
  BY <1>6, PoolEffect
<1>7. CASE PostSynthUtil \/ Simulate
  BY <1>0, <1>7, UtilEffect DEF Others
<1> QED BY <1>1, <1>2, <1>3, <1>4, <1>5, <1>6, <1>7 DEF FileSteps

\* What is done comes before what is not.
LEMMA Past ==
  ASSUME Control, NEW op, At(op)
  PROVE  /\ op \in Pending /\ op \in Ops
         /\ \A x \in Ops : Rank[x] < Rank[op] => x \notin Pending
         /\ \A x \in Must : Rank[op] < Rank[x] => x \in Pending
<1>1. todo \in Seq(Ops) /\ todo # <<>> /\ Head(todo) = op
  BY DEF Control, At
<1>2. Len(todo) \in Nat \ {0} /\ todo[1] = op /\ op \in Ops
  BY <1>1
<1>3. op \in Pending
  BY <1>2 DEF Pending, Elems
<1>4. ASSUME NEW x \in Ops, Rank[x] < Rank[op], x \in Pending PROVE FALSE
  <2>1. PICK i \in 1..Len(todo) : x = todo[i]
    BY <1>4 DEF Pending, Elems
  <2>2. Rank[x] \in Nat /\ Rank[op] \in Nat
    BY <1>2, RankType
  <2>3. i # 1
    BY <1>2, <1>4, <2>1, <2>2
  <2>4. 1 \in 1..Len(todo) /\ 1 < i
    BY <1>2, <2>1, <2>3
  <2>5. Rank[op] < Rank[x]
    BY <1>2, <2>1, <2>4 DEF Control
  <2> QED BY <1>4, <2>2, <2>5
<1> QED BY <1>2, <1>3, <1>4 DEF Control

\* The one file each step of a publication touches.
PublicationStep(op) ==
  \/ op = "rmxdc" /\ Others({"xdc"}) /\ work'.xdc = {}
  \/ op = "rmconn" /\ Others({"conn"}) /\ work'.conn = {}
  \/ op = "rmtiming" /\ Others({"timing"}) /\ work'.timing = {}
  \/ op = "rmmetrics" /\ Others({"metrics"}) /\ work'.metrics = {}
  \/ op = "timing" /\ Others({"timing"}) /\ work'.timing = {[plan |-> cmd.plan, fmax |-> cmd.impl]}
  \/ op = "bits" /\ Others({"bits"})
  \/ op = "metrics" /\ Others({"metrics"}) /\ work'.metrics = {[plan |-> cmd.plan, fmax |-> cmd.impl]}
  \/ op = "conn" /\ Others({"conn"}) /\ work'.conn = {cmd.plan}
  \/ op = "xdc" /\ Others({"xdc"}) /\ work'.xdc = {cmd.plan}

\* A step of a publication touches the file of its operation.
LEMMA PublicationDetail ==
  ASSUME Shape, PublicationSteps
  PROVE  \E op : Does(op) /\ PublicationStep(op)
<1>0. IsRec(work, WorkFields) /\ {"xdc", "conn", "timing", "bits", "metrics"} \subseteq WorkFields
  BY DEF Shape, WorkFields
<1>1. RemoveXdc => Does("rmxdc") /\ PublicationStep("rmxdc")
  BY <1>0, WriteField DEF RemoveXdc, Writes, PublicationStep
<1>2. RemoveConnectivity => Does("rmconn") /\ PublicationStep("rmconn")
  BY <1>0, WriteField DEF RemoveConnectivity, Writes, PublicationStep
<1>3. RemoveTiming => Does("rmtiming") /\ PublicationStep("rmtiming")
  BY <1>0, WriteField DEF RemoveTiming, Writes, PublicationStep
<1>4. RemoveMetrics => Does("rmmetrics") /\ PublicationStep("rmmetrics")
  BY <1>0, WriteField DEF RemoveMetrics, Writes, PublicationStep
<1>5. PublishTiming => Does("timing") /\ PublicationStep("timing")
  BY <1>0, WriteField DEF PublishTiming, Writes, PublicationStep
<1>6. PublishBits => Does("bits") /\ PublicationStep("bits")
  BY <1>0, WriteField DEF PublishBits, Writes, PublicationStep
<1>7. PublishMetrics => Does("metrics") /\ PublicationStep("metrics")
  BY <1>0, WriteField DEF PublishMetrics, Writes, PublicationStep
<1>8. PublishConnectivity => Does("conn") /\ PublicationStep("conn")
  BY <1>0, WriteField DEF PublishConnectivity, Writes, PublicationStep
<1>9. PublishXdc => Does("xdc") /\ PublicationStep("xdc")
  BY <1>0, WriteField DEF PublishXdc, Writes, PublicationStep
<1> QED BY <1>1, <1>2, <1>3, <1>4, <1>5, <1>6, <1>7, <1>8, <1>9 DEF PublicationSteps
=============================================================================
