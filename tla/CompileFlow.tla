---------------------------- MODULE CompileFlow -----------------------------
(***************************************************************************)
(* The tapa command line over one work directory: analyze, synth,          *)
(* floorplan, pack, link and aiesim (tapa-cli/src/chain.rs and steps/,     *)
(* with the vendor-tool calls of tapa-xilinx/src/tools).                   *)
(*                                                                         *)
(* What a file holds is modelled by what it was made from.  A command      *)
(* checks its inputs, then performs a sequence of atomic file operations,  *)
(* `todo`; a failing tool, a full disk or a killed process stops it        *)
(* between any two, and leaves the files as they are.  The HLS jobs of a   *)
(* synthesis run interleave.  Commands on one work directory do not        *)
(* overlap.                                                                *)
(***************************************************************************)
EXTENDS FlowInputs, Sequences

CONSTANTS
  Projects,          \* what a user does with a work directory: the versions of
                     \* the source (graph, tree, flatten) that analyze sees, and
                     \* the arguments of the other commands
  Candidates,        \* implementation candidates, numbered from 0
  FmaxValues,        \* clock rates an implementation may reach; 0 is a failure
  HLS_MAX_ATTEMPTS   \* attempts at a task's HLS run

Version == 5

\* Every version of the source has a task graph, as the graph file always does.
ASSUME GraphsAssumption ==
  \A p \in UNION {project.programs : project \in Projects} : "tasks" \in DOMAIN p.graph

Tasks == UNION {p.graph.tasks : p \in UNION {project.programs : project \in Projects}}

VARIABLES
  project, \* the project of this behaviour
  work,   \* the work directory: field -> what the file holds
  out,    \* packages and images, outside the work directory
  cmd,    \* the command that runs
  mem,    \* its copy of the flow state
  todo,   \* file operations it has yet to do; empty when none runs
  job     \* task -> its HLS job: a status and the attempts left
vars == <<project, work, out, cmd, mem, todo, job>>

NoCommand == [op |-> "none"]
NoHls == [key |-> {}, rpt |-> {}, hdl |-> {}, fresh |-> FALSE]
NoJob == [at |-> "none", left |-> 0]
NoUtil == [made |-> {}, fresh |-> FALSE]

NewState(graph, flatten) ==
  [version |-> Version, graph |-> graph, flatten |-> flatten, dev |-> {}, skipAie |-> FALSE,
   synthed |-> FALSE, floorplan |-> {}, area |-> {}]

Init ==
  /\ work = [tree |-> {}, tapa |-> {}, hls |-> [t \in Tasks |-> NoHls], rtl |-> {},
             json |-> {}, yaml |-> {}, util |-> [t \in Tasks |-> NoUtil], aie |-> {},
             xdc |-> {}, conn |-> {}, timing |-> {}, bits |-> {}, metrics |-> {}]
  /\ out = [pkg |-> {}, libadf |-> {}, cfg |-> {}, control |-> {}, image |-> {}]
  /\ project \in Projects
  /\ cmd = NoCommand /\ mem = {} /\ todo = <<>> /\ job = [t \in Tasks |-> NoJob]
-----------------------------------------------------------------------------
(* Commands and file operations.                                           *)

Idle == todo = <<>>

\* A command whose checks pass starts with its file operations.
Start(c, state, ops) ==
  /\ Idle /\ cmd' = c /\ mem' = state /\ todo' = Append(ops, "done")
  /\ UNCHANGED <<project, work, out, job>>

\* work_io::load: a missing state, or one of another version, is an error.
Loaded == {s \in work.tapa : s.version = Version}

\* The next operation of the command is `op`, and this step performs it.
At(op) == todo # <<>> /\ Head(todo) = op
Does(op) == At(op) /\ todo' = Tail(todo) /\ UNCHANGED <<project, cmd>>

\* An operation on the work directory alone.
Writes(op, w) == Does(op) /\ work' = w /\ UNCHANGED <<out, mem, job>>

\* work_io::store of the command's state.
Stores(op, w, state) ==
  Does(op) /\ mem' = {state} /\ work' = [w EXCEPT !.tapa = {state}] /\ UNCHANGED <<out, job>>

Ends ==
  /\ todo' = <<>> /\ cmd' = NoCommand /\ mem' = {} /\ job' = [t \in Tasks |-> NoJob]
  /\ UNCHANGED <<project, work, out>>

\* The command has done all it had to.
Done == At("done") /\ Ends

\* A tool fails, a check inside the command refuses, or the process dies.
Stop == ~Idle /\ ~At("done") /\ Ends
-----------------------------------------------------------------------------
(* analyze: tapacc rewrites the source tree; the flow state comes last.    *)

Analyze ==
  \E p \in project.programs : Start([op |-> "analyze", program |-> p], {}, <<"tapacc", "state">>)

\* Every file of the rewritten tree, its manifest included, is newer than any
\* HLS output.
RunTapacc ==
  Writes("tapacc", [work EXCEPT !.tree = {cmd.program.tree},
                                !.hls = [t \in Tasks |-> [@[t] EXCEPT !.fresh = FALSE]],
                                !.util = [t \in Tasks |-> [@[t] EXCEPT !.fresh = FALSE]]])

\* A leaf top cannot be a Vitis kernel.
StoreAnalysis ==
  /\ At("state")
  /\ LET g == cmd.program.graph
     IN /\ ~(g.target = "vitis" /\ g.top \notin g.upper)
        /\ Stores("state", work, NewState(g, cmd.program.flatten))
-----------------------------------------------------------------------------
(* synth: set the device and make the previous results inactive, build the  *)
(* AI Engine graph, run HLS, emit the RTL and the reports.                  *)

Partition(state) == AieTasks(state.graph) # {}
SynthRest == <<"plan", "hls", "prune", "rmrtl", "rtl">>

SynthOps(args, state) ==
  IF args.aieOnly THEN <<"aieinvalidate", "aieprep", "aiecompile", "aiekeep", "aiejson", "aieyaml">>
  ELSE <<"invalidate">> \o
       (IF Partition(state) /\ ~args.skipAie THEN <<"aieprep", "aiecompile">> ELSE <<"aieremove">>)
       \o SynthRest \o (IF args.util THEN <<"util">> ELSE <<>>) \o <<"json", "yaml", "finish">>

Synth ==
  \E args \in project.synth, state \in Loaded :
    \E dev \in ResolveDeviceInfo(args, state.graph.target) :
      /\ Partition(state) => state.graph.target = "vitis"
      /\ args.aieOnly => Partition(state)
      /\ Start([op |-> "synth", args |-> args, dev |-> dev], {state}, SynthOps(args, state))

State == Some(mem)

\* Mutant: the previous results stay active while synthesis runs.
StaysActiveMutant ==
  Stores("invalidate", work,
         [State EXCEPT !.dev = {cmd.dev}, !.skipAie = cmd.args.skipAie, !.floorplan = {}])

Invalidate ==
  Stores("invalidate", work,
         [State EXCEPT !.dev = {cmd.dev}, !.skipAie = cmd.args.skipAie, !.synthed = FALSE,
                       !.floorplan = {}])

\* --aie-only keeps the programmable-logic results while the device is the same.
AieInvalidate ==
  LET same == State.dev = {cmd.dev}
  IN Stores("aieinvalidate", work,
            [State EXCEPT !.dev = {cmd.dev}, !.synthed = @ /\ same,
                          !.floorplan = IF same THEN @ ELSE {}])

\* The graph directory is wiped before it is filled, and libadf.a appears
\* with the compiler's success.
AiePrepare == Writes("aieprep", [work EXCEPT !.aie = {}])
AieRemove == Writes("aieremove", [work EXCEPT !.aie = {}])

AieBuilt == [graph |-> State.graph.id, dev |-> cmd.dev,
             src |-> [t \in AieTasks(State.graph) |-> Sources(State.graph, Some(work.tree), t)]]

AieCompile ==
  /\ At("aiecompile")
  /\ \A t \in AieTasks(State.graph) : State.graph.srcs[t] \subseteq DOMAIN Some(work.tree).files
  /\ Writes("aiecompile", [work EXCEPT !.aie = {AieBuilt}])

AieKeep == Stores("aiekeep", work, [State EXCEPT !.skipAie = FALSE])

\* write_top_report of a rebuild: only over a synthesis that has reported.
Report == [build |-> State.area, aie |-> work.aie, timing |-> {}]
Refreshes == State.synthed /\ work.json \cup work.yaml # {}
AieJson == Writes("aiejson", IF Refreshes THEN [work EXCEPT !.json = {Report}] ELSE work)
AieYaml == Writes("aieyaml", IF Refreshes THEN [work EXCEPT !.yaml = {Report}] ELSE work)
-----------------------------------------------------------------------------
(* The HLS runs of the tasks (hls_run.rs).  A task's settings certify the   *)
(* report and the HDL beside them.                                          *)

Tree == Some(work.tree)
Pl == Some(PlGraph(State.graph))

Settings == [dev |-> cmd.dev, flags |-> State.graph.flags]
Made(t) == [dev |-> cmd.dev, src |-> Sources(State.graph, Tree, t), whole |-> TRUE]

CachedOutput(t) ==
  LET h == work.hls[t]
  IN /\ h.hdl # {} /\ h.fresh
     /\ h.rpt # {} /\ Some(h.rpt).dev = cmd.dev

CacheHit(t) ==
  /\ \/ HlsReuse(cmd.args) # "never" /\ work.hls[t].key = {Settings}
     \/ HlsReuse(cmd.args) = "fixtures"
  /\ CachedOutput(t)

\* Staging and planning, for all tasks before any job runs: a required cache
\* that misses ends the command.
PlanHls ==
  /\ At("plan")
  /\ PlGraph(State.graph) # {} /\ work.tree # {}
  /\ Stages(Pl, Tree)
  /\ HlsReuse(cmd.args) \in {"required", "fixtures"} => \A t \in HlsTasks(Pl) : CacheHit(t)
  /\ Does("plan")
  /\ job' = [t \in Tasks |-> IF t \notin HlsTasks(Pl) THEN NoJob
                             ELSE IF CacheHit(t) THEN [at |-> "done", left |-> 0]
                             ELSE [at |-> "start", left |-> HLS_MAX_ATTEMPTS]]
  /\ UNCHANGED <<work, out, mem>>

JobStep(t, from, to, h) ==
  /\ At("hls") /\ job[t].at = from
  /\ job' = [job EXCEPT ![t] = [at |-> to, left |-> IF to = "run" THEN @.left ELSE 0]]
  /\ work' = [work EXCEPT !.hls[t] = h]
  /\ UNCHANGED <<out, cmd, mem, todo, project>>

\* Mutant: the settings of the previous run stay while it is replaced.
KeepsSettingsMutant(t) == JobStep(t, "start", "run", work.hls[t])

\* "Never leave the previous run's settings certifying that output."
HlsStart(t) == JobStep(t, "start", "run", [work.hls[t] EXCEPT !.key = {}])

\* Pre-synthesis failures are retried, others are not.
HlsRetry(t) ==
  /\ job[t].left > 1
  /\ At("hls") /\ job[t].at = "run"
  /\ job' = [job EXCEPT ![t].left = @ - 1]
  /\ UNCHANGED <<work, out, cmd, mem, todo, project>>
HlsFail(t) == JobStep(t, "run", "failed", work.hls[t])

\* harvest_and_stage: the fresh project is complete, then the report is
\* replaced, then the HDL, file by file.
HlsReport(t) == JobStep(t, "run", "report", [work.hls[t] EXCEPT !.rpt = {}])
HlsReported(t) == JobStep(t, "report", "clear", [work.hls[t] EXCEPT !.rpt = {Made(t)}])
HlsClear(t) == JobStep(t, "clear", "copy", [work.hls[t] EXCEPT !.hdl = {}])
HlsCopy(t) ==
  JobStep(t, "copy", "copying", [work.hls[t] EXCEPT !.hdl = {[Made(t) EXCEPT !.whole = FALSE]},
                                                    !.fresh = TRUE])
HlsCopied(t) == JobStep(t, "copying", "settings", [work.hls[t] EXCEPT !.hdl = {Made(t)}])
HlsSettings(t) == JobStep(t, "settings", "done", [work.hls[t] EXCEPT !.key = {Settings}])

\* The pool has finished; the first error, if any, has ended the command.
HlsJoin ==
  /\ At("hls") /\ \A t \in HlsTasks(Pl) : job[t].at = "done"
  /\ Does("hls") /\ job' = [t \in Tasks |-> NoJob]
  /\ UNCHANGED <<work, out, mem>>

\* Outputs of tasks that are no longer HLS tasks of the design are removed.
PruneInactive ==
  Writes("prune", [work EXCEPT !.hls = [t \in Tasks |-> IF t \in HlsTasks(Pl) THEN @[t] ELSE NoHls]])
-----------------------------------------------------------------------------
(* The RTL tree is staged aside and swapped in; reports; the end.           *)

Hdl == [t \in HlsTasks(Pl) |-> work.hls[t].hdl]
Build == [graph |-> State.graph.id, dev |-> State.dev, hdl |-> Hdl]

RemoveRtl == Writes("rmrtl", [work EXCEPT !.rtl = {}])
RenameRtl ==
  /\ At("rtl") /\ \A t \in HlsTasks(Pl) : work.hls[t].hdl # {}
  /\ Writes("rtl", [work EXCEPT !.rtl = {[build |-> Build, flatten |-> State.flatten,
                                          plan |-> {}, custom |-> FALSE]}])

\* emit_post_synth_util: Vivado runs for a child of the top whose report is
\* missing or older than the sources.
UtilReport(t) == IF work.util[t].made # {} /\ work.util[t].fresh THEN work.util[t]
                 ELSE [made |-> {[dev |-> cmd.dev, hdl |-> work.hls[t].hdl]}, fresh |-> TRUE]
Measured == State.graph.kids \cap HlsTasks(Pl)
PostSynthUtil ==
  Writes("util", [work EXCEPT !.util = [t \in Tasks |-> IF t \in Measured THEN UtilReport(t)
                                                        ELSE @[t]]])

\* The areas that end up in the state: HLS estimates, and the utilization that
\* overrides them when it was asked for.
Areas == {[build |-> Build, total |-> [t \in (IF cmd.args.util THEN Measured ELSE {}) |->
                                         Some(work.util[t].made)]]}
SynthReport == [build |-> Areas, timing |-> {},
                aie |-> IF Partition(State) /\ ~cmd.args.skipAie THEN work.aie ELSE {}]
WriteJson == Writes("json", [work EXCEPT !.json = {SynthReport}])
WriteYaml == Writes("yaml", [work EXCEPT !.yaml = {SynthReport}])
Finish == Stores("finish", work, [State EXCEPT !.synthed = TRUE, !.area = Areas])
-----------------------------------------------------------------------------
(* floorplan: plan, or implement several plans and take the best; then      *)
(* replace what was published, the constraint file first to go and last to  *)
(* come (publish_floorplan_after_update).                                   *)

\* Mutant: the constraint file of the previous floorplan stays until it is replaced.
LateUnpublishMutant == <<"rmconn", "rmtiming", "rmmetrics">>

Unpublish == <<"rmxdc", "rmconn", "rmtiming", "rmmetrics">>
Publish(impl) == Unpublish \o <<"rmrtl", "planrtl", "planstate">>
                 \o (IF impl THEN <<"timing", "bits", "metrics">> ELSE <<>>) \o <<"conn", "xdc">>

\* winner_index: the fastest implementation, the first of equals.
WinnerIndex(fmax) ==
  CHOOSE i \in {i \in Candidates : fmax[i] > 0} :
    \A j \in Candidates : fmax[j] < fmax[i] \/ (fmax[j] = fmax[i] /\ i <= j)

\* validate_target of an implementation run.
CanImplement(state) ==
  state.graph.target \in {"vitis", "slash"} /\ \E d \in state.dev : d.platform # {}

PlanOf(state, option) == [option |-> option, area |-> state.area, flatten |-> TRUE]

\* Each candidate is packaged, linked and timed in a directory of its own: the
\* clock rate it reaches, 0 when a step of it fails.
Outcomes == [Candidates -> FmaxValues]

Floorplan ==
  \E option \in project.options, state \in Loaded :
    /\ state.synthed
    /\ Start([op |-> "floorplan", impl |-> {}, plan |-> PlanOf(state, option)], {state}, Publish(FALSE))

\* When no candidate succeeds nothing is published.
FloorplanDse ==
  \E fmax \in Outcomes, state \in Loaded :
    /\ project.dse /\ state.synthed /\ CanImplement(state)
    /\ \E i \in Candidates : fmax[i] > 0
    /\ Start([op |-> "floorplan", impl |-> {fmax[WinnerIndex(fmax)]},
              plan |-> PlanOf(state, WinnerIndex(fmax))], {state}, Publish(TRUE))

RemoveXdc == Writes("rmxdc", [work EXCEPT !.xdc = {}])
RemoveConnectivity == Writes("rmconn", [work EXCEPT !.conn = {}])
RemoveTiming == Writes("rmtiming", [work EXCEPT !.timing = {}])
RemoveMetrics == Writes("rmmetrics", [work EXCEPT !.metrics = {}])

PlanRtl ==
  Writes("planrtl", [work EXCEPT !.rtl = {[build |-> Build, flatten |-> TRUE,
                                           plan |-> {cmd.plan}, custom |-> FALSE]}])
PlanState == Stores("planstate", work, [State EXCEPT !.floorplan = {cmd.plan}])

PublishTiming == Writes("timing", [work EXCEPT !.timing = {[plan |-> cmd.plan, fmax |-> cmd.impl]}])
PublishBits == Writes("bits", [work EXCEPT !.bits = {cmd.plan}])
PublishMetrics == Writes("metrics", [work EXCEPT !.metrics = {[plan |-> cmd.plan, fmax |-> cmd.impl]}])
PublishConnectivity == Writes("conn", [work EXCEPT !.conn = {cmd.plan}])
PublishXdc == Writes("xdc", [work EXCEPT !.xdc = {cmd.plan}])
-----------------------------------------------------------------------------
(* pack: an archive of the RTL with the flow state in it, and beside a      *)
(* Vitis one the AI Engine graph and its connectivity.                      *)

PackOps(state, custom) ==
  (IF custom THEN <<"overlay">> ELSE <<>>) \o
  (IF state.graph.target = "vitis" THEN <<"rawxo", "bundle", "libadf", "cfg", "control">>
   ELSE <<"zipopen", "zip">>)

\* published_floorplan_xdc: the constraint file marks a whole publication.
Marked(state) == state.floorplan # {} => work.xdc # {}

Packable(state, custom) ==
  LET pl == PlGraph(state.graph)
      ports == UNION {g.ports[g.top] : g \in pl}
  IN /\ state.synthed
     /\ ~(custom /\ state.floorplan # {})
     /\ Marked(state)
     /\ work.rtl # {} /\ state.dev # {} /\ pl # {}
     /\ CASE state.graph.target = "vitis" -> KernelXmlPorts(ports, state.graph.bases) # {}
          [] state.graph.target = "slash" -> SlashTopValid(ports) /\ work.yaml # {}
          [] OTHER -> CosimSupported(ports)

Pack ==
  \E custom \in project.pack, state \in Loaded :
    /\ Packable(state, custom)
    /\ Start([op |-> "pack", custom |-> custom], {state}, PackOps(state, custom))

ApplyCustomRtl == Writes("overlay", [work EXCEPT !.rtl = {[r EXCEPT !.custom = TRUE] : r \in work.rtl}])

Emits(op, o) == Does(op) /\ out' = o /\ UNCHANGED <<work, mem, job>>

Package(state) == [rtl |-> work.rtl, state |-> state, report |-> work.yaml]
RawXo == Emits("rawxo", [out EXCEPT !.pkg = {Package({})}])
BundleXo == Emits("bundle", [out EXCEPT !.pkg = {Package(mem)}])
OpenZip == Emits("zipopen", [out EXCEPT !.pkg = {}])
CloseZip == Emits("zip", [out EXCEPT !.pkg = {Package(mem)}])

\* write_aie_sidecars: no graph to package removes what an earlier pack left.
Built == Partition(State) /\ work.aie # {}
\* Mutant: sidecars of an earlier pack stay.
StaleSidecarsMutant == Emits("libadf", [out EXCEPT !.libadf = IF Built THEN work.aie ELSE @])

PackLibadf ==
  Emits("libadf", IF Built THEN [out EXCEPT !.libadf = work.aie]
                  ELSE [out EXCEPT !.libadf = {}, !.cfg = {}, !.control = {}])
PackConfig ==
  /\ At("cfg") /\ (Partition(State) => Built \/ State.skipAie)
  /\ Emits("cfg", IF Built THEN [out EXCEPT !.cfg = {State.graph.id}] ELSE out)
PackControl ==
  Emits("control", [out EXCEPT !.control = IF Built /\ State.graph.control THEN State.dev ELSE {}])
-----------------------------------------------------------------------------
(* link: the package's state says how.  Vitis removes an earlier image      *)
(* first and links the sidecars beside the package; SLASH refuses to        *)
(* replace an image.                                                        *)

Link ==
  \E args \in project.link, p \in out.pkg : \E state \in p.state : \E plan \in LinkPlan(args, state) :
    /\ plan.backend = "vitis" =>
         (out.libadf # {} \/ out.cfg # {} \/ out.control # {} => out.libadf # {} /\ out.cfg # {})
    /\ plan.backend = "slash" => out.image = {}
    /\ Start([op |-> "link", plan |-> plan], {state},
             (IF plan.backend = "slash" THEN <<>> ELSE <<"rmimage">>) \o
             (IF plan.backend = "vitis" /\ out.libadf # {} THEN <<"xsa">> ELSE <<>>) \o
             <<"link", "linked">>)

RemoveImage == Emits("rmimage", [out EXCEPT !.image = {}])
LinkXsa == Emits("xsa", out)

\* The linker reports success, with or without an image; it must be there.
LinkImage ==
  /\ At("link")
  /\ \E image \in {out.image, {[pkg |-> out.pkg, libadf |-> out.libadf, mhz |-> cmd.plan.mhz]}} :
       Emits("link", [out EXCEPT !.image = image])
Linked == out.image # {} /\ Emits("linked", out)
-----------------------------------------------------------------------------
(* aiesim: simulate the AI Engine graph in a directory of its own, and fold *)
(* a cycle-accurate run's stream timing into the reports that exist.        *)

Aiesim ==
  \E state \in Loaded, accurate \in project.aiesim :
    /\ Partition(state) /\ state.dev # {} /\ work.tree # {}
    /\ Start([op |-> "aiesim"], {state},
             IF accurate /\ state.synthed THEN <<"simulate", "foldjson", "foldyaml">>
             ELSE <<"simulate">>)

Simulate == Writes("simulate", work)
Fold(reports) == {[r EXCEPT !.timing = {State.graph.id}] : r \in reports}
FoldJson == Writes("foldjson", [work EXCEPT !.json = Fold(@)])
FoldYaml == Writes("foldyaml", [work EXCEPT !.yaml = Fold(@)])
-----------------------------------------------------------------------------
Hls(t) ==
  \/ HlsStart(t) \/ HlsRetry(t) \/ HlsFail(t) \/ HlsReport(t) \/ HlsReported(t) \/ HlsClear(t)
  \/ HlsCopy(t) \/ HlsCopied(t) \/ HlsSettings(t)

Next ==
  \/ Analyze \/ RunTapacc \/ StoreAnalysis
  \/ Synth \/ Invalidate \/ AieInvalidate \/ AiePrepare \/ AieRemove \/ AieCompile
  \/ AieKeep \/ AieJson \/ AieYaml
  \/ PlanHls \/ (\E t \in Tasks : Hls(t)) \/ HlsJoin \/ PruneInactive
  \/ RemoveRtl \/ RenameRtl \/ PostSynthUtil \/ WriteJson \/ WriteYaml \/ Finish
  \/ Floorplan \/ FloorplanDse \/ RemoveXdc \/ RemoveConnectivity \/ RemoveTiming \/ RemoveMetrics
  \/ PlanRtl \/ PlanState \/ PublishTiming \/ PublishBits \/ PublishMetrics
  \/ PublishConnectivity \/ PublishXdc
  \/ Pack \/ ApplyCustomRtl \/ RawXo \/ BundleXo \/ OpenZip \/ CloseZip
  \/ PackLibadf \/ PackConfig \/ PackControl
  \/ Link \/ RemoveImage \/ LinkXsa \/ LinkImage \/ Linked
  \/ Aiesim \/ Simulate \/ FoldJson \/ FoldYaml
  \/ Done \/ Stop

Spec == Init /\ [][Next]_vars
-----------------------------------------------------------------------------
(* Properties *)

Active == {s \in Loaded : s.synthed}

\* The HLS cache is sound: when the jobs of a run are done, each task's HDL
\* and report are complete and come from the sources in the tree and the
\* device of this run, however earlier runs ended (fixtures are taken as given).
CacheIsSound ==
  At("prune") /\ ~cmd.args.fixtures =>
    \A t \in HlsTasks(Pl) : work.hls[t].hdl = {Made(t)} /\ work.hls[t].rpt = {Made(t)}

\* While the state says a design is synthesized, the RTL, both reports and the
\* HLS estimates in the state (build) come from one and the same synthesis for
\* the graph and the device in the state: an interrupted rerun is never taken
\* for complete.  The measured utilization that overrides the estimates may be
\* of another device, see MeasuredForThisDevice.
SynthesisIsWhole ==
  todo = <<>> => \A s \in Active :
    /\ work.rtl # {} => \A r \in work.rtl : s.area # {} /\ r.build = Some(s.area).build
    /\ \A r \in work.json \cup work.yaml : r.build = s.area
    /\ work.json # {} /\ work.yaml # {}
    /\ \A a \in s.area : a.build.graph = s.graph.id /\ a.build.dev = s.dev

\* --enable-synth-util is there "for accurate area numbers instead of the coarser
\* HLS estimates" (docs/src/reference/cli.md): the utilization in the state was
\* measured for the device in the state.  It does not hold, for a report is
\* reused as long as the sources are older, whatever part it is for.
MeasuredForThisDevice ==
  todo = <<>> => \A s \in Active : \A a \in s.area : \A t \in DOMAIN a.total : s.dev = {a.total[t].dev}

\* While a floorplan is in the state and its constraint file is there, that
\* file, the RTL and whatever connectivity, timing report and metrics are
\* published are all of that floorplan.
PublicationIsWhole ==
  \A s \in Active : s.floorplan # {} /\ work.xdc # {} =>
    /\ work.xdc = s.floorplan
    /\ \A r \in work.rtl : r.plan = s.floorplan
    /\ work.conn \subseteq s.floorplan
    /\ \A x \in work.timing \cup work.metrics : x.plan \in s.floorplan

\* A finished pack has packaged the RTL of the synthesis and of the floorplan in
\* the state, and beside it exactly the AI Engine graph built for that design and device.
PackageIsWhole ==
  At("done") /\ cmd.op = "pack" => \A p \in out.pkg :
    /\ p.state = mem
    /\ \A r \in p.rtl : /\ r.build = Some(State.area).build
                        /\ State.floorplan # {} => r.plan = State.floorplan
    /\ State.graph.target = "vitis" =>
         /\ out.libadf = IF Partition(State) THEN work.aie ELSE {}
         /\ \A a \in out.libadf : a.graph = State.graph.id /\ a.dev \in State.dev
         /\ out.cfg = (IF out.libadf # {} THEN {State.graph.id} ELSE {})

\* The image a finished link leaves is linked from the package and the sidecars
\* it was given: one left by an earlier link never passes for the new one.
ImageIsFresh ==
  At("done") /\ cmd.op = "link" => \A i \in out.image : i.pkg = out.pkg /\ i.libadf = out.libadf

\* What pack and link leave is made from one synthesis, whatever was in the
\* directory before.
OutputsAreWhole == PackageIsWhole /\ ImageIsFresh
=============================================================================
