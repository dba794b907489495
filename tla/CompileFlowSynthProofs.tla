----------------------- MODULE CompileFlowSynthProofs ----------------------
(***************************************************************************)
(* Synthesis in CompileFlow: every step keeps what is known of the HLS     *)
(* cache and its jobs (Cache, Jobs), of a synthesis in progress            *)
(* (SynthProgress) and of the results of one that is complete (Whole).     *)
(* The second part of the proofs that CompileFlowProofs completes.         *)
(***************************************************************************)
EXTENDS CompileFlowStepProofs

-----------------------------------------------------------------------------
(* The HLS cache *)

\* While its jobs run, a synthesis has planned them.
LEMMA Running ==
  ASSUME Control, Jobs, OneState, At("hls")
  PROVE  /\ cmd.op = "synth" /\ HlsTasks(Pl) \subseteq Tasks /\ (\A t \in Tasks : JobIs(t))
         /\ mem = {State} /\ work.tapa = {State}
         /\ "hls" \in Pending /\ "plan" \notin Pending
<1>1. cmd.op = "synth"
  BY CommandOf
<1>2. "hls" \in Pending /\ "plan" \notin Pending
  BY Past, RankTable, OpsTable
<1>3. Stateful
  BY <1>1 DEF Stateful
<1> QED BY <1>1, <1>2, <1>3, StateIs DEF Jobs

\* A certificate outlives the steps that touch neither it nor what it speaks of.
LEMMA CertifiedFrame ==
  ASSUME NEW t, Certified(t), work'.hls[t] = work.hls[t], work'.tree = work.tree,
         \A s \in work'.tapa : \E r \in work.tapa : s.graph = r.graph
  PROVE  Certified(t)'
<1> SUFFICES ASSUME work.hls[t].key # {}
             PROVE  \E m \in work.hls[t].hdl :
                      /\ work.hls[t].hdl = {m} /\ work.hls[t].rpt = {m}
                      /\ \A k \in work.hls[t].key : k.dev = m.dev
                      /\ work.hls[t].fresh => \A s \in work'.tapa : m = MadeFor(s, m.dev, t)'
  BY DEF Certified
<1>1. PICK m \in work.hls[t].hdl :
        /\ work.hls[t].hdl = {m} /\ work.hls[t].rpt = {m}
        /\ \A k \in work.hls[t].key : k.dev = m.dev
        /\ work.hls[t].fresh => \A s \in work.tapa : m = MadeFor(s, m.dev, t)
  BY DEF Certified
<1>2. \A s \in work'.tapa : \E r \in work.tapa : MadeFor(s, m.dev, t)' = MadeFor(r, m.dev, t)
  BY Zenon DEF MadeFor, Tree, Sources
<1> QED BY <1>1, <1>2

\* The stores that keep the graph.
LEMMA GraphKept ==
  ASSUME Shape, OneState, Control, StoreSteps, ~StoreAnalysis
  PROVE  /\ State'.graph = State.graph /\ work.tapa = {State} /\ work'.tapa = {State'}
         /\ UNCHANGED <<cmd, job>> /\ cmd.op \in {"synth", "floorplan"}
         /\ work'.hls = work.hls /\ work'.tree = work.tree
<1>1. PICK op \in {"invalidate", "aieinvalidate", "aiekeep", "finish", "planstate"} : Stored(op)
  BY InvalidateEffect, AieInvalidateEffect, AieKeepEffect, FinishEffect, PlanStateEffect
     DEF StoreSteps
<1>2. cmd.op \in {"synth", "floorplan"}
  BY <1>1, CommandOf DEF Stored, Does
<1>3. Stateful
  BY <1>2 DEF Stateful
<1>4. State'.graph = State.graph
  BY InvalidateEffect, AieInvalidateEffect, AieKeepEffect, FinishEffect, PlanStateEffect
     DEF StoreSteps
<1> QED BY <1>1, <1>2, <1>3, <1>4, StateIs DEF Stored, Others, WorkFields

\* An HLS job certifies what it has made, and nothing before.
LEMMA CertifiedByJob ==
  ASSUME Shape, OneState, Control, Cache, Jobs, NEW t \in Tasks, Hls(t)
  PROVE  Certified(t)'
<1> DEFINE h == work.hls[t]
           H == work'.hls[t]
<1>1. At("hls") /\ UNCHANGED <<cmd, mem>> /\ work'.tapa = work.tapa /\ work'.tree = work.tree
  BY HlsEffect, Zenon DEF Others, WorkFields, OtherJobsKept
<1>2. JobIs(t) /\ work.tapa = {State}
  BY <1>1, Running
<1>3. CASE H.key = {}
  BY <1>3 DEF Certified
<1>4. CASE H.key # {}
  <2>1. job[t].at = "settings" /\ H.key = {Settings} /\ H.rpt = h.rpt /\ H.hdl = h.hdl
    BY <1>2, <1>4, HlsEffect, Zenon DEF JobIs, OtherJobsKept
  <2>2. H.rpt = {Made(t)} /\ H.hdl = {Made(t)}
    BY <1>2, <2>1 DEF JobIs
  <2>3. PICK m : m = Made(t)
    OBVIOUS
  <2>4. m.dev = cmd.dev /\ \A k \in H.key : k.dev = m.dev
    BY <2>1, <2>3 DEF Made, Settings
  <2>5. ASSUME NEW s \in work'.tapa PROVE m = MadeFor(s, m.dev, t)'
    <3>1. s = State
      BY <1>1, <1>2
    <3> QED BY <1>1, <2>3, <2>4, <3>1 DEF Made, MadeFor, Tree
  <2>6. m \in H.hdl /\ H.hdl = {m} /\ H.rpt = {m}
    BY <2>2, <2>3
  <2>7. \E n \in H.hdl : /\ H.hdl = {n} /\ H.rpt = {n}
                         /\ \A k \in H.key : k.dev = n.dev
                         /\ H.fresh => \A s \in work'.tapa : n = MadeFor(s, n.dev, t)'
    BY <2>4, <2>5, <2>6
  <2> QED BY ONLY <2>7 DEF Certified
<1> QED BY <1>3, <1>4

\* The cache's certificates stay true.
LEMMA CacheKept ==
  ASSUME Shape, OneState, Control, Cache, Jobs, [Next]_vars
  PROVE  Cache'
<1>0. \A t \in Tasks : Certified(t)
  BY DEF Cache
<1>1. CASE Starts
  <2>1. UNCHANGED work /\ (cmd'.op = "analyze" => "tapacc" \in Pending')
    BY <1>1, StartsEffect, AnalyzeStarts
  <2> QED BY <1>0, <2>1, CertifiedFrame DEF Cache
<1>2. CASE StoreAnalysis
  <2>1. Stored("state") /\ At("state")
    BY <1>2, StoreAnalysisEffect DEF StoreAnalysis
  <2>2. cmd.op = "analyze" /\ "tapacc" \notin Pending
    BY <2>1, CommandOf, Past, RankTable, OpsTable
  <2>3. \A t \in Tasks : ~work.hls[t].fresh
    BY <2>2 DEF Cache
  <2>4. work'.hls = work.hls
    BY <2>1 DEF Stored, Others, WorkFields
  <2>5. ASSUME NEW t \in Tasks PROVE Certified(t)'
    <3>1. Certified(t)
      BY <1>0
    <3> QED BY <2>3, <2>4, <3>1 DEF Certified
  <2> QED BY <2>3, <2>4, <2>5 DEF Cache
<1>3. CASE StoreSteps /\ ~StoreAnalysis
  <2>1. \A s \in work'.tapa : \E r \in work.tapa : s.graph = r.graph
    BY <1>3, GraphKept
  <2>2. work'.hls = work.hls /\ work'.tree = work.tree /\ cmd'.op # "analyze"
    BY <1>3, GraphKept
  <2> QED BY <1>0, <2>1, <2>2, CertifiedFrame DEF Cache
<1>4. CASE RunTapacc
  <2>1. ASSUME NEW t \in Tasks PROVE Certified(t)' /\ ~work'.hls[t].fresh
    <3>1. /\ work'.hls[t].key = work.hls[t].key /\ work'.hls[t].rpt = work.hls[t].rpt
          /\ work'.hls[t].hdl = work.hls[t].hdl /\ ~work'.hls[t].fresh
      BY <1>4, TapaccEffect, Zenon
    <3>2. Certified(t)
      BY <1>0
    <3> QED BY ONLY <3>1, <3>2 DEF Certified
  <2> QED BY <2>1 DEF Cache
<1>5. CASE PruneInactive
  <2>1. /\ \A t \in Tasks : work'.hls[t] = work.hls[t] \/ work'.hls[t] = NoHls
        /\ work'.tapa = work.tapa /\ work'.tree = work.tree /\ cmd' = cmd /\ At("prune")
    BY <1>5, PruneEffect DEF Others, WorkFields, Does
  <2>2. ASSUME NEW t \in Tasks PROVE Certified(t)'
    <3>1. CASE work'.hls[t] = work.hls[t]
      BY <1>0, <2>1, <3>1, CertifiedFrame
    <3>2. CASE work'.hls[t] = NoHls
      BY <3>2 DEF Certified, NoHls
    <3> QED BY <2>1, <3>1, <3>2
  <2>3. cmd'.op # "analyze"
    BY <2>1, CommandOf
  <2> QED BY <2>2, <2>3 DEF Cache
<1>6. CASE FileSteps /\ ~RunTapacc /\ ~PruneInactive
  <2>1. work'.hls = work.hls /\ work'.tree = work.tree /\ work'.tapa = work.tapa /\ cmd' = cmd
    BY <1>6, HlsFrame, FileKinds
  <2>2. PICK op : Does(op) /\ op # "tapacc"
    BY <1>6, FileOps
  <2>3. Pending' = Pending \ {op}
    BY <1>6, <2>2, FileKinds, DoesControl
  <2> QED BY <1>0, <2>1, <2>2, <2>3, CertifiedFrame DEF Cache
<1>7. CASE HlsSteps
  <2>1. PICK t \in Tasks : Hls(t)
    BY <1>7 DEF HlsSteps
  <2>2. /\ \A u \in Tasks \ {t} : work'.hls[u] = work.hls[u]
        /\ work'.tapa = work.tapa /\ work'.tree = work.tree /\ cmd' = cmd /\ At("hls")
    BY <2>1, HlsEffect, Zenon DEF Others, WorkFields, OtherJobsKept
  <2>3. Certified(t)'
    BY <2>1, CertifiedByJob
  <2>4. \A u \in Tasks \ {t} : Certified(u)'
    BY <1>0, <2>2, CertifiedFrame
  <2>5. cmd'.op # "analyze"
    BY <2>2, CommandOf
  <2> QED BY <2>3, <2>4, <2>5 DEF Cache
<1>8. CASE Done \/ Stop
  <2>1. UNCHANGED work /\ cmd'.op # "analyze"
    BY <1>8, EndsEffect
  <2> QED BY <1>0, <2>1, CertifiedFrame DEF Cache
<1>9. CASE UNCHANGED vars
  <2>1. UNCHANGED <<work, cmd, todo>>
    BY <1>9 DEF vars
  <2> QED BY <1>0, <2>1, CertifiedFrame DEF Cache, Pending
<1> QED BY <1>1, <1>2, <1>3, <1>4, <1>5, <1>6, <1>7, <1>8, <1>9, StepKinds

\* The programmable-logic half has no tasks of its own.
LEMMA PlTasks ==
  ASSUME NEW g \in Graphs, PlGraph(g) # {}
  PROVE  HlsTasks(Some(PlGraph(g))) \subseteq Tasks
<1>1. g.tasks \subseteq Tasks /\ "tasks" \in DOMAIN g
  BY GraphsAssumption DEF Graphs, Tasks
<1>2. PICK x \in PlGraph(g) : PlGraph(g) = {x}
  <2> DEFINE half == IF AieTasks(g) = {} THEN g
                     ELSE [g EXCEPT !.tasks = @ \ AieTasks(g), !.upper = @ \ AieTasks(g),
                                    !.ports[g.top] = @ \cup g.plio]
  <2>1. \A y \in PlGraph(g) : y = half
    BY Zenon DEF PlGraph
  <2> HIDE DEF half
  <2> QED BY <2>1
<1>3. Some(PlGraph(g)) = x
  BY <1>2, SomeOne
<1>4. x.tasks \subseteq g.tasks
  <2>1. CASE AieTasks(g) = {}
    BY <1>2, <2>1 DEF PlGraph
  <2>2. CASE AieTasks(g) # {}
    <3> DEFINE ports == [g.ports EXCEPT ![g.top] = @ \cup g.plio]
               upper == g.upper \ AieTasks(g)
               tasks == g.tasks \ AieTasks(g)
    <3>1. x = [g EXCEPT !.tasks = tasks, !.upper = upper, !.ports = ports]
      BY <1>2, <2>2, Zenon DEF PlGraph
    <3> HIDE DEF ports, upper
    <3>2. x.tasks = tasks
      BY <1>1, <3>1
    <3> QED BY <3>2
  <2> QED BY <2>1, <2>2
<1> QED BY <1>1, <1>3, <1>4 DEF HlsTasks

\* A step that leaves a job and its outputs alone.
LEMMA JobFrame ==
  ASSUME NEW t, work'.hls[t] = work.hls[t], job'[t] = job[t], work'.tree = work.tree,
         UNCHANGED <<mem, cmd>>
  PROVE  JobIs(t)' = JobIs(t)
<1>1. Made(t)' = Made(t) /\ Pl' = Pl
  BY DEF Made, Pl, State, Tree
<1> QED BY <1>1 DEF JobIs

\* A job's own step.
LEMMA JobKept ==
  ASSUME Shape, NEW t \in Tasks, JobIs(t), Hls(t)
  PROVE  JobIs(t)'
<1>1. UNCHANGED <<mem, cmd>> /\ work'.tree = work.tree
  BY HlsEffect, Zenon DEF Others, WorkFields, OtherJobsKept
<1>2. Made(t)' = Made(t) /\ Pl' = Pl
  BY <1>1 DEF Made, Pl, State, Tree
<1> QED BY <1>1, <1>2, HlsEffect, Zenon DEF JobIs, OtherJobsKept

\* A cache hit is an output made from these sources for this device.
LEMMA HitIsMade ==
  ASSUME Cache, OneState, Stateful, NEW t \in Tasks, CacheHit(t), ~cmd.args.fixtures
  PROVE  work.hls[t].hdl = {Made(t)} /\ work.hls[t].rpt = {Made(t)}
<1>1. work.hls[t].key = {Settings} /\ work.hls[t].fresh
  BY DEF CacheHit, HlsReuse, CachedOutput
<1>2. PICK m \in work.hls[t].hdl :
        /\ work.hls[t].hdl = {m} /\ work.hls[t].rpt = {m}
        /\ \A k \in work.hls[t].key : k.dev = m.dev
        /\ work.hls[t].fresh => \A s \in work.tapa : m = MadeFor(s, m.dev, t)
  <2>1. Certified(t)
    BY DEF Cache
  <2> QED BY <1>1, <2>1 DEF Certified
<1>3. m.dev = cmd.dev
  BY <1>1, <1>2 DEF Settings
<1>4. m = MadeFor(State, cmd.dev, t)
  BY <1>1, <1>2, <1>3, StateIs
<1>5. m = Made(t)
  BY <1>4 DEF MadeFor, Made
<1> QED BY <1>2, <1>5

\* A planned synthesis starts its jobs from a sound cache.
LEMMA PlannedJobs ==
  ASSUME Shape, OneState, Control, Cache, PlanHls
  PROVE  HlsTasks(Pl)' \subseteq Tasks /\ \A t \in Tasks : JobIs(t)'
<1>1. UNCHANGED <<work, mem, cmd>> /\ At("plan")
  BY PoolEffect DEF Does
<1>2. cmd.op = "synth"
  BY <1>1, CommandOf
<1>3. Stateful
  BY <1>2 DEF Stateful
<1>4. State.graph \in Graphs /\ PlGraph(State.graph) # {}
  BY <1>3, StateIs DEF IsState, PlanHls
<1>5. HlsTasks(Pl) \subseteq Tasks
  BY <1>4, PlTasks DEF Pl
<1>6. ASSUME NEW t \in Tasks PROVE JobIs(t)'
  <2>1. Made(t)' = Made(t) /\ Pl' = Pl
    BY <1>1 DEF Made, Pl, State, Tree
  <2>2. job'[t] = IF t \notin HlsTasks(Pl) THEN NoJob
                  ELSE IF CacheHit(t) THEN [at |-> "done", left |-> 0]
                  ELSE [at |-> "start", left |-> HLS_MAX_ATTEMPTS]
    BY DEF PlanHls
  <2>3. CASE t \notin HlsTasks(Pl)
    <3>1. job'[t].at = "none"
      BY <2>2, <2>3 DEF NoJob
    <3> QED BY <2>1, <3>1 DEF JobIs
  <2>4. CASE t \in HlsTasks(Pl) /\ CacheHit(t)
    <3>1. job'[t].at = "done"
      BY <2>2, <2>4
    <3>2. ~cmd.args.fixtures => work.hls[t].hdl = {Made(t)} /\ work.hls[t].rpt = {Made(t)}
      BY <1>3, <2>4, HitIsMade
    <3> QED BY <1>1, <2>1, <2>4, <3>1, <3>2 DEF JobIs
  <2>5. CASE t \in HlsTasks(Pl) /\ ~CacheHit(t)
    <3>1. job'[t].at = "start"
      BY <2>2, <2>5
    <3> QED BY <2>1, <2>5, <3>1 DEF JobIs
  <2> QED BY <2>3, <2>4, <2>5
<1>7. Pl' = Pl
  BY <1>1 DEF Pl, State
<1> QED BY <1>5, <1>6, <1>7 DEF HlsTasks

\* A synthesis in full, not of the AI Engine graph alone, has all of it ahead.
LEMMA FullSynth ==
  ASSUME Control, SynthKind, NEW op, At(op), cmd.op = "synth", op \notin AieOps
  PROVE  ~cmd.args.aieOnly
         /\ Must = {"plan", "hls", "prune", "rmrtl", "rtl", "json", "yaml", "finish"}
<1>1. op \in Pending
  BY Past
<1>2. ~cmd.args.aieOnly
  BY <1>1 DEF SynthKind
<1> QED BY <1>2 DEF Must

\* The stores of a synthesis come before its jobs, or after.
LEMMA JobsOverStores ==
  ASSUME Shape, OneState, Control, SynthKind, Jobs, StoreSteps, cmd.op = "synth"
  PROVE  Jobs'
<1>1. /\ UNCHANGED cmd
      /\ \E op : Does(op) /\ Pending' = Pending \ {op}
  BY OperationDone
<1>2. CASE StoreAnalysis \/ PlanState
  BY <1>2, CommandOf DEF StoreAnalysis, PlanState, Stores, Does
<1>3. CASE Invalidate
  <2>1. At("invalidate") /\ Does("invalidate")
    BY <1>3 DEF Invalidate, Stores, Does
  <2>2. "plan" \in Must /\ "hls" \in Must
    BY <2>1, FullSynth DEF AieOps
  <2>3. "plan" \in Pending /\ "hls" \in Pending
    BY <2>1, <2>2, Past, RankTable
  <2>4. Pending' = Pending \ {"invalidate"}
    BY <1>1, <2>1 DEF Does, At
  <2> QED BY <1>1, <2>3, <2>4 DEF Jobs
<1>4. CASE AieInvalidate \/ AieKeep
  <2>1. PICK op \in {"aieinvalidate", "aiekeep"} : At(op)
    BY <1>4, Zenon DEF AieInvalidate, AieKeep, Stores, Does
  <2>2. op \in Pending
    BY <2>1, Past
  <2>3. Pending \subseteq AieOps
    BY <2>2 DEF SynthKind
  <2>4. Pending' \cap {"hls", "prune", "finish"} = {}
    BY <1>1, <2>3 DEF AieOps
  <2> QED BY <2>4 DEF Jobs
<1>5. CASE Finish
  <2>1. At("finish") /\ Does("finish")
    BY <1>5 DEF Finish, Stores, Does
  <2>2. "hls" \notin Pending /\ "prune" \notin Pending
    BY <2>1, Past, RankTable, OpsTable
  <2>3. Pending' = Pending \ {"finish"}
    BY <1>1, <2>1 DEF Does, At
  <2> QED BY <2>2, <2>3 DEF Jobs
<1> QED BY <1>2, <1>3, <1>4, <1>5 DEF StoreSteps

\* The jobs and their outputs are as their status says, and, once joined, made
\* from this synthesis's sources.
LEMMA JobsKept ==
  ASSUME Shape, OneState, Control, SynthKind, Cache, Jobs, [Next]_vars
  PROVE  Jobs'
<1>1. CASE Starts
  <2>1. CASE cmd'.op = "synth"
    <3>1. Synth
      BY <1>1, <2>1, StartsEffect
    <3>2. /\ cmd'.args.aieOnly => Pending' \subseteq AieOps
          /\ ~cmd'.args.aieOnly => "plan" \in Pending' /\ "hls" \in Pending'
      BY <2>1, <3>1, SynthStarts DEF SynthKind
    <3> QED BY <3>2 DEF Jobs, AieOps
  <2>2. CASE cmd'.op # "synth"
    BY <2>2 DEF Jobs
  <2> QED BY <2>1, <2>2
<1>2. CASE StoreSteps
  <2>1. CASE cmd.op = "synth"
    BY <1>2, <2>1, JobsOverStores
  <2>2. CASE cmd.op # "synth"
    <3>1. cmd' = cmd
      BY <1>2, OperationDone
    <3> QED BY <2>2, <3>1 DEF Jobs
  <2> QED BY <2>1, <2>2
<1>3. CASE PlanHls
  <2>1. Does("plan") /\ At("plan") /\ UNCHANGED <<mem, cmd>>
    BY <1>3, PoolEffect DEF Does
  <2>2. cmd.op = "synth"
    BY <2>1, CommandOf
  <2>3. "hls" \in Must
    BY <2>1, <2>2, FullSynth DEF AieOps
  <2>4. "hls" \in Pending
    BY <2>1, <2>3, Past, RankTable
  <2>5. Pending' = Pending \ {"plan"}
    BY <2>1, DoesControl
  <2>6. HlsTasks(Pl)' \subseteq Tasks /\ \A t \in Tasks : JobIs(t)'
    BY <1>3, PlannedJobs
  <2> QED BY <2>4, <2>5, <2>6 DEF Jobs, HlsTasks
<1>4. CASE HlsJoin
  <2>1. Does("hls") /\ At("hls") /\ UNCHANGED <<work, mem, cmd>>
    BY <1>4, PoolEffect DEF Does
  <2>2. /\ cmd.op = "synth" /\ HlsTasks(Pl) \subseteq Tasks
        /\ \A t \in Tasks : JobIs(t)
    BY <2>1, Running
  <2>3. Pending' = Pending \ {"hls"}
    BY <2>1, DoesControl
  <2>4. Pl' = Pl /\ HlsTasks(Pl)' = HlsTasks(Pl)
    BY <2>1 DEF Pl, State, HlsTasks
  <2>5. ASSUME NEW t \in HlsTasks(Pl), ~cmd.args.fixtures
        PROVE  work'.hls[t].hdl = {Made(t)'} /\ work'.hls[t].rpt = {Made(t)'}
    <3>1. Made(t)' = Made(t)
      BY <2>1 DEF Made, State, Tree
    <3>2. job[t].at = "done" /\ JobIs(t)
      BY <1>4, <2>2, <2>5 DEF HlsJoin
    <3> QED BY <2>1, <2>5, <3>1, <3>2 DEF JobIs
  <2> QED BY <2>1, <2>2, <2>3, <2>4, <2>5 DEF Jobs
<1>5. CASE RunTapacc
  <2>1. cmd.op = "analyze" /\ cmd' = cmd
    BY <1>5, TapaccEffect, CommandOf DEF Does
  <2> QED BY <2>1 DEF Jobs
<1>6. CASE PruneInactive
  <2>1. Does("prune") /\ At("prune") /\ UNCHANGED <<mem, cmd>>
    BY <1>6, PruneEffect DEF Does
  <2>2. "hls" \notin Pending /\ "prune" \in Pending
    BY <2>1, Past, RankTable, OpsTable
  <2>3. Pending' = Pending \ {"prune"}
    BY <2>1, DoesControl
  <2>4. Pl' = Pl /\ HlsTasks(Pl)' = HlsTasks(Pl)
    BY <2>1 DEF Pl, State, HlsTasks
  <2>5. "plan" \notin Pending
    BY <2>1, Past, RankTable, OpsTable
  <2> QED BY <2>1, <2>2, <2>3, <2>4, <2>5 DEF Jobs
<1>7. CASE FileSteps /\ ~PlanHls /\ ~HlsJoin /\ ~RunTapacc /\ ~PruneInactive
  <2>1. /\ work'.hls = work.hls /\ work'.tree = work.tree /\ UNCHANGED <<mem, cmd>>
    BY <1>7, HlsFrame, FileKinds
  <2>2. PICK op : Does(op) /\ op # "plan" /\ op # "hls"
    BY <1>7, FileOps
  <2>3. Pending' = Pending \ {op}
    BY <2>1, <2>2, DoesControl
  <2>4. job' = job
    BY <1>7, PublicationEffect, OutputEffect, RtlEffect, ReportEffect, AieEffect, UtilEffect
       DEF FileSteps
  <2>5. \A t \in Tasks : JobIs(t)' = JobIs(t)
    BY <2>1, <2>4, JobFrame
  <2>6. /\ Pl' = Pl /\ HlsTasks(Pl)' = HlsTasks(Pl)
        /\ \A t : Made(t)' = Made(t)
    BY <2>1 DEF Pl, State, HlsTasks, Made, Tree
  <2> QED BY <2>1, <2>2, <2>3, <2>5, <2>6 DEF Jobs
<1>8. CASE HlsSteps
  <2>1. PICK t \in Tasks : Hls(t)
    BY <1>8 DEF HlsSteps
  <2>2. /\ \A u \in Tasks \ {t} : work'.hls[u] = work.hls[u] /\ job'[u] = job[u]
        /\ work'.tree = work.tree /\ UNCHANGED <<mem, cmd, todo>> /\ At("hls")
    BY <2>1, HlsEffect, Zenon DEF Others, WorkFields, OtherJobsKept
  <2>3. \A u \in Tasks : JobIs(u)
    BY <2>2, Running
  <2>4. JobIs(t)'
    BY <2>1, <2>3, JobKept
  <2>5. \A u \in Tasks \ {t} : JobIs(u)'
    BY <2>2, <2>3, JobFrame
  <2>6. Pl' = Pl /\ HlsTasks(Pl)' = HlsTasks(Pl) /\ Pending' = Pending
    BY <2>2 DEF Pl, State, HlsTasks, Pending
  <2>7. "hls" \in Pending
    BY <2>2, Running
  <2> QED BY <2>2, <2>4, <2>5, <2>6, <2>7 DEF Jobs
<1>9. CASE Done \/ Stop
  BY <1>9, EndsEffect DEF Jobs
<1>10. CASE UNCHANGED vars
  <2>1. UNCHANGED <<work, mem, cmd, todo, job>>
    BY <1>10 DEF vars
  <2>2. \A t \in Tasks : JobIs(t)' = JobIs(t)
    BY <2>1, JobFrame
  <2>3. /\ Pl' = Pl /\ HlsTasks(Pl)' = HlsTasks(Pl) /\ Pending' = Pending
        /\ \A t : Made(t)' = Made(t)
    BY <2>1 DEF Pl, State, HlsTasks, Made, Tree, Pending
  <2> QED BY <2>1, <2>2, <2>3 DEF Jobs
<1> QED BY <1>1, <1>2, <1>3, <1>4, <1>5, <1>6, <1>7, <1>8, <1>9, <1>10, StepKinds
-----------------------------------------------------------------------------
(* One synthesis *)

\* A build is the same while its HDL is.
LEMMA BuildFrame ==
  ASSUME NEW s, NEW r, r.graph = s.graph, r.dev = s.dev,
         \/ work'.hls = work.hls
         \/ /\ HlsTasks(Some(PlGraph(s.graph))) \subseteq Tasks
            /\ \A t \in Tasks : work'.hls[t].hdl = work.hls[t].hdl
  PROVE  BuildOf(r)' = BuildOf(s)
<1>1. \A t \in HlsTasks(Some(PlGraph(s.graph))) : work'.hls[t].hdl = work.hls[t].hdl
  OBVIOUS
<1>2. BuildOf(r)' = [graph |-> r.graph.id, dev |-> r.dev,
                     hdl |-> [t \in HlsTasks(Some(PlGraph(r.graph))) |-> work'.hls[t].hdl]]
  BY DEF BuildOf
<1> DEFINE T == HlsTasks(Some(PlGraph(s.graph)))
<1>3. HlsTasks(Some(PlGraph(r.graph))) = T
  OBVIOUS
<1> HIDE DEF T
<1>4. [t \in T |-> work'.hls[t].hdl] = [t \in T |-> work.hls[t].hdl]
  BY <1>1 DEF T
<1>5. BuildOf(s) = [graph |-> s.graph.id, dev |-> s.dev, hdl |-> [t \in T |-> work.hls[t].hdl]]
  BY DEF BuildOf, T
<1> QED BY <1>2, <1>3, <1>4, <1>5

\* A synthesis stays whole when no file of another comes in.
LEMMA WholeFrame ==
  ASSUME NEW s, NEW r, WholeOf(s), r.graph = s.graph, r.dev = s.dev, r.area = s.area,
         \A t \in Tasks : work'.hls[t].hdl = work.hls[t].hdl,
         \A x \in work'.rtl : \E y \in work.rtl : x.build = y.build,
         work'.json # {}, work'.yaml # {},
         \A x \in work'.json \cup work'.yaml :
           x.build = s.area \/ \E y \in work.json \cup work.yaml : x.build = y.build,
         work'.aie \subseteq work.aie
  PROVE  WholeOf(r)'
<1>1. HlsTasks(Some(PlGraph(s.graph))) \subseteq Tasks
  BY DEF WholeOf
<1>2. BuildOf(r)' = BuildOf(s)
  BY <1>1, BuildFrame
<1>3. HlsTasks(Some(PlGraph(r.graph))) \subseteq Tasks
  BY <1>1
<1>4. \E a \in r.area : r.area = {a} /\ a.build = BuildOf(r)'
  BY <1>2 DEF WholeOf
<1>5. \A x \in work'.rtl : x.build = BuildOf(r)'
  BY <1>2 DEF WholeOf
<1>6. \A x \in work'.json \cup work'.yaml : x.build = r.area
  BY DEF WholeOf
<1>7. AieIsOf(r)'
  BY DEF WholeOf, AieIsOf
<1> QED BY <1>3, <1>4, <1>5, <1>6, <1>7 DEF WholeOf

\* From the first HLS run to the end, a synthesis is not yet active.
LEMMA Unsynthed ==
  ASSUME Control, SynthKind, SynthProgress, OneState,
         NEW op \in {"plan", "hls", "prune", "rtl", "util", "json", "yaml", "finish"}, At(op)
  PROVE  /\ cmd.op = "synth" /\ ~State.synthed /\ State.floorplan = {} /\ "finish" \in Pending
         /\ work.tapa = {State} /\ mem = {State}
         /\ "invalidate" \notin Pending /\ "aieprep" \notin Pending /\ "aieremove" \notin Pending
         /\ Must = {"plan", "hls", "prune", "rmrtl", "rtl", "json", "yaml", "finish"}
         /\ AieIsOf(State) /\ "aieinvalidate" \notin Pending
<1>1. cmd.op = "synth"
  BY CommandOf
<1>2. Must = {"plan", "hls", "prune", "rmrtl", "rtl", "json", "yaml", "finish"}
  BY <1>1, FullSynth DEF AieOps
<1>3. "finish" \in Pending
  BY <1>2, Past, RankTable
<1>4. /\ "invalidate" \notin Pending /\ "aieprep" \notin Pending /\ "aieremove" \notin Pending
      /\ "aieinvalidate" \notin Pending
  BY Past, RankTable, OpsTable
<1>5. Stateful
  BY <1>1 DEF Stateful
<1> QED BY <1>1, <1>2, <1>3, <1>4, <1>5, StateIs DEF SynthProgress

\* Past its first step, a synthesis has invalidated what was there.
LEMMA Invalidated ==
  ASSUME Control, NEW op, At(op), Rank[op] > 1
  PROVE  "invalidate" \notin Pending /\ "aieinvalidate" \notin Pending
<1>1. "invalidate" \in Ops /\ "aieinvalidate" \in Ops
  BY OpsTable
<1>2. Rank["invalidate"] = 1 /\ Rank["aieinvalidate"] = 1
  BY RankTable
<1>3. \A x \in Ops : Rank[x] < Rank[op] => x \notin Pending
  BY Past
<1>4. Rank["invalidate"] < Rank[op] /\ Rank["aieinvalidate"] < Rank[op]
  BY <1>2
<1> QED BY <1>1, <1>3, <1>4

\* The AI Engine graph a synthesis builds is for the device in its state.
LEMMA AieDevice ==
  ASSUME Control, SynthProgress, At("aiecompile")
  PROVE  cmd.op = "synth" /\ State.dev = {cmd.dev}
<1>1. cmd.op = "synth"
  BY CommandOf
<1>2. "invalidate" \notin Pending /\ "aieinvalidate" \notin Pending
  <2>1. Rank["aiecompile"] > 1
    BY RankTable
  <2> QED BY <2>1, Invalidated
<1> QED BY <1>1, <1>2 DEF SynthProgress

\* The end of a synthesis makes its own results active.
LEMMA WholeAtFinish ==
  ASSUME Shape, Control, SynthKind, SynthProgress, OneState, Jobs, Finish,
         NEW r \in work'.tapa
  PROVE  WholeOf(r)'
<1>1. /\ Stored("finish") /\ State'.graph = State.graph
      /\ State'.dev = State.dev /\ State'.area = Areas
  BY FinishEffect
<1>2. At("finish") /\ r = State' /\ work'.hls = work.hls /\ work'.rtl = work.rtl
      /\ work'.json = work.json /\ work'.yaml = work.yaml /\ work'.aie = work.aie
  BY <1>1 DEF Stored, Others, WorkFields, Does
<1>3. PICK s : s = State
  OBVIOUS
<1>4. r.graph = s.graph /\ r.dev = s.dev /\ r.area = Areas
  BY <1>1, <1>2, <1>3
<1>5. BuildOf(r)' = BuildOf(s)
  BY <1>2, <1>4, BuildFrame
<1>6. Build = BuildOf(s)
  BY <1>3 DEF Build, BuildOf, Hdl, Pl
<1>7. /\ cmd.op = "synth" /\ "finish" \in Pending /\ "invalidate" \notin Pending
      /\ "aieprep" \notin Pending /\ "aieremove" \notin Pending
  BY <1>2, Unsynthed
<1>8. /\ "rtl" \notin Pending /\ "json" \notin Pending /\ "yaml" \notin Pending
      /\ "plan" \notin Pending
  BY <1>2, Past, RankTable, OpsTable
<1>9. /\ AieIsOf(State) /\ \A x \in work.rtl : x.build = Build
      /\ work.json # {} /\ \A x \in work.json : x.build = Areas
      /\ work.yaml # {} /\ \A x \in work.yaml : x.build = Areas
  BY <1>7, <1>8 DEF SynthProgress
<1>10. HlsTasks(Pl) \subseteq Tasks
  BY <1>7, <1>8 DEF Jobs
<1>11. HlsTasks(Some(PlGraph(r.graph))) \subseteq Tasks
  BY <1>3, <1>4, <1>10 DEF Pl
<1>12. \E a \in r.area : r.area = {a} /\ a.build = BuildOf(r)'
  <2>1. PICK a : Areas = {a} /\ a.build = Build
    <3> DEFINE total == [t \in (IF cmd.args.util THEN Measured ELSE {}) |-> Some(work.util[t].made)]
               area == [build |-> Build, total |-> total]
    <3>1. Areas = {area}
      BY DEF Areas
    <3> HIDE DEF total
    <3>2. area.build = Build
      OBVIOUS
    <3> HIDE DEF area
    <3> QED BY <3>1, <3>2
  <2> QED BY <1>4, <1>5, <1>6, <2>1
<1>13. \A x \in work'.rtl : x.build = BuildOf(r)'
  BY <1>2, <1>5, <1>6, <1>9
<1>14. /\ work'.json # {} /\ work'.yaml # {}
       /\ \A x \in work'.json \cup work'.yaml : x.build = r.area
  BY <1>2, <1>4, <1>9
<1>15. AieIsOf(r)'
  BY <1>2, <1>3, <1>4, <1>9 DEF AieIsOf
<1> QED BY <1>11, <1>12, <1>13, <1>14, <1>15 DEF WholeOf

\* What is active comes from one synthesis.
LEMMA WholeKept ==
  ASSUME Shape, OneState, Control, SynthKind, Jobs, Whole, SynthProgress, [Next]_vars
  PROVE  Whole'
<1> SUFFICES ASSUME NEW r \in work'.tapa, r.synthed
             PROVE  WholeOf(r)'
  BY DEF Whole
<1>0. {"hls", "rtl", "json", "yaml", "aie", "tapa"} \subseteq WorkFields
  BY DEF WorkFields
<1>1. ASSUME work' = work PROVE WholeOf(r)'
  <2>1. WholeOf(r)
    BY <1>1 DEF Whole
  <2> QED BY <1>1, <2>1, WholeFrame, Zenon DEF WholeOf
<1>2. CASE Starts \/ Done \/ Stop \/ UNCHANGED vars
  BY <1>1, <1>2, StartsEffect, EndsEffect DEF vars
<1>3. CASE StoreAnalysis \/ Invalidate
  BY <1>3, StoreAnalysisEffect, InvalidateEffect DEF Stored
<1>4. CASE AieInvalidate \/ AieKeep \/ PlanState
  <2>1. /\ work'.tapa = {State'} /\ State'.graph = State.graph /\ State'.dev = State.dev
        /\ State'.area = State.area /\ State.synthed
    BY <1>4, AieInvalidateEffect, AieKeepEffect, PlanStateEffect DEF Stored
  <2>2. Others({"tapa"})
    BY <1>4, AieInvalidateEffect, AieKeepEffect, PlanStateEffect DEF Stored
  <2>3. work.tapa = {State}
    <3>1. StoreSteps /\ ~StoreAnalysis
      BY <1>3, <1>4, Zenon DEF StoreSteps, AieInvalidate, AieKeep, PlanState, StoreAnalysis, Stores, Does, At
    <3> QED BY <3>1, GraphKept
  <2>4. PICK s \in work.tapa : s = State
    BY <2>3
  <2>5. r.graph = s.graph /\ r.dev = s.dev /\ r.area = s.area /\ s.synthed
    BY <2>1, <2>4
  <2>6. WholeOf(s)
    BY <2>4, <2>5 DEF Whole
  <2>7. /\ work'.hls = work.hls /\ work'.rtl = work.rtl /\ work'.json = work.json
        /\ work'.yaml = work.yaml /\ work'.aie = work.aie
    BY <1>0, <2>2 DEF Others
  <2>8. work.json # {} /\ work.yaml # {}
    BY <2>6 DEF WholeOf
  <2> QED BY <2>5, <2>6, <2>7, <2>8, WholeFrame
<1>5. CASE Finish
  BY <1>5, WholeAtFinish
<1>7. CASE FileSteps
  <2>1. WholeOf(r) /\ r \in work.tapa
    BY <1>7, FileKinds DEF Whole
  <2>2. work.json # {} /\ work.yaml # {}
    BY <2>1 DEF WholeOf
  <2>3. CASE PublicationSteps \/ PostSynthUtil \/ Simulate
    <3>1. /\ work'.hls = work.hls /\ work'.rtl = work.rtl /\ work'.json = work.json
          /\ work'.yaml = work.yaml /\ work'.aie = work.aie
      BY <1>0, <2>3, PublicationEffect, UtilEffect DEF Others
    <3> QED BY <2>1, <2>2, <3>1, WholeFrame
  <2>4. CASE OutputSteps \/ PlanHls \/ HlsJoin
    BY <1>1, <2>4, OutputEffect, PoolEffect
  <2>5. CASE RtlSteps
    <3>1. /\ work'.hls = work.hls /\ work'.json = work.json
          /\ work'.yaml = work.yaml /\ work'.aie = work.aie
      BY <1>0, <2>5, RtlEffect DEF Others
    <3>2. CASE RemoveRtl
      <4>1. work'.rtl = {}
        BY <2>5, <3>2, RtlEffect
      <4> QED BY <2>1, <2>2, <3>1, <4>1, WholeFrame
    <3>3. CASE RenameRtl
      <4>1. At("rtl")
        BY <3>3 DEF RenameRtl
      <4>2. ~State.synthed /\ work.tapa = {State}
        BY <4>1, Unsynthed
      <4> QED BY <2>1, <4>2
    <3>4. CASE PlanRtl
      <4>1. /\ At("planrtl") /\ work'.rtl = {[build |-> Build, flatten |-> TRUE,
                                             plan |-> {cmd.plan}, custom |-> FALSE]}
        BY <2>5, <3>4, RtlEffect DEF Does
      <4>2. cmd.op = "floorplan"
        BY <4>1, CommandOf
      <4>3. Stateful
        BY <4>2 DEF Stateful
      <4>4. r = State
        BY <2>1, <4>3, StateIs
      <4>5. Build = BuildOf(r)
        BY <4>4 DEF Build, BuildOf, Hdl, Pl
      <4>6. BuildOf(r)' = BuildOf(r)
        BY <3>1, BuildFrame
      <4>7. \A x \in work'.rtl : x.build = BuildOf(r)'
        BY <4>1, <4>5, <4>6
      <4>8. AieIsOf(r)'
        BY <2>1, <3>1 DEF WholeOf, AieIsOf
      <4> QED BY <2>1, <3>1, <4>6, <4>7, <4>8 DEF WholeOf
    <3>5. CASE ApplyCustomRtl
      <4>1. work'.rtl = {[x EXCEPT !.custom = TRUE] : x \in work.rtl}
        BY <2>5, <3>5, RtlEffect
      <4>2. \A x \in work'.rtl : \E y \in work.rtl : x.build = y.build
        BY <4>1, Zenon DEF Shape, IsRec
      <4> QED BY <2>1, <2>2, <3>1, <4>2, WholeFrame
    <3> QED BY <2>5, <3>2, <3>3, <3>4, <3>5 DEF RtlSteps
  <2>6. CASE ReportSteps
    <3>1. /\ work'.hls = work.hls /\ work'.rtl = work.rtl /\ work'.aie = work.aie
      BY <1>0, <2>6, ReportEffect DEF Others
    <3>2. CASE WriteJson \/ WriteYaml
      <4>1. At("json") \/ At("yaml")
        BY <3>2 DEF WriteJson, WriteYaml, Writes, Does
      <4>2. ~State.synthed /\ work.tapa = {State}
        BY <4>1, Unsynthed
      <4> QED BY <2>1, <4>2
    <3>3. CASE AieJson \/ AieYaml
      <4>1. At("aiejson") \/ At("aieyaml")
        BY <3>3 DEF AieJson, AieYaml, Writes, Does
      <4>2. cmd.op = "synth"
        BY <4>1, CommandOf
      <4>3. Stateful
        BY <4>2 DEF Stateful
      <4>4. r = State
        BY <2>1, <4>3, StateIs
      <4>5. Report.build = r.area
        BY <4>4 DEF Report
      <4>6. work'.json \in {work.json, {Report}} /\ work'.yaml \in {work.yaml, {Report}}
        BY <2>6, <3>3, ReportEffect
      <4>7. /\ work'.json # {} /\ work'.yaml # {}
            /\ \A x \in work'.json \cup work'.yaml :
                 x.build = r.area \/ \E y \in work.json \cup work.yaml : x.build = y.build
        BY <2>2, <4>5, <4>6
      <4> QED BY <2>1, <3>1, <4>7, WholeFrame
    <3>4. CASE FoldJson \/ FoldYaml
      <4>1. work'.json \in {work.json, Fold(work.json)} /\ work'.yaml \in {work.yaml, Fold(work.yaml)}
        BY <2>6, <3>4, ReportEffect, Zenon
      <4>2. ASSUME NEW R, R \subseteq work.json \cup work.yaml
            PROVE  /\ \A x \in Fold(R) : \E y \in R : x.build = y.build
                   /\ R # {} => Fold(R) # {}
        <5>1. \A y \in R : IsRec(y, {"build", "aie", "timing"})
          BY <4>2 DEF Shape
        <5>2. \A y \in R : [y EXCEPT !.timing = {State.graph.id}].build = y.build
          BY <5>1 DEF IsRec
        <5>3. \A x \in Fold(R) : \E y \in R : x.build = y.build
          BY <5>2, Zenon DEF Fold
        <5>4. R # {} => Fold(R) # {}
          BY Zenon DEF Fold
        <5> QED BY <5>3, <5>4
      <4>3. /\ work'.json # {} /\ work'.yaml # {}
            /\ \A x \in work'.json \cup work'.yaml :
                 \E y \in work.json \cup work.yaml : x.build = y.build
        BY <2>2, <4>1, <4>2
      <4> QED BY <2>1, <3>1, <4>3, WholeFrame
    <3> QED BY <2>6, <3>2, <3>3, <3>4 DEF ReportSteps
  <2>7. CASE AieSteps
    <3>1. /\ work'.hls = work.hls /\ work'.rtl = work.rtl /\ work'.json = work.json
          /\ work'.yaml = work.yaml
      BY <1>0, <2>7, AieEffect DEF Others
    <3>2. CASE AiePrepare \/ AieRemove
      <4>1. work'.aie = {}
        BY <2>7, <3>2, AieEffect
      <4> QED BY <2>1, <2>2, <3>1, <4>1, WholeFrame
    <3>3. CASE AieCompile
      <4>1. At("aiecompile") /\ work'.aie = {AieBuilt}
        BY <2>7, <3>3, AieEffect DEF Does
      <4>2. cmd.op = "synth" /\ State.dev = {cmd.dev}
        BY <4>1, AieDevice
      <4>3. Stateful
        BY <4>2 DEF Stateful
      <4>4. r = State
        BY <2>1, <4>3, StateIs
      <4>5. AieIsOf(r)'
        BY <4>1, <4>2, <4>4 DEF AieIsOf, AieBuilt
      <4>6. BuildOf(r)' = BuildOf(r)
        BY <3>1, BuildFrame
      <4> QED BY <2>1, <3>1, <4>5, <4>6 DEF WholeOf
    <3> QED BY <2>7, <3>2, <3>3 DEF AieSteps
  <2>8. CASE RunTapacc
    <3>1. /\ \A t \in Tasks : work'.hls[t].hdl = work.hls[t].hdl
          /\ work'.rtl = work.rtl /\ work'.json = work.json
          /\ work'.yaml = work.yaml /\ work'.aie = work.aie
      BY <1>0, <2>8, TapaccEffect, Zenon DEF Others
    <3> QED BY <2>1, <2>2, <3>1, WholeFrame
  <2>9. CASE PruneInactive
    <3>1. At("prune")
      BY <2>9, PruneEffect DEF Does
    <3>2. ~State.synthed /\ work.tapa = {State}
      BY <3>1, Unsynthed
    <3> QED BY <2>1, <3>2
  <2> QED BY <1>7, <2>3, <2>4, <2>5, <2>6, <2>7, <2>8, <2>9 DEF FileSteps
<1>8. CASE HlsSteps
  <2>1. At("hls") /\ work'.tapa = work.tapa
    BY <1>0, <1>8, HlsEffect, Zenon DEF HlsSteps, Others, OtherJobsKept
  <2>2. ~State.synthed /\ work.tapa = {State}
    BY <2>1, Unsynthed
  <2> QED BY <2>1, <2>2
<1> QED BY <1>2, <1>3, <1>4, <1>5, <1>7, <1>8, StepKinds DEF StoreSteps

\* What the reports and the RTL are compared with.
LEMMA BuildSame ==
  ASSUME UNCHANGED <<mem, cmd>>, work'.hls = work.hls
  PROVE  State' = State /\ Build' = Build /\ (work'.util = work.util => Areas' = Areas)
<1>1. State' = State /\ Pl' = Pl
  BY DEF State, Pl
<1>2. Hdl' = Hdl
  BY <1>1 DEF Hdl, HlsTasks
<1>3. Build' = Build
  BY <1>1, <1>2 DEF Build
<1>4. Measured' = Measured
  BY <1>1 DEF Measured, HlsTasks
<1> QED BY <1>1, <1>3, <1>4 DEF Areas

\* Steps that leave what a synthesis has produced alone.
LEMMA SynthFrame ==
  ASSUME SynthProgress, UNCHANGED <<mem, cmd>>, work'.hls = work.hls, work'.util = work.util,
         work'.rtl = work.rtl, work'.json = work.json, work'.yaml = work.yaml, work'.aie = work.aie,
         NEW P, P \cap {"invalidate", "aieinvalidate", "aieprep", "aieremove", "rtl", "json",
                        "yaml"} = {},
         Pending' = Pending \ P
  PROVE  SynthProgress'
<1>1. State' = State /\ Build' = Build /\ Areas' = Areas
  BY BuildSame
<1>2. AieIsOf(State)' = AieIsOf(State)
  BY <1>1 DEF AieIsOf
<1> QED BY <1>1, <1>2 DEF SynthProgress

\* The stores of a synthesis.
LEMMA SynthOverStores ==
  ASSUME Shape, OneState, Control, SynthKind, SynthProgress, StoreSteps, cmd.op = "synth"
  PROVE  SynthProgress'
<1>1. /\ cmd' = cmd
      /\ \E op : Does(op) /\ Pending' = Pending \ {op}
  BY OperationDone
<1>2. CASE StoreAnalysis \/ PlanState
  BY <1>2, CommandOf DEF StoreAnalysis, PlanState, Stores, Does
<1>3. CASE Invalidate
  <2>1. /\ Stored("invalidate") /\ State'.dev = {cmd.dev} /\ ~State'.synthed
        /\ State'.floorplan = {} /\ At("invalidate")
    BY <1>3, InvalidateEffect DEF Stored, Does
  <2>2. {"rtl", "json", "yaml"} \subseteq Must
    BY <2>1, FullSynth DEF AieOps
  <2>3. "invalidate" \in Pending /\ "rtl" \in Pending /\ "json" \in Pending /\ "yaml" \in Pending
    BY <2>1, <2>2, Past, RankTable
  <2>4. Pending' = Pending \ {"invalidate"}
    BY <1>1, <2>1 DEF Does, At
  <2>5. "aieprep" \in Pending' \/ "aieremove" \in Pending'
    BY <2>3, <2>4 DEF SynthProgress
  <2> QED BY <1>1, <2>1, <2>3, <2>4, <2>5 DEF SynthProgress
<1>4. CASE AieInvalidate \/ AieKeep
  <2>1. PICK op \in {"aieinvalidate", "aiekeep"} : Stored(op) /\ At(op)
    BY <1>4, AieInvalidateEffect, AieKeepEffect DEF Stored, Does
  <2>2. op \in Pending
    BY <2>1, Past
  <2>3. Pending \subseteq AieOps
    BY <2>2 DEF SynthKind
  <2>4. "finish" \notin Pending' /\ "invalidate" \notin Pending' /\ "invalidate" \notin Pending
    BY <1>1, <2>3 DEF AieOps
  <2>5. State'.dev = {cmd.dev}
    <3>1. CASE AieInvalidate
      BY <3>1, AieInvalidateEffect
    <3>2. CASE AieKeep
      <4>1. State'.dev = State.dev /\ At("aiekeep")
        BY <3>2, AieKeepEffect, Zenon DEF Stored, Does
      <4>2. "aieinvalidate" \notin Pending
        <5>1. Rank["aiekeep"] > 1
          BY RankTable
        <5> QED BY <4>1, <5>1, Invalidated
      <4> QED BY <2>4, <4>1, <4>2 DEF SynthProgress
    <3> QED BY <1>4, <3>1, <3>2
  <2> QED BY <1>1, <2>4, <2>5 DEF SynthProgress
<1>5. CASE Finish
  <2>1. Stored("finish") /\ At("finish") /\ State'.dev = State.dev
    BY <1>5, FinishEffect DEF Stored, Does
  <2>2. "invalidate" \notin Pending /\ "aieinvalidate" \notin Pending
    <3>1. Rank["finish"] > 1
      BY RankTable
    <3> QED BY <2>1, <3>1, Invalidated
  <2>3. Pending' = Pending \ {"finish"}
    BY <1>1, <2>1 DEF Stored, Does, At
  <2>4. State'.dev = {cmd.dev}
    BY <2>1, <2>2 DEF SynthProgress
  <2> QED BY <1>1, <2>2, <2>3, <2>4 DEF SynthProgress
<1> QED BY <1>2, <1>3, <1>4, <1>5 DEF StoreSteps

\* The AI Engine steps of a synthesis.
LEMMA SynthOverAie ==
  ASSUME Shape, OneState, Control, SynthKind, SynthProgress, AieSteps
  PROVE  SynthProgress'
<1>1. /\ work'.hls = work.hls /\ work'.util = work.util /\ work'.rtl = work.rtl
      /\ work'.json = work.json /\ work'.yaml = work.yaml /\ UNCHANGED <<mem, cmd>>
  BY AieEffect DEF Others, WorkFields
<1>2. State' = State /\ Build' = Build /\ Areas' = Areas
  BY <1>1, BuildSame
<1>3. PICK op \in {"aieprep", "aieremove", "aiecompile"} :
        /\ Does(op) /\ At(op)
        /\ work'.aie = {} \/ (op = "aiecompile" /\ work'.aie = {AieBuilt})
  BY AieEffect DEF AieSteps, Does
<1>4. cmd.op = "synth"
  BY <1>3, CommandOf
<1>5. Pending' = Pending \ {op}
  BY <1>1, <1>3, DoesControl
<1>6. "invalidate" \notin Pending /\ "aieinvalidate" \notin Pending
  <2>1. Rank[op] > 1
    BY <1>3, RankTable
  <2> QED BY <1>3, <2>1, Invalidated
<1>7. State.dev = {cmd.dev}
  BY <1>4, <1>6 DEF SynthProgress
<1>8. AieIsOf(State)'
  <2>1. CASE work'.aie = {}
    BY <2>1 DEF AieIsOf
  <2>2. CASE work'.aie = {AieBuilt}
    BY <1>2, <1>7, <2>2 DEF AieIsOf, AieBuilt
  <2> QED BY <1>3, <2>1, <2>2
<1> QED BY <1>1, <1>2, <1>3, <1>4, <1>5, <1>6, <1>8 DEF SynthProgress

\* The RTL of a synthesis.
LEMMA SynthOverRtl ==
  ASSUME Shape, OneState, Control, SynthKind, SynthProgress, RtlSteps, cmd.op = "synth"
  PROVE  SynthProgress'
<1>1. /\ work'.hls = work.hls /\ work'.util = work.util /\ work'.aie = work.aie
      /\ work'.json = work.json /\ work'.yaml = work.yaml /\ UNCHANGED <<mem, cmd>>
  BY RtlEffect DEF Others, WorkFields
<1>2. State' = State /\ Build' = Build /\ Areas' = Areas
  BY <1>1, BuildSame
<1>3. PICK op \in {"rmrtl", "rtl"} :
        Does(op) /\ At(op) /\ (op = "rtl" => \A r \in work'.rtl : r.build = Build)
  <2>1. CASE RemoveRtl
    BY <2>1, RtlEffect DEF Does
  <2>2. CASE RenameRtl
    <3>1. Does("rtl") /\ work'.rtl = {[build |-> Build, flatten |-> State.flatten,
                                       plan |-> {}, custom |-> FALSE]}
      BY <2>2, RtlEffect
    <3>2. \A r \in work'.rtl : r.build = Build
      BY <3>1
    <3> QED BY <3>1, <3>2 DEF Does
  <2>3. CASE PlanRtl \/ ApplyCustomRtl
    <3>1. At("planrtl") \/ At("overlay")
      BY <2>3 DEF PlanRtl, ApplyCustomRtl, Writes, Does
    <3> QED BY <3>1, CommandOf
  <2> QED BY <2>1, <2>2, <2>3 DEF RtlSteps
<1>4. Pending' = Pending \ {op}
  BY <1>1, <1>3, DoesControl
<1>5. {"rtl", "json", "yaml"} \subseteq Must
  BY <1>3, FullSynth DEF AieOps
<1>6. (op = "rmrtl" => "rtl" \in Pending) /\ "json" \in Pending /\ "yaml" \in Pending
  BY <1>3, <1>5, Past, RankTable
<1>7. AieIsOf(State)' = AieIsOf(State)
  BY <1>1, <1>2 DEF AieIsOf
<1> QED BY <1>1, <1>2, <1>3, <1>4, <1>6, <1>7 DEF SynthProgress

\* The reports of a synthesis.
LEMMA SynthOverReports ==
  ASSUME Shape, OneState, Control, SynthKind, SynthProgress, ReportSteps, cmd.op = "synth"
  PROVE  SynthProgress'
<1>1. /\ work'.hls = work.hls /\ work'.util = work.util /\ work'.aie = work.aie
      /\ work'.rtl = work.rtl /\ UNCHANGED <<mem, cmd>>
  BY ReportEffect DEF Others, WorkFields
<1>2. State' = State /\ Build' = Build /\ Areas' = Areas
  BY <1>1, BuildSame
<1>3. AieIsOf(State)' = AieIsOf(State)
  BY <1>1, <1>2 DEF AieIsOf
<1>4. SynthReport.build = Areas
  BY DEF SynthReport
<1>5. CASE WriteJson
  <2>1. /\ Does("json") /\ At("json") /\ work'.json = {SynthReport} /\ work'.yaml = work.yaml
    BY <1>5, ReportEffect, Zenon DEF Does
  <2>2. Pending' = Pending \ {"json"}
    BY <1>1, <2>1, DoesControl
  <2>3. "yaml" \in Must
    BY <2>1, FullSynth DEF AieOps
  <2>4. "yaml" \in Pending
    BY <2>1, <2>3, Past, RankTable
  <2> QED BY <1>1, <1>2, <1>3, <1>4, <2>1, <2>2, <2>4 DEF SynthProgress
<1>6. CASE WriteYaml
  <2>1. /\ Does("yaml") /\ At("yaml") /\ work'.yaml = {SynthReport} /\ work'.json = work.json
    BY <1>6, ReportEffect, Zenon DEF Does
  <2>2. Pending' = Pending \ {"yaml"}
    BY <1>1, <2>1, DoesControl
  <2> QED BY <1>1, <1>2, <1>3, <1>4, <2>1, <2>2 DEF SynthProgress
<1>7. CASE AieJson \/ AieYaml
  <2>1. PICK op \in {"aiejson", "aieyaml"} : Does(op) /\ At(op)
    BY <1>7, ReportEffect, Zenon DEF Does
  <2>2. Pending' = Pending \ {op} /\ op \in Pending
    BY <1>1, <2>1, DoesControl
  <2>3. Pending \subseteq AieOps
    BY <2>2 DEF SynthKind
  <2> QED BY <1>1, <1>2, <2>1, <2>2, <2>3, Zenon DEF SynthProgress, AieOps
<1>8. CASE FoldJson \/ FoldYaml
  <2>1. At("foldjson") \/ At("foldyaml")
    BY <1>8, ReportEffect DEF Does
  <2> QED BY <2>1, CommandOf
<1> QED BY <1>5, <1>6, <1>7, <1>8 DEF ReportSteps

\* The commands that take the steps on files.
LEMMA FileCommand ==
  ASSUME Shape, Control, FileSteps
  PROVE  /\ PublicationSteps => cmd.op = "floorplan"
         /\ OutputSteps => cmd.op \in {"pack", "link"}
         /\ RtlSteps => cmd.op \in {"synth", "floorplan", "pack"}
         /\ ReportSteps => cmd.op \in {"synth", "aiesim"}
         /\ RunTapacc => cmd.op = "analyze"
         /\ AieSteps \/ PlanHls \/ HlsJoin \/ PruneInactive \/ PostSynthUtil => cmd.op = "synth"
         /\ Simulate => cmd.op = "aiesim"
<1>1. PublicationSteps => cmd.op = "floorplan"
  BY PublicationEffect, CommandOf DEF Does
<1>2. OutputSteps => cmd.op \in {"pack", "link"}
  BY OutputEffect, CommandOf DEF Does
<1>3. RtlSteps => cmd.op \in {"synth", "floorplan", "pack"}
  BY RtlEffect, CommandOf DEF Does, RtlSteps
<1>4. ReportSteps => cmd.op \in {"synth", "aiesim"}
  BY ReportEffect, CommandOf DEF Does, ReportSteps
<1>5. RunTapacc => cmd.op = "analyze"
  BY TapaccEffect, CommandOf DEF Does
<1>6. AieSteps => cmd.op = "synth"
  BY AieEffect, CommandOf, Zenon DEF Does, AieSteps
<1>7. PlanHls \/ HlsJoin => cmd.op = "synth"
  BY PoolEffect, CommandOf DEF Does
<1>8. PruneInactive => cmd.op = "synth"
  BY PruneEffect, CommandOf DEF Does
<1>9. PostSynthUtil => cmd.op = "synth"
  BY UtilEffect, CommandOf DEF Does
<1>10. Simulate => cmd.op = "aiesim"
  BY UtilEffect, CommandOf DEF Does
<1> QED BY <1>1, <1>2, <1>3, <1>4, <1>5, <1>6, <1>7, <1>8, <1>9, <1>10

\* What a synthesis has produced so far is its own.
LEMMA SynthKept ==
  ASSUME Shape, OneState, Control, SynthKind, SynthProgress, [Next]_vars
  PROVE  SynthProgress'
<1>1. CASE Starts
  <2>1. CASE cmd'.op = "synth"
    <3>1. Synth
      BY <1>1, <2>1, StartsEffect
    <3>2. /\ cmd'.args.aieOnly => "aieinvalidate" \in Pending' /\ Pending' \subseteq AieOps
          /\ ~cmd'.args.aieOnly => /\ "invalidate" \in Pending'
                                   /\ "aieprep" \in Pending' \/ "aieremove" \in Pending'
      BY <2>1, <3>1, SynthStarts DEF SynthKind
    <3> QED BY <3>2 DEF SynthProgress, AieOps
  <2>2. CASE cmd'.op # "synth"
    BY <2>2 DEF SynthProgress
  <2> QED BY <2>1, <2>2
<1>2. CASE (StoreSteps \/ FileSteps) /\ cmd.op # "synth"
  <2>1. cmd' = cmd
    BY <1>2, OperationDone
  <2> QED BY <1>2, <2>1 DEF SynthProgress
<1>3. CASE StoreSteps /\ cmd.op = "synth"
  BY <1>3, SynthOverStores
<1>4. CASE FileSteps /\ cmd.op = "synth"
  <2>1. CASE AieSteps
    BY <2>1, SynthOverAie
  <2>2. CASE RtlSteps
    BY <1>4, <2>2, SynthOverRtl
  <2>3. CASE ReportSteps
    BY <1>4, <2>3, SynthOverReports
  <2>4. CASE PlanHls \/ HlsJoin
    <3>1. PICK op \in {"plan", "hls"} : Does(op) /\ UNCHANGED <<work, mem, cmd>>
      BY <2>4, PoolEffect
    <3>2. Pending' = Pending \ {op}
      BY <3>1, DoesControl
    <3> QED BY <3>1, <3>2, SynthFrame, Zenon
  <2>5. CASE PruneInactive \/ PostSynthUtil
    <3>1. PICK op \in {"prune", "util"} :
            /\ Does(op) /\ At(op) /\ UNCHANGED <<mem, cmd>>
            /\ work'.rtl = work.rtl /\ work'.aie = work.aie /\ (op = "util" => work'.hls = work.hls)
      BY <2>5, PruneEffect, UtilEffect DEF Others, WorkFields, Does
    <3>2. Pending' = Pending \ {op}
      BY <3>1, DoesControl
    <3>3. Must = {"plan", "hls", "prune", "rmrtl", "rtl", "json", "yaml", "finish"}
      BY <3>1, Unsynthed
    <3>4. "json" \in Pending /\ "yaml" \in Pending /\ (op = "prune" => "rtl" \in Pending)
      BY <3>1, <3>3, Past, RankTable
    <3>5. State' = State /\ (op = "util" => Build' = Build)
      BY <3>1, BuildSame DEF State
    <3>6. AieIsOf(State)' = AieIsOf(State)
      BY <3>1, <3>5 DEF AieIsOf
    <3> QED BY <3>1, <3>2, <3>4, <3>5, <3>6 DEF SynthProgress
  <2> QED BY <1>4, <2>1, <2>2, <2>3, <2>4, <2>5, FileCommand DEF FileSteps
<1>5. CASE HlsSteps
  <2>1. /\ At("hls") /\ UNCHANGED <<mem, cmd, todo>> /\ work'.aie = work.aie
    BY <1>5, HlsEffect, Zenon DEF HlsSteps, Others, WorkFields, OtherJobsKept
  <2>2. Must = {"plan", "hls", "prune", "rmrtl", "rtl", "json", "yaml", "finish"}
    BY <2>1, Unsynthed
  <2>3. "json" \in Pending /\ "yaml" \in Pending /\ "rtl" \in Pending
    BY <2>1, <2>2, Past, RankTable
  <2>4. State' = State /\ Pending' = Pending
    BY <2>1 DEF State, Pending
  <2>5. AieIsOf(State)' = AieIsOf(State)
    BY <2>1, <2>4 DEF AieIsOf
  <2> QED BY <2>1, <2>3, <2>4, <2>5 DEF SynthProgress
<1>6. CASE Done \/ Stop
  BY <1>6, EndsEffect DEF SynthProgress
<1>7. CASE UNCHANGED vars
  <2>1. UNCHANGED <<work, mem, cmd>> /\ Pending' = Pending \ {}
    BY <1>7 DEF vars, Pending
  <2> QED BY <2>1, SynthFrame, Zenon
<1> QED BY <1>1, <1>2, <1>3, <1>4, <1>5, <1>6, <1>7, StepKinds
=============================================================================
