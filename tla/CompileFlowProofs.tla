------------------------- MODULE CompileFlowProofs -------------------------
(***************************************************************************)
(* Proofs about CompileFlow, for every set of projects and of candidates   *)
(* and every number of attempts: the HLS cache is sound (CacheCorrect), a  *)
(* state that says "synthesized" is beside one whole synthesis             *)
(* (SynthesisCorrect), a published floorplan is whole (PublicationCorrect) *)
(* and so is what pack and link leave (OutputsCorrect), although a command *)
(* may die between any two file operations.                                *)
(*                                                                         *)
(* The invariants relate what is in the files to the operations still      *)
(* pending: with that, what an earlier, interrupted command left behind is *)
(* accounted for in every state, and the properties are the cases where    *)
(* nothing is pending.  One lemma per conjunct of IInv shows that a step   *)
(* keeps it, by the kinds of step: start a command, store the flow state,  *)
(* write a file, run an HLS job, end.  The conjuncts and the first of      *)
(* these lemmas are in CompileFlowStepProofs, those about synthesis in     *)
(* CompileFlowSynthProofs.                                                 *)
(***************************************************************************)
EXTENDS CompileFlowSynthProofs

-----------------------------------------------------------------------------
(* One floorplan *)

\* A publication in progress: what has been removed, and what is of the new plan.
LEMMA FloorplanKept ==
  ASSUME Shape, OneState, Control, FloorplanProgress, [Next]_vars
  PROVE  FloorplanProgress'
<1>1. CASE Starts
  <2>1. CASE cmd'.op = "floorplan"
    <3>1. Floorplan \/ FloorplanDse
      BY <1>1, <2>1, StartsEffect
    <3>2. PICK state \in Loaded : mem' = {state} /\ state.synthed
      BY <3>1, FloorplanStarts
    <3>3. State'.synthed
      BY <3>2, SomeOne, Zenon DEF State
    <3>4. {"rmxdc", "rmconn", "rmtiming", "rmmetrics", "rmrtl", "planstate"} \subseteq Pending'
      BY <3>1, FloorplanStarts
    <3> QED BY <3>3, <3>4 DEF FloorplanProgress
  <2>2. CASE cmd'.op # "floorplan"
    BY <2>2 DEF FloorplanProgress
  <2> QED BY <2>1, <2>2
<1>2. CASE (StoreSteps \/ FileSteps) /\ cmd.op # "floorplan"
  <2>1. cmd' = cmd
    BY <1>2, OperationDone
  <2> QED BY <1>2, <2>1 DEF FloorplanProgress
<1>3. CASE StoreSteps /\ cmd.op = "floorplan"
  <2>1. PlanState
    <3>1. \/ At("state") \/ At("invalidate") \/ At("aieinvalidate") \/ At("aiekeep") \/ At("finish")
          \/ PlanState
      BY <1>3, Zenon
         DEF StoreSteps, StoreAnalysis, Invalidate, AieInvalidate, AieKeep, Finish, Stores, Does
    <3> QED BY <1>3, <3>1, CommandOf
  <2>2. /\ Stored("planstate") /\ State'.synthed = State.synthed /\ State'.floorplan = {cmd.plan}
    BY <2>1, PlanStateEffect
  <2>3. /\ work'.xdc = work.xdc /\ work'.conn = work.conn /\ work'.timing = work.timing
        /\ work'.metrics = work.metrics /\ work'.rtl = work.rtl /\ cmd' = cmd
    BY <2>2 DEF Stored, Others, WorkFields
  <2>4. Pending' = Pending \ {"planstate"}
    BY <1>3, <2>2, OperationDone DEF Stored, Does, At
  <2> QED BY <1>3, <2>2, <2>3, <2>4 DEF FloorplanProgress
<1>4. CASE PublicationSteps /\ cmd.op = "floorplan"
  <2>1. UNCHANGED <<mem, cmd>> /\ work'.rtl = work.rtl
    BY <1>4, PublicationEffect DEF Others, WorkFields
  <2>2. State' = State
    BY <2>1 DEF State
  <2>3. \A op : Does(op) => Pending' = Pending \ {op}
    BY <2>1, DoesControl
  <2>4. /\ State.synthed
        /\ "rmxdc" \notin Pending /\ "xdc" \in Pending => work.xdc = {}
        /\ "rmconn" \notin Pending => work.conn \subseteq {cmd.plan}
        /\ "rmtiming" \notin Pending => \A x \in work.timing : x.plan = cmd.plan
        /\ "rmmetrics" \notin Pending => \A x \in work.metrics : x.plan = cmd.plan
        /\ "rmrtl" \notin Pending => \A r \in work.rtl : r.plan = {cmd.plan}
        /\ "planstate" \notin Pending => State.floorplan = {cmd.plan}
    BY <1>4 DEF FloorplanProgress
  <2>5. {"xdc", "conn", "timing", "bits", "metrics"} \subseteq WorkFields
    BY DEF WorkFields
  <2>6. PICK op : Does(op) /\ PublicationStep(op)
    BY <1>4, PublicationDetail
  <2>7. Pending' = Pending \ {op}
    BY <2>3, <2>6
  <2>8. "rmxdc" \notin Pending' /\ "xdc" \in Pending' => work'.xdc = {}
    BY <2>4, <2>5, <2>6, <2>7 DEF Others, PublicationStep
  <2>9. "rmconn" \notin Pending' => work'.conn \subseteq {cmd.plan}
    BY <2>4, <2>5, <2>6, <2>7 DEF Others, PublicationStep
  <2>10. "rmtiming" \notin Pending' => \A x \in work'.timing : x.plan = cmd.plan
    BY <2>4, <2>5, <2>6, <2>7 DEF Others, PublicationStep
  <2>11. "rmmetrics" \notin Pending' => \A x \in work'.metrics : x.plan = cmd.plan
    BY <2>4, <2>5, <2>6, <2>7 DEF Others, PublicationStep
  <2>12. /\ "rmrtl" \notin Pending' => \A r \in work'.rtl : r.plan = {cmd.plan}
         /\ "planstate" \notin Pending' => State.floorplan = {cmd.plan}
    BY <2>1, <2>4, <2>6, <2>7 DEF PublicationStep
  <2> QED BY <2>1, <2>2, <2>4, <2>8, <2>9, <2>10, <2>11, <2>12 DEF FloorplanProgress
<1>5. CASE RtlSteps /\ cmd.op = "floorplan"
  <2>1. /\ UNCHANGED <<mem, cmd>> /\ work'.xdc = work.xdc /\ work'.conn = work.conn
        /\ work'.timing = work.timing /\ work'.metrics = work.metrics
    BY <1>5, RtlEffect DEF Others, WorkFields
  <2>2. PICK op \in {"rmrtl", "planrtl"} : Does(op) /\ \A r \in work'.rtl : r.plan = {cmd.plan}
    <3>1. CASE RemoveRtl
      BY <1>5, <3>1, RtlEffect
    <3>2. CASE PlanRtl
      <4>1. Does("planrtl") /\ work'.rtl = {[build |-> Build, flatten |-> TRUE,
                                             plan |-> {cmd.plan}, custom |-> FALSE]}
        BY <1>5, <3>2, RtlEffect
      <4>2. \A r \in work'.rtl : r.plan = {cmd.plan}
        BY <4>1
      <4> QED BY <4>1, <4>2
    <3>3. CASE RenameRtl \/ ApplyCustomRtl
      <4>1. At("rtl") \/ At("overlay")
        BY <3>3 DEF RenameRtl, ApplyCustomRtl, Writes, Does
      <4> QED BY <1>5, <4>1, CommandOf
    <3> QED BY <1>5, <3>1, <3>2, <3>3 DEF RtlSteps
  <2>3. Pending' = Pending \ {op}
    BY <2>1, <2>2, DoesControl
  <2>4. State' = State
    BY <2>1 DEF State
  <2> QED BY <1>5, <2>1, <2>2, <2>3, <2>4 DEF FloorplanProgress
<1>6. CASE FileSteps /\ cmd.op = "floorplan"
  BY <1>4, <1>5, <1>6, FileCommand DEF FileSteps
<1>7. CASE HlsSteps
  <2>1. At("hls") /\ cmd' = cmd
    BY <1>7, HlsEffect, Zenon DEF HlsSteps, OtherJobsKept
  <2>2. cmd.op = "synth"
    BY <2>1, CommandOf
  <2> QED BY <2>1, <2>2 DEF FloorplanProgress
<1>8. CASE Done \/ Stop
  BY <1>8, EndsEffect DEF FloorplanProgress
<1>9. CASE UNCHANGED vars
  <2>1. UNCHANGED <<work, mem, cmd, todo>>
    BY <1>9 DEF vars
  <2>2. State' = State /\ Pending' = Pending
    BY <2>1 DEF State, Pending
  <2> QED BY <2>1, <2>2 DEF FloorplanProgress
<1> QED BY <1>1, <1>2, <1>3, <1>6, <1>7, <1>8, <1>9, StepKinds

\* The steps that keep a publication.
LEMMA PublishedFrame ==
  ASSUME NEW s, NEW r, PublishedOf(s), r.floorplan = s.floorplan, work'.xdc = work.xdc,
         \A x \in work'.rtl : \E y \in work.rtl : x.plan = y.plan,
         work'.conn \subseteq work.conn, work'.timing \subseteq work.timing,
         work'.metrics \subseteq work.metrics
  PROVE  PublishedOf(r)'
  BY DEF PublishedOf

\* While a floorplan is published in the state, its files are its own.
LEMMA PublishedKept ==
  ASSUME Shape, OneState, Control, SynthKind, SynthProgress, FloorplanProgress, Published,
         [Next]_vars
  PROVE  Published'
<1> SUFFICES ASSUME NEW r \in work'.tapa, r.synthed
             PROVE  PublishedOf(r)'
  BY DEF Published
<1>0. {"rtl", "xdc", "conn", "timing", "metrics", "tapa"} \subseteq WorkFields
  BY DEF WorkFields
<1>1. ASSUME work' = work PROVE PublishedOf(r)'
  <2>1. PublishedOf(r)
    BY <1>1 DEF Published
  <2> QED BY <1>1, <2>1, PublishedFrame
<1>2. CASE Starts \/ Done \/ Stop \/ UNCHANGED vars
  BY <1>1, <1>2, StartsEffect, EndsEffect DEF vars
<1>3. CASE StoreAnalysis \/ Invalidate
  BY <1>3, StoreAnalysisEffect, InvalidateEffect DEF Stored
<1>4. CASE AieInvalidate \/ AieKeep
  <2>1. /\ work'.tapa = {State'} /\ State.synthed
        /\ State'.floorplan # {} => State'.floorplan = State.floorplan
    BY <1>4, AieInvalidateEffect, AieKeepEffect DEF Stored
  <2>2. Others({"tapa"})
    BY <1>4, AieInvalidateEffect, AieKeepEffect DEF Stored
  <2>3. At("aieinvalidate") \/ At("aiekeep")
    BY <1>4, AieInvalidateEffect, AieKeepEffect DEF Stored, Does
  <2>4. cmd.op = "synth"
    BY <2>3, CommandOf
  <2>5. Stateful
    BY <2>4 DEF Stateful
  <2>6. PICK s \in work.tapa : s = State
    BY <2>5, StateIs
  <2>7. PublishedOf(s)
    BY <2>1, <2>6 DEF Published
  <2>8. /\ work'.rtl = work.rtl /\ work'.xdc = work.xdc /\ work'.conn = work.conn
        /\ work'.timing = work.timing /\ work'.metrics = work.metrics
    BY <1>0, <2>2 DEF Others
  <2>9. CASE r.floorplan = {}
    BY <2>9 DEF PublishedOf
  <2>10. CASE r.floorplan # {}
    <3>1. r.floorplan = s.floorplan
      BY <2>1, <2>6, <2>10
    <3> QED BY <2>7, <2>8, <3>1, PublishedFrame
  <2> QED BY <2>9, <2>10
<1>5. CASE Finish
  <2>1. Stored("finish") /\ At("finish") /\ State'.floorplan = State.floorplan
    BY <1>5, FinishEffect DEF Stored, Does
  <2>2. State.floorplan = {}
    BY <2>1, Unsynthed
  <2>3. r.floorplan = {}
    BY <2>1, <2>2 DEF Stored
  <2> QED BY <2>3 DEF PublishedOf
<1>6. CASE PlanState
  <2>1. Stored("planstate") /\ At("planstate")
    BY <1>6, PlanStateEffect DEF Stored, Does
  <2>2. cmd.op = "floorplan"
    BY <2>1, CommandOf
  <2>3. "xdc" \in Must
    BY <2>2 DEF Must
  <2>4. "rmxdc" \notin Pending /\ "xdc" \in Pending
    BY <2>1, <2>3, Past, RankTable, OpsTable
  <2>5. work.xdc = {}
    BY <2>2, <2>4 DEF FloorplanProgress
  <2>6. work'.xdc = {}
    BY <1>0, <2>1, <2>5 DEF Stored, Others
  <2> QED BY <2>6 DEF PublishedOf
<1>7. CASE FileSteps
  <2>1. PublishedOf(r) /\ r \in work.tapa
    BY <1>7, FileKinds DEF Published
  <2>2. CASE PublicationSteps
    <3>1. PICK op : Does(op) /\ PublicationStep(op)
      BY <2>2, PublicationDetail
    <3>2. cmd.op = "floorplan" /\ At(op)
      BY <1>7, <2>2, <3>1, FileCommand DEF Does
    <3>3. Stateful
      BY <3>2 DEF Stateful
    <3>4. r = State
      BY <2>1, <3>3, StateIs
    <3>5. work'.rtl = work.rtl
      BY <1>0, <2>2, PublicationEffect DEF Others
    <3>6. CASE op \in {"rmxdc", "rmconn", "rmtiming", "rmmetrics", "bits"}
      <4>1. \/ work'.xdc = {}
            \/ /\ work'.xdc = work.xdc /\ work'.conn \subseteq work.conn
               /\ work'.timing \subseteq work.timing /\ work'.metrics \subseteq work.metrics
        BY <1>0, <3>1, <3>6 DEF PublicationStep, Others, WorkFields
      <4>2. CASE work'.xdc = {}
        BY <4>2 DEF PublishedOf
      <4>3. CASE /\ work'.xdc = work.xdc /\ work'.conn \subseteq work.conn
                 /\ work'.timing \subseteq work.timing /\ work'.metrics \subseteq work.metrics
        BY <2>1, <3>5, <4>3, PublishedFrame
      <4> QED BY <4>1, <4>2, <4>3
    <3>7. CASE op \in {"timing", "metrics", "conn"}
      <4>1. "xdc" \in Must
        BY <3>2 DEF Must
      <4>2. "rmxdc" \notin Pending /\ "xdc" \in Pending
        BY <3>2, <3>7, <4>1, Past, RankTable, OpsTable
      <4>3. work.xdc = {}
        BY <3>2, <4>2 DEF FloorplanProgress
      <4>4. work'.xdc = {}
        BY <1>0, <3>1, <3>7, <4>3 DEF PublicationStep, Others
      <4> QED BY <4>4 DEF PublishedOf
    <3>8. CASE op = "xdc"
      <4>1. /\ "rmconn" \notin Pending /\ "rmtiming" \notin Pending /\ "rmmetrics" \notin Pending
            /\ "rmrtl" \notin Pending /\ "planstate" \notin Pending
        BY <3>2, <3>8, Past, RankTable, OpsTable
      <4>2. /\ work.conn \subseteq {cmd.plan} /\ (\A x \in work.timing : x.plan = cmd.plan)
            /\ (\A x \in work.metrics : x.plan = cmd.plan)
            /\ (\A x \in work.rtl : x.plan = {cmd.plan}) /\ State.floorplan = {cmd.plan}
        BY <3>2, <4>1 DEF FloorplanProgress
      <4>3. /\ work'.xdc = {cmd.plan} /\ work'.conn = work.conn /\ work'.timing = work.timing
            /\ work'.metrics = work.metrics
        BY <1>0, <3>1, <3>8 DEF PublicationStep, Others
      <4> QED BY <3>4, <3>5, <4>2, <4>3 DEF PublishedOf
    <3> QED BY <3>1, <3>6, <3>7, <3>8 DEF PublicationStep
  <2>3. CASE OutputSteps \/ PlanHls \/ HlsJoin
    BY <1>1, <2>3, OutputEffect, PoolEffect
  <2>4. CASE RtlSteps
    <3>1. /\ work'.xdc = work.xdc /\ work'.conn = work.conn /\ work'.timing = work.timing
          /\ work'.metrics = work.metrics
      BY <1>0, <2>4, RtlEffect DEF Others
    <3>2. CASE RemoveRtl
      <4>1. work'.rtl = {}
        BY <2>4, <3>2, RtlEffect
      <4> QED BY <2>1, <3>1, <4>1, PublishedFrame
    <3>3. CASE RenameRtl
      <4>1. At("rtl")
        BY <3>3 DEF RenameRtl
      <4>2. ~State.synthed /\ work.tapa = {State}
        BY <4>1, Unsynthed
      <4> QED BY <2>1, <4>2
    <3>4. CASE PlanRtl
      <4>1. At("planrtl")
        BY <2>4, <3>4, RtlEffect DEF Does
      <4>2. cmd.op = "floorplan"
        BY <4>1, CommandOf
      <4>3. "xdc" \in Must
        BY <4>2 DEF Must
      <4>4. "rmxdc" \notin Pending /\ "xdc" \in Pending
        BY <4>1, <4>3, Past, RankTable, OpsTable
      <4>5. work.xdc = {}
        BY <4>2, <4>4 DEF FloorplanProgress
      <4> QED BY <3>1, <4>5 DEF PublishedOf
    <3>5. CASE ApplyCustomRtl
      <4>1. work'.rtl = {[x EXCEPT !.custom = TRUE] : x \in work.rtl}
        BY <2>4, <3>5, RtlEffect
      <4>2. \A x \in work'.rtl : \E y \in work.rtl : x.plan = y.plan
        BY <4>1, Zenon DEF Shape, IsRec
      <4> QED BY <2>1, <3>1, <4>2, PublishedFrame
    <3> QED BY <2>4, <3>2, <3>3, <3>4, <3>5 DEF RtlSteps
  <2>5. CASE ReportSteps \/ AieSteps \/ RunTapacc \/ PruneInactive \/ PostSynthUtil \/ Simulate
    <3>1. /\ work'.rtl = work.rtl /\ work'.xdc = work.xdc /\ work'.conn = work.conn
          /\ work'.timing = work.timing /\ work'.metrics = work.metrics
      BY <1>0, <2>5, ReportEffect, AieEffect, TapaccEffect, PruneEffect, UtilEffect, Zenon
         DEF Others
    <3> QED BY <2>1, <3>1, PublishedFrame
  <2> QED BY <1>7, <2>2, <2>3, <2>4, <2>5 DEF FileSteps
<1>8. CASE HlsSteps
  <2>1. /\ work'.rtl = work.rtl /\ work'.xdc = work.xdc /\ work'.conn = work.conn
        /\ work'.timing = work.timing /\ work'.metrics = work.metrics /\ work'.tapa = work.tapa
    BY <1>0, <1>8, HlsEffect, Zenon DEF HlsSteps, Others, OtherJobsKept
  <2>2. PublishedOf(r)
    BY <2>1 DEF Published
  <2> QED BY <2>1, <2>2, PublishedFrame
<1> QED BY <1>2, <1>3, <1>4, <1>5, <1>6, <1>7, <1>8, StepKinds DEF StoreSteps
-----------------------------------------------------------------------------
(* Packages and images *)

\* What pack has to write is still ahead before it is written.
LEMMA PackAhead ==
  ASSUME Control, OneState, NEW op, At(op), cmd.op = "pack"
  PROVE  /\ Rank[op] < 3 => IF State.graph.target = "vitis" THEN "bundle" \in Pending
                            ELSE "zip" \in Pending
         /\ Rank[op] < 5 /\ State.graph.target = "vitis" => "cfg" \in Pending
         /\ Rank[op] < 4 /\ State.graph.target = "vitis" => "libadf" \in Pending
<1>1. Must = IF State.graph.target = "vitis" THEN {"bundle", "libadf", "cfg"} ELSE {"zip"}
  BY DEF Must
<1> QED BY <1>1, Past, RankTable

\* The package of a pack in progress.
LEMMA PackKept ==
  ASSUME Shape, OneState, Control, PackProgress, [Next]_vars
  PROVE  PackProgress'
<1>1. CASE Starts
  <2>1. CASE cmd'.op = "pack"
    <3>1. Pack /\ work' = work
      BY <1>1, <2>1, StartsEffect
    <3>2. PICK state \in Loaded :
            /\ mem' = {state} /\ state.synthed /\ (state.floorplan # {} => work.xdc # {})
            /\ state.graph.target = "vitis" => {"bundle", "libadf", "cfg"} \subseteq Pending'
            /\ state.graph.target # "vitis" => "zip" \in Pending'
      BY <3>1, PackStarts
    <3>3. State' = state
      BY <3>2, SomeOne, Zenon DEF State
    <3> QED BY <3>1, <3>2, <3>3 DEF PackProgress
  <2>2. CASE cmd'.op # "pack"
    BY <2>2 DEF PackProgress
  <2> QED BY <2>1, <2>2
<1>2. CASE (StoreSteps \/ FileSteps) /\ cmd.op # "pack"
  <2>1. cmd' = cmd
    BY <1>2, OperationDone
  <2> QED BY <1>2, <2>1 DEF PackProgress
<1>3. CASE StoreSteps /\ cmd.op = "pack"
  <2>1. PICK op \in {"state", "invalidate", "aieinvalidate", "aiekeep", "finish", "planstate"} :
          Stored(op)
    BY <1>3, StoreKinds
  <2> QED BY <1>3, <2>1, CommandOf DEF Stored, Does
<1>4. CASE RtlSteps /\ cmd.op = "pack"
  <2>1. UNCHANGED <<mem, cmd, out>> /\ work'.xdc = work.xdc /\ work'.aie = work.aie
    BY <1>4, RtlEffect DEF Others, WorkFields
  <2>2. Does("overlay") /\ At("overlay")
    <3>1. Does("rmrtl") \/ Does("rtl") \/ Does("planrtl") \/ Does("overlay")
      BY <1>4, RtlEffect DEF RtlSteps
    <3>2. ~At("rmrtl") /\ ~At("rtl") /\ ~At("planrtl")
      BY <1>4, CommandOf
    <3> QED BY <3>1, <3>2 DEF Does
  <2>3. Pending' = Pending \ {"overlay"}
    BY <2>1, <2>2, DoesControl
  <2>4. State' = State
    BY <2>1 DEF State
  <2>5. IF State.graph.target = "vitis" THEN "bundle" \in Pending ELSE "zip" \in Pending
    BY <1>4, <2>2, PackAhead, RankTable
  <2>6. Partition(State)' = Partition(State)
    BY <2>4 DEF Partition
  <2> QED BY <1>4, <2>1, <2>3, <2>4, <2>5, <2>6 DEF PackProgress
<1>5. CASE OutputSteps /\ cmd.op = "pack"
  <2>1. work' = work /\ UNCHANGED <<mem, cmd>>
    BY <1>5, OutputEffect
  <2>2. State' = State /\ Partition(State)' = Partition(State)
    BY <2>1 DEF State, Partition
  <2>3. IsRec(out, {"pkg", "libadf", "cfg", "control", "image"})
    BY DEF Shape
  <2>4. \A op : Does(op) => Pending' = Pending \ {op}
    BY <2>1, DoesControl
  <2>5. /\ State.synthed /\ (State.floorplan # {} => work.xdc # {})
        /\ "bundle" \notin Pending /\ "zip" \notin Pending =>
             \A p \in out.pkg : p.state = mem /\ p.rtl = work.rtl
        /\ State.graph.target = "vitis" /\ "libadf" \notin Pending =>
             /\ out.libadf = (IF Partition(State) THEN work.aie ELSE {})
             /\ out.libadf = {} => out.cfg = {}
        /\ State.graph.target = "vitis" /\ "cfg" \notin Pending =>
             out.cfg = IF out.libadf # {} THEN {State.graph.id} ELSE {}
    BY <1>5 DEF PackProgress
  <2>6. SUFFICES
        /\ "bundle" \notin Pending' /\ "zip" \notin Pending' =>
             \A p \in out'.pkg : p.state = mem /\ p.rtl = work.rtl
        /\ State.graph.target = "vitis" /\ "libadf" \notin Pending' =>
             /\ out'.libadf = (IF Partition(State) THEN work.aie ELSE {})
             /\ out'.libadf = {} => out'.cfg = {}
        /\ State.graph.target = "vitis" /\ "cfg" \notin Pending' =>
             out'.cfg = IF out'.libadf # {} THEN {State.graph.id} ELSE {}
    BY <2>1, <2>2, <2>5 DEF PackProgress
  <2>7. CASE RawXo \/ OpenZip
    <3>1. PICK op \in {"rawxo", "zipopen"} : Does(op) /\ At(op)
      BY <2>7 DEF RawXo, OpenZip, Emits, Does
    <3>2. out'.libadf = out.libadf /\ out'.cfg = out.cfg
      BY <2>3, <2>7 DEF RawXo, OpenZip, Emits, IsRec
    <3>3. Pending' = Pending \ {op}
      BY <2>4, <3>1
    <3>4. IF State.graph.target = "vitis" THEN "bundle" \in Pending ELSE "zip" \in Pending
      BY <1>5, <3>1, PackAhead, RankTable
    <3> QED BY <2>5, <3>1, <3>2, <3>3, <3>4
  <2>8. CASE BundleXo \/ CloseZip
    <3>1. PICK op \in {"bundle", "zip"} : Does(op)
      BY <2>8 DEF BundleXo, CloseZip, Emits
    <3>2. out'.libadf = out.libadf /\ out'.cfg = out.cfg /\ out'.pkg = {Package(mem)}
      BY <2>3, <2>8 DEF BundleXo, CloseZip, Emits, IsRec
    <3>3. Pending' = Pending \ {op}
      BY <2>4, <3>1
    <3>4. Package(mem).state = mem /\ Package(mem).rtl = work.rtl
      BY DEF Package
    <3> QED BY <2>5, <3>1, <3>2, <3>3, <3>4
  <2>9. CASE PackLibadf
    <3>1. Does("libadf") /\ At("libadf")
      BY <2>9 DEF PackLibadf, Emits, Does
    <3>2. Pending' = Pending \ {"libadf"}
      BY <2>4, <3>1
    <3>3. State.graph.target = "vitis" => "cfg" \in Pending
      BY <1>5, <3>1, PackAhead, RankTable
    <3>4. CASE Built
      <4>1. out'.libadf = work.aie /\ out'.pkg = out.pkg
        BY <2>3, <2>9, <3>4 DEF PackLibadf, Emits, IsRec
      <4> QED BY <2>5, <3>2, <3>3, <3>4, <4>1 DEF Built
    <3>5. CASE ~Built
      <4>1. out'.libadf = {} /\ out'.cfg = {} /\ out'.pkg = out.pkg
        BY <2>3, <2>9, <3>5 DEF PackLibadf, Emits, IsRec
      <4> QED BY <2>5, <3>2, <3>3, <3>5, <4>1 DEF Built
    <3> QED BY <3>4, <3>5
  <2>10. CASE PackConfig
    <3>1. Does("cfg") /\ At("cfg")
      BY <2>10 DEF PackConfig, Emits, Does
    <3>2. Pending' = Pending \ {"cfg"} /\ "libadf" \notin Pending
      BY <2>4, <3>1, Past, RankTable, OpsTable
    <3>3. CASE Built
      <4>1. out'.cfg = {State.graph.id} /\ out'.libadf = out.libadf /\ out'.pkg = out.pkg
        BY <2>3, <2>10, <3>3 DEF PackConfig, Emits, IsRec
      <4> QED BY <2>5, <3>2, <3>3, <4>1 DEF Built
    <3>4. CASE ~Built
      <4>1. out' = out
        BY <2>10, <3>4 DEF PackConfig, Emits
      <4> QED BY <2>5, <3>2, <3>4, <4>1 DEF Built
    <3> QED BY <3>3, <3>4
  <2>11. CASE PackControl
    <3>1. Does("control")
      BY <2>11 DEF PackControl, Emits
    <3>2. Pending' = Pending \ {"control"}
      BY <2>4, <3>1
    <3>3. out'.cfg = out.cfg /\ out'.libadf = out.libadf /\ out'.pkg = out.pkg
      BY <2>3, <2>11 DEF PackControl, Emits, IsRec
    <3> QED BY <2>5, <3>2, <3>3
  <2>12. CASE RemoveImage \/ LinkXsa \/ LinkImage \/ Linked
    <3>1. At("rmimage") \/ At("xsa") \/ At("link") \/ At("linked")
      BY <2>12 DEF RemoveImage, LinkXsa, LinkImage, Linked, Emits, Does
    <3> QED BY <1>5, <3>1, CommandOf
  <2> QED BY <1>5, <2>7, <2>8, <2>9, <2>10, <2>11, <2>12 DEF OutputSteps
<1>6. CASE FileSteps /\ cmd.op = "pack"
  BY <1>4, <1>5, <1>6, FileCommand DEF FileSteps
<1>7. CASE HlsSteps
  <2>1. At("hls") /\ cmd' = cmd
    BY <1>7, HlsEffect, Zenon DEF HlsSteps, OtherJobsKept
  <2>2. cmd.op = "synth"
    BY <2>1, CommandOf
  <2> QED BY <2>1, <2>2 DEF PackProgress
<1>8. CASE Done \/ Stop
  BY <1>8, EndsEffect DEF PackProgress
<1>9. CASE UNCHANGED vars
  <2>1. UNCHANGED <<work, mem, cmd, todo, out>>
    BY <1>9 DEF vars
  <2>2. State' = State /\ Pending' = Pending
    BY <2>1 DEF State, Pending
  <2>3. Partition(State)' = Partition(State)
    BY <2>2 DEF Partition
  <2> QED BY <2>1, <2>2, <2>3 DEF PackProgress
<1> QED BY <1>1, <1>2, <1>3, <1>6, <1>7, <1>8, <1>9, StepKinds

\* The image of a link in progress.
LEMMA LinkKept ==
  ASSUME Shape, OneState, Control, LinkProgress, [Next]_vars
  PROVE  LinkProgress'
<1>1. CASE Starts
  <2>1. CASE cmd'.op = "link"
    <3>1. Link
      BY <1>1, <2>1, StartsEffect
    <3>2. out' = out /\ ("rmimage" \in Pending' \/ out.image = {})
      BY <3>1, LinkStarts
    <3> QED BY <3>2 DEF LinkProgress
  <2>2. CASE cmd'.op # "link"
    BY <2>2 DEF LinkProgress
  <2> QED BY <2>1, <2>2
<1>2. CASE (StoreSteps \/ FileSteps) /\ cmd.op # "link"
  <2>1. cmd' = cmd
    BY <1>2, OperationDone
  <2> QED BY <1>2, <2>1 DEF LinkProgress
<1>3. CASE StoreSteps /\ cmd.op = "link"
  <2>1. PICK op \in {"state", "invalidate", "aieinvalidate", "aiekeep", "finish", "planstate"} :
          Stored(op)
    BY <1>3, StoreKinds
  <2> QED BY <1>3, <2>1, CommandOf DEF Stored, Does
<1>4. CASE OutputSteps /\ cmd.op = "link"
  <2>1. IsRec(out, {"pkg", "libadf", "cfg", "control", "image"})
    BY DEF Shape
  <2>2. \A op : Does(op) => Pending' = Pending \ {op}
    BY <1>4, DoesControl, OutputEffect
  <2>3. CASE RemoveImage
    <3>1. out'.image = {}
      BY <2>1, <2>3 DEF RemoveImage, Emits, IsRec
    <3> QED BY <3>1 DEF LinkProgress
  <2>4. CASE LinkXsa \/ Linked
    <3>1. out' = out /\ (Does("xsa") \/ Does("linked"))
      BY <2>4 DEF LinkXsa, Linked, Emits
    <3>2. "rmimage" \notin Pending' => "rmimage" \notin Pending
      BY <2>2, <3>1
    <3> QED BY <1>4, <3>1, <3>2 DEF LinkProgress
  <2>5. CASE LinkImage
    <3>1. Does("link") /\ At("link")
      BY <2>5 DEF LinkImage, Emits
    <3>2. "rmimage" \notin Pending
      BY <3>1, Past, RankTable, OpsTable
    <3>3. PICK image \in {out.image, {[pkg |-> out.pkg, libadf |-> out.libadf,
                                       mhz |-> cmd.plan.mhz]}} :
            out' = [out EXCEPT !.image = image]
      BY <2>5 DEF LinkImage, Emits
    <3>4. out'.image = image /\ out'.pkg = out.pkg /\ out'.libadf = out.libadf
      BY <2>1, <3>3 DEF IsRec
    <3>5. \A i \in image : i.pkg = out.pkg /\ i.libadf = out.libadf
      BY <1>4, <3>2, <3>3 DEF LinkProgress
    <3> QED BY <3>4, <3>5 DEF LinkProgress
  <2>6. CASE RawXo \/ BundleXo \/ OpenZip \/ CloseZip \/ PackLibadf \/ PackConfig \/ PackControl
    <3>1. PICK op \in {"rawxo", "bundle", "zipopen", "zip", "libadf", "cfg", "control"} : At(op)
      BY <2>6 DEF RawXo, BundleXo, OpenZip, CloseZip, PackLibadf, PackConfig, PackControl, Emits,
                  Does
    <3> QED BY <1>4, <3>1, CommandOf
  <2> QED BY <1>4, <2>3, <2>4, <2>5, <2>6 DEF OutputSteps
<1>5. CASE FileSteps /\ cmd.op = "link"
  BY <1>4, <1>5, FileCommand DEF FileSteps
<1>6. CASE HlsSteps
  <2>1. At("hls") /\ cmd' = cmd
    BY <1>6, HlsEffect, Zenon DEF HlsSteps, OtherJobsKept
  <2>2. cmd.op = "synth"
    BY <2>1, CommandOf
  <2> QED BY <2>1, <2>2 DEF LinkProgress
<1>7. CASE Done \/ Stop
  BY <1>7, EndsEffect DEF LinkProgress
<1>8. CASE UNCHANGED vars
  <2>1. UNCHANGED <<cmd, todo, out>>
    BY <1>8 DEF vars
  <2>2. Pending' = Pending
    BY <2>1 DEF Pending
  <2> QED BY <2>1, <2>2 DEF LinkProgress
<1> QED BY <1>1, <1>2, <1>3, <1>5, <1>6, <1>7, <1>8, StepKinds
-----------------------------------------------------------------------------
(* The inductive invariant and what follows from it *)

IInv ==
  /\ Shape /\ OneState /\ Control /\ SynthKind
  /\ Cache /\ Jobs
  /\ SynthProgress /\ Whole
  /\ FloorplanProgress /\ Published
  /\ PackProgress /\ LinkProgress

\* An empty work directory and no command satisfy it.
LEMMA InitHolds == Init => IInv
<1> SUFFICES ASSUME Init PROVE IInv
  OBVIOUS
<1>1. /\ cmd.op = "none" /\ work.tapa = {} /\ todo = <<>> /\ project \in Projects
      /\ work.rtl = {} /\ work.json = {} /\ work.yaml = {}
      /\ work.hls = [t \in Tasks |-> NoHls] /\ job = [t \in Tasks |-> NoJob]
  BY DEF Init, NoCommand
<1>2. IsRec(work, WorkFields)
  BY Zenon DEF Init, IsRec, WorkFields
<1>3. IsRec(out, {"pkg", "libadf", "cfg", "control", "image"})
  BY DEF Init, IsRec
<1>4. IsRec(work.hls, Tasks) /\ IsRec(job, Tasks)
  BY <1>1 DEF IsRec
<1>5. \A t \in Tasks : IsRec(work.hls[t], {"key", "rpt", "hdl", "fresh"}) /\ work.hls[t].key = {}
  BY <1>1 DEF NoHls, IsRec
<1>6. Shape
  BY <1>1, <1>2, <1>3, <1>4, <1>5 DEF Shape
<1>7. Pending = {} /\ Control
  BY <1>1 DEF Pending, Elems, Control
<1>8. Cache
  BY <1>1, <1>5 DEF Cache, Certified
<1>9. OneState /\ Whole /\ Published
  BY <1>1 DEF OneState, Stateful, Whole, Published
<1>10. SynthKind /\ Jobs /\ SynthProgress /\ FloorplanProgress /\ PackProgress /\ LinkProgress
  BY <1>1 DEF SynthKind, Jobs, SynthProgress, FloorplanProgress, PackProgress, LinkProgress
<1> QED BY <1>6, <1>7, <1>8, <1>9, <1>10 DEF IInv

\* Every step keeps it.
LEMMA StepHolds == IInv /\ [Next]_vars => IInv'
<1> SUFFICES ASSUME IInv, [Next]_vars PROVE IInv'
  OBVIOUS
<1>1. /\ Shape /\ OneState /\ Control /\ SynthKind /\ Cache /\ Jobs /\ SynthProgress /\ Whole
      /\ FloorplanProgress /\ Published /\ PackProgress /\ LinkProgress
  BY DEF IInv
<1>2. Shape' /\ OneState' /\ Control'
  BY <1>1, ShapeKept, OneStateKept, ControlKept
<1>3. SynthKind' /\ SynthProgress'
  BY <1>1, SynthKindKept, SynthKept
<1>4. Cache' /\ Jobs'
  BY <1>1, CacheKept, JobsKept
<1>5. Whole' /\ FloorplanProgress' /\ Published'
  BY <1>1, WholeKept, FloorplanKept, PublishedKept
<1>6. PackProgress' /\ LinkProgress'
  BY <1>1, PackKept, LinkKept
<1> QED BY <1>2, <1>3, <1>4, <1>5, <1>6 DEF IInv

\* The invariant holds in every state of every behaviour.
LEMMA Invariance == Spec => []IInv
  BY InitHolds, StepHolds, PTL DEF Spec

\* The HLS cache never hands a synthesis an output of other sources or of another
\* device, or half a copy, whatever runs were interrupted before (hls_run.rs).
THEOREM CacheCorrect == Spec => []CacheIsSound
<1>1. ASSUME IInv PROVE CacheIsSound
  <2> SUFFICES ASSUME At("prune"), ~cmd.args.fixtures, NEW t \in HlsTasks(Pl)
               PROVE  work.hls[t].hdl = {Made(t)} /\ work.hls[t].rpt = {Made(t)}
    BY DEF CacheIsSound
  <2>1. Control /\ Jobs
    BY <1>1 DEF IInv
  <2>2. cmd.op = "synth" /\ "prune" \in Pending /\ "hls" \notin Pending
    BY <2>1, CommandOf, Past, RankTable, OpsTable
  <2> QED BY <2>1, <2>2 DEF Jobs
<1> QED BY <1>1, Invariance, PTL

\* A state that says "synthesized" is beside the RTL, the reports and the HLS
\* estimates of one synthesis, for the graph and the device it names (steps/synth).
THEOREM SynthesisCorrect == Spec => []SynthesisIsWhole
<1>1. ASSUME IInv PROVE SynthesisIsWhole
  <2> SUFFICES ASSUME NEW s \in work.tapa, s.synthed
               PROVE  /\ work.rtl # {} => \A r \in work.rtl : s.area # {} /\ r.build = Some(s.area).build
                      /\ \A r \in work.json \cup work.yaml : r.build = s.area
                      /\ work.json # {} /\ work.yaml # {}
                      /\ \A a \in s.area : a.build.graph = s.graph.id /\ a.build.dev = s.dev
    BY DEF SynthesisIsWhole, Active, Loaded
  <2>1. WholeOf(s)
    BY <1>1 DEF IInv, Whole
  <2>2. PICK a \in s.area : s.area = {a} /\ a.build = BuildOf(s)
    BY <2>1 DEF WholeOf
  <2>3. Some(s.area) = a
    BY <2>2, SomeOne
  <2>4. BuildOf(s).graph = s.graph.id /\ BuildOf(s).dev = s.dev
    BY DEF BuildOf
  <2> QED BY <2>1, <2>2, <2>3, <2>4 DEF WholeOf
<1> QED BY <1>1, Invariance, PTL

\* A constraint file beside a state with a floorplan is that floorplan's, and so are
\* the RTL and every report published with it (publish_floorplan_after_update).
THEOREM PublicationCorrect == Spec => []PublicationIsWhole
<1>1. ASSUME IInv PROVE PublicationIsWhole
  BY <1>1 DEF IInv, Published, PublishedOf, PublicationIsWhole, Active, Loaded
<1> QED BY <1>1, Invariance, PTL

\* A finished pack holds one synthesis and its floorplan with exactly the AI Engine
\* graph that belongs to it, and a finished link an image of what it was given
\* (steps/pack, steps/link.rs).
THEOREM OutputsCorrect == Spec => []OutputsAreWhole
<1>1. ASSUME IInv PROVE PackageIsWhole
  <2> SUFFICES ASSUME At("done"), cmd.op = "pack", NEW p \in out.pkg
               PROVE  /\ p.state = mem
                      /\ \A r \in p.rtl : /\ r.build = Some(State.area).build
                                          /\ State.floorplan # {} => r.plan = State.floorplan
                      /\ State.graph.target = "vitis" =>
                           /\ out.libadf = IF Partition(State) THEN work.aie ELSE {}
                           /\ \A a \in out.libadf : a.graph = State.graph.id /\ a.dev \in State.dev
                           /\ out.cfg = (IF out.libadf # {} THEN {State.graph.id} ELSE {})
    BY Zenon DEF PackageIsWhole
  <2>1. Control /\ OneState /\ Whole /\ Published /\ PackProgress
    BY <1>1 DEF IInv
  <2>2. "bundle" \notin Pending /\ "zip" \notin Pending /\ "libadf" \notin Pending /\ "cfg" \notin Pending
    BY <2>1, Past, RankTable, OpsTable
  <2>3. State \in work.tapa /\ State.synthed
    BY <2>1, StateIs DEF Stateful, PackProgress
  <2>4. WholeOf(State) /\ PublishedOf(State)
    BY <2>1, <2>3 DEF Whole, Published
  <2>5. p.state = mem /\ p.rtl = work.rtl /\ (State.floorplan # {} => work.xdc # {})
    BY <2>1, <2>2 DEF PackProgress
  <2>6. PICK a \in State.area : State.area = {a} /\ a.build = BuildOf(State)
    BY <2>4 DEF WholeOf
  <2>7. Some(State.area) = a
    BY <2>6, SomeOne
  <2>8. \A r \in p.rtl : r.build = Some(State.area).build
    BY <2>4, <2>5, <2>6, <2>7 DEF WholeOf
  <2>9. \A r \in p.rtl : State.floorplan # {} => r.plan = State.floorplan
    BY <2>4, <2>5 DEF PublishedOf
  <2>10. State.graph.target = "vitis" =>
           /\ out.libadf = IF Partition(State) THEN work.aie ELSE {}
           /\ out.cfg = (IF out.libadf # {} THEN {State.graph.id} ELSE {})
    BY <2>1, <2>2 DEF PackProgress
  <2>11. \A b \in work.aie : b.graph = State.graph.id /\ b.dev \in State.dev
    BY <2>4 DEF WholeOf, AieIsOf
  <2> QED BY <2>5, <2>8, <2>9, <2>10, <2>11
<1>2. ASSUME IInv PROVE ImageIsFresh
  <2> SUFFICES ASSUME At("done"), cmd.op = "link"
               PROVE  \A i \in out.image : i.pkg = out.pkg /\ i.libadf = out.libadf
    BY DEF ImageIsFresh
  <2>1. Control /\ LinkProgress
    BY <1>2 DEF IInv
  <2>2. "rmimage" \notin Pending
    BY <2>1, Past, RankTable, OpsTable
  <2> QED BY <2>1, <2>2 DEF LinkProgress
<1>3. IInv => OutputsAreWhole
  BY <1>1, <1>2 DEF OutputsAreWhole
<1> QED BY <1>3, Invariance, PTL
=============================================================================
