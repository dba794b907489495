------------------------- MODULE CosimSessionProofs -------------------------
(***************************************************************************)
(* Proof that the shared-memory segments of co-simulations that run side   *)
(* by side, and may die at any point, are accounted for (CosimSession),    *)
(* and that the rewriter of combinational blocks changes no assignment     *)
(* outside them and leaves none behind inside (RtlPatch).                  *)
(*                                                                         *)
(* SegmentsAreAccountedFor speaks of what is recorded and of what is left  *)
(* at the end; it holds because of what an active process keeps true until *)
(* then.  IInv adds that:                                                  *)
(*   - a process that is active will drop every segment it has created     *)
(*     (Accounted), which needs that it names none it has yet to create    *)
(*     (Bound) and that its context names its own segments, one for each   *)
(*     argument, all of them there (Backed);                               *)
(*   - what is recorded is there, and only setup runs that have nothing    *)
(*     left to drop created it (RecordsStand), so no later drop or death   *)
(*     of another process takes it away;                                   *)
(*   - a simulator that lives reads the context of its host.               *)
(*                                                                         *)
(* The rewriter counts begins and ends on its own; Tracks says that its    *)
(* count agrees with the nesting of the text, wherever the scan is.        *)
(***************************************************************************)
EXTENDS CosimSession, TLAPS

\* The registers of an active process.
Fields == {"session", "pc", "ctx", "serial", "next", "scalars", "result", "kept", "alone"}
Bufs(p) == proc[p].ctx.bufs
Strs(p) == proc[p].ctx.strs

\* What an active process has bound: its context is well formed and names
\* nothing that it has not created yet.
Bound(p) ==
  /\ DOMAIN proc[p] = Fields /\ DOMAIN proc[p].ctx = {"bufs", "strs"}
  /\ proc[p].serial \in Nat
  /\ Names(SpecOf(p), "Mmap") \subseteq DOMAIN Bufs(p)
  /\ \A n \in DOMAIN Bufs(p) :
       /\ DOMAIN Bufs(p)[n] = {"path", "base"}
       /\ \A m : \A k \in Nat : k > proc[p].serial => Bufs(p)[n].path # Segment(p, "Mmap", m, k)
  /\ \A n \in DOMAIN Strs(p) :
       /\ DOMAIN Strs(p)[n] = {"path", "queue", "width"}
       /\ Strs(p)[n].queue = Segment(p, "Stream", n, 0)

\* Unless it resumes a finished simulation, all that its context names is its
\* own, is there, and is named for one argument.
Backed(p) ==
  proc[p].session.mode # "resume" =>
    /\ \A n \in DOMAIN Bufs(p) :
         /\ Bufs(p)[n].path \in DOMAIN shm
         /\ \E k \in Nat : Bufs(p)[n].path = Segment(p, "Mmap", n, k)
    /\ \A n \in DOMAIN Strs(p) :
         /\ Strs(p)[n].path \in DOMAIN shm
         /\ Strs(p)[n].path \in {Strs(p)[n].queue, HostQueue(p)}

\* Process p and its segments: none before it opens a device, those it will
\* drop while it is active, none when it has ended well, unless it was a setup
\* run; a build is of a run; and a simulator that lives reads the context of
\* its host.
Accounted(p) ==
  /\ proc[p].pc = "start" => Owned(p) = {}
  /\ Active(p) => Bound(p) /\ Backed(p) /\ Owned(p) \subseteq Dropped(p)
  /\ proc[p].pc = "ended" /\ proc[p].result = "ok" /\ proc[p].session.mode # "setup" => Owned(p) = {}
  /\ proc[p].pc \in {"verilate", "make", "launch"} => proc[p].session.mode = "run"
  /\ Live(p) => /\ proc[p].pc = "finish" /\ proc[p].session.mode = "run"
                /\ sims[p].config = <<proc[p].ctx>>

\* What is recorded is there, and was created by setup runs that are over.
RecordsStand ==
  /\ Recorded \subseteq DOMAIN shm
  /\ \A p \in Procs : \A f \in Recorded : f[1] = p =>
       proc[p].pc \in {"finish", "ended"} /\ proc[p].session.mode = "setup"

\* dpi_config.json, where there is one, is a context.
ConfigFits(config) ==
  \/ config = <<>>
  \/ \E c : config = <<c>> /\ \A n \in DOMAIN c.bufs : DOMAIN c.bufs[n] = {"path", "base"}

\* The variables are records and functions of the right domain.
Shape ==
  /\ DOMAIN proc = Procs /\ DOMAIN dirs = Procs \cup {Fixed} /\ DOMAIN sims = Procs \cup {Manual}
  /\ \A d \in DOMAIN dirs : "config" \in DOMAIN dirs[d] /\ ConfigFits(dirs[d].config)
  /\ \A s \in DOMAIN sims : DOMAIN sims[s] = {"state", "bin", "config"}

\* Together they are inductive.
IInv == Shape /\ RecordsStand /\ \A p \in Procs : Accounted(p)

-----------------------------------------------------------------------------
(* What a step leaves alone *)

\* Nothing that matters here of process q changes.
Same(q) ==
  /\ proc'[q].pc = proc[q].pc /\ proc'[q].session = proc[q].session
  /\ proc'[q].ctx = proc[q].ctx /\ proc'[q].serial = proc[q].serial
  /\ proc'[q].result = proc[q].result /\ DOMAIN proc'[q] = DOMAIN proc[q]

\* No segment of q comes or goes.
Spared(q) == \A f : f[1] = q => (f \in DOMAIN shm' <=> f \in DOMAIN shm)

\* A process is accounted for as long as it, its segments and its simulator
\* are left alone.
LEMMA OthersAccounted ==
  ASSUME NEW q \in Procs, Accounted(q), Same(q), Spared(q), sims'[q] = sims[q]
  PROVE  Accounted(q)'
<1>1. Owned(q)' = Owned(q)
  BY DEF Spared, Owned
<1>2. Active(q)' = Active(q) /\ Live(q)' = Live(q)
  BY DEF Same, Active, Live
<1>3. SpecOf(q)' = SpecOf(q) /\ Bufs(q)' = Bufs(q) /\ Strs(q)' = Strs(q)
  BY DEF Same, SpecOf, Bufs, Strs, Loaded
<1>4. Dropped(q)' = Dropped(q)
  BY <1>1, <1>3 DEF Dropped, Bufs, Strs, HostQueue
<1>5. Bound(q) => Bound(q)'
  BY <1>3 DEF Bound, Same, Segment, Names, Positions
<1>6. Bound(q) /\ Backed(q) => Backed(q)'
  <2> SUFFICES ASSUME Bound(q), Backed(q), proc[q].session.mode # "resume" PROVE Backed(q)'
    BY DEF Backed, Same
  <2>1. ASSUME NEW n \in DOMAIN Bufs(q)
        PROVE  Bufs(q)[n].path \in DOMAIN shm' /\ \E k \in Nat : Bufs(q)[n].path = Segment(q, "Mmap", n, k)
    BY <2>1 DEF Backed, Spared, Segment
  <2>2. ASSUME NEW n \in DOMAIN Strs(q)
        PROVE  Strs(q)[n].path \in DOMAIN shm' /\ Strs(q)[n].path \in {Strs(q)[n].queue, HostQueue(q)}
    BY <2>2 DEF Backed, Bound, Spared, Segment, HostQueue
  <2> QED
    BY <1>3, <2>1, <2>2 DEF Backed, Segment, HostQueue
<1> QED
  BY <1>1, <1>2, <1>4, <1>5, <1>6 DEF Accounted, Same

\* What is recorded stands as long as nothing is recorded and no segment comes
\* or goes but of a process that has recorded none.
LEMMA RecordsKept ==
  ASSUME NEW p \in Procs, RecordsStand, Recorded' \subseteq Recorded,
         \A f : f[1] # p => (f \in DOMAIN shm => f \in DOMAIN shm'),
         \A q \in Procs \ {p} : Same(q),
         proc[p].pc \notin {"finish", "ended"}
  PROVE  RecordsStand'
BY DEF RecordsStand, Same

\* The configurations recorded are those of before.
ConfigsKept ==
  /\ DOMAIN dirs' = DOMAIN dirs
  /\ \A d \in DOMAIN dirs : "config" \in DOMAIN dirs'[d] /\ dirs'[d].config = dirs[d].config

LEMMA SameRecorded ==
  ASSUME ConfigsKept PROVE Recorded' = Recorded
<1>1. {Range(dirs[d].config) : d \in DOMAIN dirs}' = {Range(dirs[d].config) : d \in DOMAIN dirs}
  BY DEF ConfigsKept, Range
<1> QED
  BY <1>1 DEF Recorded, Paths

\* The variables keep their shape when the configurations do.
LEMMA ShapeKept ==
  ASSUME Shape, ConfigsKept, DOMAIN proc' = Procs, DOMAIN sims' = DOMAIN sims,
         \A s \in DOMAIN sims : DOMAIN sims'[s] = {"state", "bin", "config"}
  PROVE  Shape'
<1>1. ASSUME NEW d \in DOMAIN dirs'
      PROVE  "config" \in DOMAIN dirs'[d] /\ ConfigFits(dirs'[d].config)
  <2>1. d \in DOMAIN dirs /\ "config" \in DOMAIN dirs'[d] /\ dirs'[d].config = dirs[d].config
    BY DEF ConfigsKept
  <2> QED
    BY <2>1 DEF Shape
<1>2. DOMAIN dirs' = Procs \cup {Fixed} /\ DOMAIN sims' = Procs \cup {Manual}
  BY DEF Shape, ConfigsKept
<1>3. \A d \in DOMAIN dirs' : ConfigFits(dirs[d].config)' <=> ConfigFits(dirs'[d].config)
  BY DEF ConfigFits
<1> QED
  BY <1>1, <1>2, <1>3 DEF Shape

\* A process is bound after a step when the parts of its context are.
LEMMA BoundParts ==
  ASSUME NEW p,
         DOMAIN proc'[p] = Fields, DOMAIN proc'[p].ctx = {"bufs", "strs"}, proc'[p].serial \in Nat,
         Names(SpecOf(p), "Mmap")' \subseteq DOMAIN Bufs(p)',
         \A n \in DOMAIN Bufs(p)' :
           /\ DOMAIN Bufs(p)'[n] = {"path", "base"}
           /\ \A m : \A k \in Nat : k > proc'[p].serial => Bufs(p)'[n].path # Segment(p, "Mmap", m, k),
         \A n \in DOMAIN Strs(p)' : /\ DOMAIN Strs(p)'[n] = {"path", "queue", "width"}
                                    /\ Strs(p)'[n].queue = Segment(p, "Stream", n, 0)
  PROVE  Bound(p)'
BY DEF Bound, Segment

\* The registers of a process that has opened a device.
LEMMA OpenedParts ==
  ASSUME NEW p, NEW s, NEW ctx
  PROVE  /\ DOMAIN Opened(p, s, ctx) = Fields /\ Opened(p, s, ctx).pc = "bind"
         /\ Opened(p, s, ctx).session = s /\ Opened(p, s, ctx).serial = 0 /\ Opened(p, s, ctx).ctx = ctx
BY DEF Opened, Fields

\* Segments that other processes created are none of p's.
LEMMA ForeignBuffers ==
  ASSUME NEW p, NEW bufs, NEW serial,
         \A n \in DOMAIN bufs : DOMAIN bufs[n] = {"path", "base"} /\ bufs[n].path[1] # p
  PROVE  \A n \in DOMAIN bufs :
           /\ DOMAIN bufs[n] = {"path", "base"}
           /\ \A m : \A k \in Nat : k > serial => bufs[n].path # Segment(p, "Mmap", m, k)
BY DEF Segment

\* The parts of a context.
LEMMA ContextParts ==
  ASSUME NEW b, NEW t, NEW ctx, ctx = [bufs |-> b, strs |-> t]
  PROVE  DOMAIN ctx = {"bufs", "strs"} /\ ctx.bufs = b /\ ctx.strs = t
OBVIOUS

\* The context of a resumed simulation, and its parts.
ResumedCtx(p, s) ==
  [bufs |-> [n \in Names(Loaded[s.package][1], "Mmap") |-> dirs[Dir(p, s)].config[1].bufs[n]], strs |-> <<>>]

\* It has the segments of the setup run and no streams.
LEMMA ResumedContext ==
  ASSUME NEW p, NEW s
  PROVE  /\ DOMAIN ResumedCtx(p, s) = {"bufs", "strs"} /\ DOMAIN ResumedCtx(p, s).strs = {}
         /\ DOMAIN ResumedCtx(p, s).bufs = Names(Loaded[s.package][1], "Mmap")
         /\ \A n \in Names(Loaded[s.package][1], "Mmap") :
              ResumedCtx(p, s).bufs[n] = dirs[Dir(p, s)].config[1].bufs[n]
BY DEF ResumedCtx
-----------------------------------------------------------------------------
(* Steps that only go on *)

\* Process p goes on to step c with what it has bound.
Moves(p, c) ==
  /\ DOMAIN proc' = Procs /\ \A q \in Procs \ {p} : proc'[q] = proc[q]
  /\ DOMAIN proc'[p] = Fields /\ proc'[p].pc = c
  /\ proc'[p].session = proc[p].session /\ proc'[p].ctx = proc[p].ctx
  /\ proc'[p].serial = proc[p].serial

\* What it has bound and what backs it is what was before.
LEMMA MovesBound ==
  ASSUME NEW p, NEW c, Moves(p, c), Bound(p), Backed(p), shm' = shm
  PROVE  /\ SpecOf(p)' = SpecOf(p) /\ Bufs(p)' = Bufs(p) /\ Strs(p)' = Strs(p)
         /\ Bound(p)' /\ Backed(p)'
<1>1. SpecOf(p)' = SpecOf(p) /\ Bufs(p)' = Bufs(p) /\ Strs(p)' = Strs(p)
  BY DEF Moves, SpecOf, Bufs, Strs, Loaded
<1>2. Bound(p)'
  BY <1>1 DEF Bound, Moves, Segment, Names, Positions
<1>3. Backed(p)'
  BY <1>1 DEF Backed, Moves, Segment, HostQueue
<1> QED
  BY <1>1, <1>2, <1>3

\* What Goto does to the processes.
LEMMA GotoMoves ==
  ASSUME NEW p \in Procs, NEW c, IInv, Active(p), Goto(p, c)
  PROVE  Moves(p, c)
<1>1. DOMAIN proc = Procs /\ DOMAIN proc[p] = Fields
  BY DEF IInv, Shape, Accounted, Bound
<1>2. proc' = [proc EXCEPT ![p] = [proc[p] EXCEPT !.pc = c]]
  BY DEF Goto
<1>3. proc'[p] = [proc[p] EXCEPT !.pc = c]
  BY <1>1, <1>2
<1> QED
  BY <1>1, <1>2, <1>3 DEF Moves, Fields

\* An active process that goes on without touching a segment, a simulator or
\* a recorded configuration stays accounted for, and so do the others.
LEMMA QuietStep ==
  ASSUME NEW p \in Procs, NEW c, IInv, Active(p), proc[p].pc # "finish", c \notin {"start", "ended"},
         c \in {"verilate", "make", "launch"} => proc[p].session.mode = "run",
         Moves(p, c), ConfigsKept, shm' = shm, sims' = sims
  PROVE  IInv'
<1>1. \A q \in Procs \ {p} : Same(q)
  BY DEF Moves, Same
<1>2. ASSUME NEW q \in Procs \ {p} PROVE Accounted(q)'
  BY <1>1, OthersAccounted DEF IInv, Spared
<1>3. Accounted(p)'
  <2>1. Owned(p)' = Owned(p) /\ Live(p)' = Live(p)
    BY DEF Owned, Live
  <2>2. ~Live(p)
    BY DEF IInv, Accounted
  <2>3. Bound(p) /\ Backed(p) /\ Owned(p) \subseteq Dropped(p)
    BY DEF IInv, Accounted
  <2>4. Bufs(p)' = Bufs(p) /\ Strs(p)' = Strs(p) /\ Bound(p)' /\ Backed(p)'
    BY <2>3, MovesBound
  <2>5. Dropped(p)' = Dropped(p)
    BY <2>1, <2>4 DEF Dropped, Bufs, Strs, HostQueue
  <2> QED
    BY <2>1, <2>2, <2>3, <2>4, <2>5 DEF Accounted, Moves, Active
<1>4. RecordsStand'
  BY <1>1, SameRecorded, RecordsKept DEF IInv, Active
<1>5. Shape'
  <2>1. Shape /\ DOMAIN proc' = Procs
    BY DEF IInv, Moves
  <2> QED
    BY <2>1, ShapeKept DEF Shape
<1> QED
  BY <1>2, <1>3, <1>4, <1>5 DEF IInv

\* An entry of a work directory other than its configuration is written.
LEMMA OtherEntry ==
  ASSUME Shape, NEW d \in DOMAIN dirs, NEW e, e # "config", NEW v,
         dirs' = [dirs EXCEPT ![d] = [dirs[d] EXCEPT ![e] = v]]
  PROVE  ConfigsKept
<1>1. dirs'[d] = [dirs[d] EXCEPT ![e] = v]
  OBVIOUS
<1> QED
  BY <1>1 DEF ConfigsKept, Shape

\* The directory of a process is one of them.
LEMMA DirThere == ASSUME NEW p \in Procs, Shape PROVE DirOf(p) \in DOMAIN dirs
BY DEF Shape, DirOf, Dir

\* set_scalar_arg: the process has bound one more argument.
LEMMA ScalarStep == ASSUME NEW p \in Procs, IInv, SetScalarArg(p) PROVE IInv'
<1>1. Active(p) /\ proc[p].pc = "bind" /\ shm' = shm /\ sims' = sims /\ dirs' = dirs
  BY DEF SetScalarArg, Binding, Active
<1>2. DOMAIN proc = Procs /\ DOMAIN proc[p] = Fields
  BY <1>1 DEF IInv, Shape, Accounted, Bound
<1>3. PICK v, w : proc' = [proc EXCEPT ![p] = [[proc[p] EXCEPT !.next = v] EXCEPT !.scalars = w]]
  BY <1>2 DEF SetScalarArg
<1>4. proc'[p] = [[proc[p] EXCEPT !.next = v] EXCEPT !.scalars = w]
  BY <1>2, <1>3
<1>5. Moves(p, "bind")
  BY <1>1, <1>2, <1>3, <1>4 DEF Moves, Fields
<1>6. ConfigsKept
  BY <1>1 DEF ConfigsKept, IInv, Shape
<1> QED
  BY <1>1, <1>5, <1>6, QuietStep

\* Process p writes an entry of its work directory.
Entry(p, e, v) == dirs' = [dirs EXCEPT ![DirOf(p)] = [dirs[DirOf(p)] EXCEPT ![e] = v]]

\* One other than the configuration.
Written(p) == \E e, v : e # "config" /\ Entry(p, e, v)

\* A step that goes on and writes at most one entry of the work directory.
LEMMA WriteStep ==
  ASSUME NEW p \in Procs, NEW c, IInv, Active(p), proc[p].pc # "finish", c \notin {"start", "ended"},
         c \in {"verilate", "make", "launch"} => proc[p].session.mode = "run",
         Goto(p, c), shm' = shm, sims' = sims,
         dirs' = dirs \/ Written(p)
  PROVE  IInv'
<1>1. ConfigsKept
  <2>1. CASE dirs' = dirs
    BY <2>1 DEF ConfigsKept, IInv, Shape
  <2>2. CASE dirs' # dirs
    <3>1. PICK e, v : e # "config" /\ Entry(p, e, v)
      BY <2>2 DEF Written
    <3>2. Shape /\ DirOf(p) \in DOMAIN dirs
      BY DirThere DEF IInv
    <3> QED
      BY <3>1, <3>2, OtherEntry DEF Entry
  <2> QED
    BY <2>1, <2>2
<1> QED
  BY <1>1, GotoMoves, QuietStep
-----------------------------------------------------------------------------
(* The end of a process *)

\* Process p ends with a result; no segment of another comes or goes, and
\* nothing is recorded.
LEMMA EndStep ==
  ASSUME NEW p \in Procs, NEW how, IInv, Active(p), End(p, how),
         \A f : f[1] # p => (f \in DOMAIN shm' <=> f \in DOMAIN shm),
         proc[p].session.mode = "setup" => \A f \in Recorded : f[1] = p => f \in DOMAIN shm',
         how = "ok" /\ proc[p].session.mode # "setup" => Owned(p)' = {},
         dirs' = [dirs EXCEPT ![p] = EmptyDir], sims' = [sims EXCEPT ![p] = NoSim]
  PROVE  IInv'
<1>1. /\ DOMAIN proc' = Procs /\ proc'[p].pc = "ended" /\ proc'[p].result = how
      /\ proc'[p].session = proc[p].session
      /\ \A q \in Procs \ {p} : proc'[q] = proc[q]
  BY DEF End, IInv, Shape
<1>2. /\ DOMAIN sims' = Procs \cup {Manual} /\ sims'[p] = NoSim
      /\ \A s \in DOMAIN sims : s # p => sims'[s] = sims[s]
  BY DEF IInv, Shape
<1>3. /\ DOMAIN dirs' = Procs \cup {Fixed} /\ dirs'[p] = EmptyDir
      /\ \A d \in DOMAIN dirs : d # p => dirs'[d] = dirs[d]
  BY DEF IInv, Shape
<1>4. ASSUME NEW q \in Procs \ {p} PROVE Accounted(q)'
  <2>1. Same(q) /\ Spared(q) /\ sims'[q] = sims[q]
    BY <1>1, <1>2 DEF Same, Spared, IInv, Shape
  <2> QED
    BY <2>1, OthersAccounted DEF IInv
<1>5. Accounted(p)'
  <2>1. ~Live(p)' /\ ~Active(p)'
    BY <1>1, <1>2 DEF Live, NoSim, Active
  <2> QED
    BY <1>1, <2>1 DEF Accounted
<1>6. Recorded' \subseteq Recorded
  <2>1. ASSUME NEW d \in DOMAIN dirs' PROVE Range(dirs'[d].config) \subseteq Range(dirs[d].config)
    <3>1. Range(EmptyDir.config) = {}
      BY DEF EmptyDir, Range
    <3> QED
      BY <1>3, <3>1 DEF IInv, Shape
  <2>2. DOMAIN dirs' = DOMAIN dirs
    BY <1>3 DEF IInv, Shape
  <2>3. UNION {Range(dirs'[d].config) : d \in DOMAIN dirs'} \subseteq UNION {Range(dirs[d].config) : d \in DOMAIN dirs}
    BY <2>1, <2>2
  <2>4. Recorded' = UNION {Paths(c) : c \in UNION {Range(dirs'[d].config) : d \in DOMAIN dirs'}}
    BY DEF Recorded, Paths, Range
  <2> QED
    BY <2>3, <2>4 DEF Recorded
<1>7. RecordsStand'
  <2>1. Recorded' \subseteq DOMAIN shm'
    <3> SUFFICES ASSUME NEW f \in Recorded PROVE f \in DOMAIN shm'
      BY <1>6
    <3>1. f \in DOMAIN shm /\ (f[1] = p => proc[p].session.mode = "setup")
      BY DEF IInv, RecordsStand
    <3> QED
      BY <3>1
  <2>2. ASSUME NEW q \in Procs, NEW f \in Recorded', f[1] = q
        PROVE  proc'[q].pc \in {"finish", "ended"} /\ proc'[q].session.mode = "setup"
    <3>1. proc[q].pc \in {"finish", "ended"} /\ proc[q].session.mode = "setup"
      BY <1>6, <2>2 DEF IInv, RecordsStand
    <3> QED
      BY <1>1, <3>1
  <2> QED
    BY <2>1, <2>2 DEF RecordsStand
<1>8. Shape'
  <2>1. ASSUME NEW d \in DOMAIN dirs'
        PROVE  "config" \in DOMAIN dirs'[d] /\ ConfigFits(dirs'[d].config)
    <3>1. "config" \in DOMAIN EmptyDir /\ ConfigFits(EmptyDir.config)
      BY DEF EmptyDir, ConfigFits
    <3> QED
      BY <1>3, <3>1 DEF IInv, Shape
  <2>2. \A d \in DOMAIN dirs' : ConfigFits(dirs[d].config)' <=> ConfigFits(dirs'[d].config)
    BY DEF ConfigFits
  <2>3. ASSUME NEW s \in DOMAIN sims' PROVE DOMAIN sims'[s] = {"state", "bin", "config"}
    <3>1. DOMAIN NoSim = {"state", "bin", "config"}
      BY DEF NoSim
    <3> QED
      BY <1>2, <3>1 DEF IInv, Shape
  <2> QED
    BY <1>1, <1>2, <1>3, <2>1, <2>2, <2>3 DEF Shape
<1> QED
  BY <1>4, <1>5, <1>7, <1>8 DEF IInv

\* A process dies: what it has recorded stays, and the rest is not kept.
LEMMA DieStep == ASSUME NEW p \in Procs, NEW how, how # "ok", IInv, Active(p), Die(p, how) PROVE IInv'
<1>1. DOMAIN shm' = {g \in DOMAIN shm : g[1] # p \/ g \in Recorded}
  BY DEF Die
<1>2. Recorded \subseteq DOMAIN shm
  BY DEF IInv, RecordsStand
<1> QED
  BY <1>1, <1>2, EndStep DEF Die

\* finish: a setup run keeps its segments, any other drops all it has.
LEMMA FinishStep == ASSUME NEW p \in Procs, IInv, Finish(p) PROVE IInv'
<1>1. Active(p)
  BY DEF Finish, Active
<1>2. CASE sims[p].state = "failed"
  BY <1>1, <1>2, DieStep DEF Finish
<1>3. CASE sims[p].state # "failed"
  <2>1. /\ End(p, "ok") /\ dirs' = [dirs EXCEPT ![p] = EmptyDir] /\ sims' = [sims EXCEPT ![p] = NoSim]
        /\ shm' = IF Keeps(p) THEN shm ELSE Without(Dropped(p))
    BY <1>3 DEF Finish
  <2>2. \A f \in Dropped(p) : f[1] = p
    <3>1. \A n \in DOMAIN Strs(p) : Strs(p)[n].queue[1] = p
      BY <1>1 DEF IInv, Accounted, Bound, Segment
    <3>2. HostQueue(p)[1] = p
      BY DEF HostQueue
    <3>3. Dropped(p) \subseteq Owned(p) \cup {Strs(p)[n].queue : n \in DOMAIN Strs(p)} \cup {HostQueue(p)}
      BY DEF Dropped, Strs
    <3> QED
      BY <3>1, <3>2, <3>3 DEF Owned
  <2>3. CASE Keeps(p)
    BY <1>1, <2>1, <2>3, EndStep DEF Keeps, IInv, RecordsStand
  <2>4. CASE ~Keeps(p)
    <3>1. DOMAIN shm' = DOMAIN shm \ Dropped(p)
      BY <2>1, <2>4 DEF Without
    <3>2. Owned(p) \subseteq Dropped(p)
      BY <1>1 DEF IInv, Accounted
    <3>3. Owned(p)' = {}
      BY <3>1, <3>2 DEF Owned
    <3>4. \A f : f[1] # p => (f \in DOMAIN shm' <=> f \in DOMAIN shm)
      BY <2>2, <3>1
    <3>5. proc[p].session.mode # "setup"
      BY <2>4 DEF Keeps
    <3> QED
      BY <1>1, <2>1, <3>3, <3>4, <3>5, EndStep
  <2> QED
    BY <2>3, <2>4
<1> QED
  BY <1>2, <1>3
-----------------------------------------------------------------------------
(* Records and simulators *)

\* A setup run records its context, whose segments are there and its own.
LEMMA RecordStep == ASSUME NEW p \in Procs, IInv, RecordConfig(p) PROVE IInv'
<1> DEFINE e == DirOf(p)
           ctx == proc[p].ctx
<1>1. /\ Active(p) /\ proc[p].pc = "prepared" /\ proc[p].session.mode = "setup"
      /\ shm' = shm /\ sims' = sims /\ Goto(p, "finish")
      /\ dirs' = [dirs EXCEPT ![e] = [dirs[e] EXCEPT !.config = <<ctx>>]]
  BY DEF RecordConfig, Active, Go, Config
<1>2. Moves(p, "finish")
  BY <1>1, GotoMoves
<1>3. /\ Shape /\ e \in DOMAIN dirs /\ DOMAIN dirs' = DOMAIN dirs
      /\ "config" \in DOMAIN dirs'[e] /\ dirs'[e].config = <<ctx>>
      /\ \A d \in DOMAIN dirs : d # e => dirs'[d] = dirs[d]
  <2>1. Shape /\ e \in DOMAIN dirs
    BY DirThere DEF IInv
  <2>2. dirs'[e] = [dirs[e] EXCEPT !.config = <<ctx>>] /\ "config" \in DOMAIN dirs[e]
    BY <1>1, <2>1 DEF Shape
  <2> QED
    BY <1>1, <2>1, <2>2
<1> HIDE DEF e
<1>4. Bound(p) /\ Backed(p)
  BY <1>1 DEF IInv, Accounted
<1>5. Paths(ctx) \subseteq DOMAIN shm /\ \A f \in Paths(ctx) : f[1] = p
  <2>1. ASSUME NEW n \in DOMAIN Bufs(p) PROVE Bufs(p)[n].path \in DOMAIN shm /\ Bufs(p)[n].path[1] = p
    BY <1>1, <1>4 DEF Backed, Segment
  <2>2. ASSUME NEW n \in DOMAIN Strs(p) PROVE Strs(p)[n].path \in DOMAIN shm /\ Strs(p)[n].path[1] = p
    BY <1>1, <1>4 DEF Backed, Bound, Segment, HostQueue
  <2> QED
    BY <2>1, <2>2 DEF Paths, Bufs, Strs
<1>6. \A q \in Procs \ {p} : Same(q)
  BY <1>2 DEF Moves, Same
<1>7. ASSUME NEW q \in Procs \ {p} PROVE Accounted(q)'
  BY <1>1, <1>6, OthersAccounted DEF IInv, Spared
<1>8. Accounted(p)'
  <2>1. Owned(p)' = Owned(p) /\ Live(p)' = Live(p) /\ ~Live(p)
    BY <1>1 DEF Owned, Live, IInv, Accounted
  <2>2. Bufs(p)' = Bufs(p) /\ Strs(p)' = Strs(p) /\ Bound(p)' /\ Backed(p)'
    BY <1>1, <1>2, <1>4, MovesBound
  <2>3. Dropped(p)' = Dropped(p)
    BY <2>1, <2>2 DEF Dropped, Bufs, Strs, HostQueue
  <2>4. Owned(p) \subseteq Dropped(p)
    BY <1>1 DEF IInv, Accounted
  <2> QED
    BY <1>2, <2>1, <2>2, <2>3, <2>4 DEF Accounted, Moves, Active
<1>9. \A f \in Recorded' : f \in Recorded \/ f \in Paths(ctx)
  <2>1. ASSUME NEW d \in DOMAIN dirs' PROVE Range(dirs'[d].config) \subseteq Range(dirs[d].config) \cup {ctx}
    <3>1. Range(<<ctx>>) = {ctx}
      BY DEF Range
    <3> QED
      BY <1>3, <3>1
  <2>2. UNION {Range(dirs'[d].config) : d \in DOMAIN dirs'}
          \subseteq (UNION {Range(dirs[d].config) : d \in DOMAIN dirs}) \cup {ctx}
    BY <1>3, <2>1
  <2>3. Recorded' = UNION {Paths(c) : c \in UNION {Range(dirs'[d].config) : d \in DOMAIN dirs'}}
    BY DEF Recorded, Paths, Range
  <2> QED
    BY <2>2, <2>3 DEF Recorded
<1>10. RecordsStand'
  <2>1. Recorded' \subseteq DOMAIN shm'
    BY <1>1, <1>5, <1>9 DEF IInv, RecordsStand
  <2>2. ASSUME NEW q \in Procs, NEW f \in Recorded', f[1] = q
        PROVE  proc'[q].pc \in {"finish", "ended"} /\ proc'[q].session.mode = "setup"
    <3>1. CASE q = p
      BY <1>1, <1>2, <3>1 DEF Moves
    <3>2. CASE q # p
      <4>1. f \in Recorded
        BY <1>5, <1>9, <2>2, <3>2
      <4> QED
        BY <1>6, <2>2, <3>2, <4>1 DEF IInv, RecordsStand, Same
    <3> QED
      BY <3>1, <3>2
  <2> QED
    BY <2>1, <2>2 DEF RecordsStand
<1>11. Shape'
  <2>1. ConfigFits(<<ctx>>)
    BY <1>4 DEF ConfigFits, Bound, Bufs
  <2>2. ASSUME NEW d \in DOMAIN dirs'
        PROVE  "config" \in DOMAIN dirs'[d] /\ ConfigFits(dirs'[d].config)
    BY <1>3, <2>1 DEF Shape
  <2>3. \A d \in DOMAIN dirs' : ConfigFits(dirs[d].config)' <=> ConfigFits(dirs'[d].config)
    BY DEF ConfigFits
  <2> QED
    BY <1>1, <1>2, <1>3, <2>2, <2>3 DEF Shape, Moves
<1> QED
  BY <1>7, <1>8, <1>10, <1>11 DEF IInv

\* A simulator changes, and nothing else: it starts or goes on only with the
\* context of a host that waits for it.
LEMMA SimulatorStep ==
  ASSUME IInv, NEW s \in DOMAIN sims, proc' = proc, shm' = shm, dirs' = dirs,
         NEW v, DOMAIN v = {"state", "bin", "config"}, sims' = [sims EXCEPT ![s] = v],
         s \in Procs /\ v.state \in {"compiling", "starting", "running"} =>
           Live(s) /\ v.config = sims[s].config
  PROVE  IInv'
<1>1. /\ DOMAIN sims' = DOMAIN sims /\ sims'[s] = v
      /\ \A t \in DOMAIN sims : t # s => sims'[t] = sims[t]
  OBVIOUS
<1>2. ConfigsKept
  BY DEF ConfigsKept, IInv, Shape
<1>3. ASSUME NEW q \in Procs PROVE Accounted(q)'
  <2>1. CASE q # s
    <3>1. sims'[q] = sims[q] /\ Same(q) /\ Spared(q)
      BY <1>1, <2>1 DEF IInv, Shape, Same, Spared
    <3> QED
      BY <3>1, OthersAccounted DEF IInv
  <2>2. CASE q = s
    <3>1. Accounted(q)
      BY DEF IInv
    <3>2. Live(q)' => Live(q) /\ sims'[q].config = sims[q].config
      BY <1>1, <2>2 DEF Live
    <3>3. Owned(q)' = Owned(q) /\ Dropped(q)' = Dropped(q) /\ Bound(q)' = Bound(q) /\ Backed(q)' = Backed(q)
      <4>1. /\ Owned(q)' = Owned(q) /\ SpecOf(q)' = SpecOf(q)
            /\ Bufs(q)' = Bufs(q) /\ Strs(q)' = Strs(q)
        BY DEF Owned, SpecOf, Loaded, Bufs, Strs
      <4>2. Dropped(q)' = Dropped(q)
        BY <4>1 DEF Dropped, Bufs, Strs, HostQueue
      <4>3. Bound(q)' = Bound(q)
        BY <4>1 DEF Bound, Segment, Names, Positions
      <4>4. Backed(q)' = Backed(q)
        BY <4>1 DEF Backed, Segment, HostQueue
      <4> QED
        BY <4>1, <4>2, <4>3, <4>4
    <3> QED
      BY <3>1, <3>2, <3>3 DEF Accounted, Active
  <2> QED
    BY <2>1, <2>2
<1>4. RecordsStand'
  BY <1>2, SameRecorded DEF IInv, RecordsStand
<1>5. Shape'
  <2>1. Shape /\ DOMAIN proc' = Procs
    BY DEF IInv, Shape
  <2>2. \A t \in DOMAIN sims : DOMAIN sims'[t] = {"state", "bin", "config"}
    BY <1>1, <2>1 DEF Shape
  <2> QED
    BY <1>1, <1>2, <2>1, <2>2, ShapeKept
<1> QED
  BY <1>3, <1>4, <1>5 DEF IInv

\* A simulation starts with the context of its host, which goes on to wait.
LEMMA LaunchStep ==
  ASSUME NEW p \in Procs, IInv, proc[p].pc \in {"launch", "prepared"}, proc[p].session.mode = "run",
         NEW state, NEW bin, Start(p, state, bin), Goto(p, "finish"), shm' = shm, dirs' = dirs
  PROVE  IInv'
<1>1. Active(p)
  BY DEF Active
<1>2. Moves(p, "finish")
  BY <1>1, GotoMoves
<1>3. /\ DOMAIN sims' = DOMAIN sims
      /\ sims'[p] = [state |-> state, bin |-> bin, config |-> <<proc[p].ctx>>]
      /\ \A t \in DOMAIN sims : t # p => sims'[t] = sims[t]
  BY DEF Start, Config, IInv, Shape
<1>4. ConfigsKept
  BY DEF ConfigsKept, IInv, Shape
<1>5. \A q \in Procs \ {p} : Same(q) /\ sims'[q] = sims[q]
  BY <1>2, <1>3 DEF Moves, Same, IInv, Shape
<1>6. ASSUME NEW q \in Procs \ {p} PROVE Accounted(q)'
  BY <1>5, OthersAccounted DEF IInv, Spared
<1>7. Accounted(p)'
  <2>1. Owned(p)' = Owned(p)
    BY DEF Owned
  <2>2. Bound(p) /\ Backed(p) /\ Owned(p) \subseteq Dropped(p)
    BY <1>1 DEF IInv, Accounted
  <2>3. Bufs(p)' = Bufs(p) /\ Strs(p)' = Strs(p) /\ Bound(p)' /\ Backed(p)'
    BY <1>2, <2>2, MovesBound
  <2>4. Dropped(p)' = Dropped(p)
    BY <2>1, <2>3 DEF Dropped, Bufs, Strs, HostQueue
  <2>5. proc'[p].pc = "finish" /\ proc'[p].session.mode = "run" /\ sims'[p].config = <<proc'[p].ctx>>
    BY <1>2, <1>3 DEF Moves
  <2> QED
    BY <2>1, <2>2, <2>3, <2>4, <2>5 DEF Accounted
<1>8. RecordsStand'
  BY <1>4, <1>5, SameRecorded, RecordsKept DEF IInv
<1>9. Shape'
  <2>1. Shape /\ DOMAIN proc' = Procs
    BY <1>2 DEF IInv, Moves
  <2>2. \A t \in DOMAIN sims : DOMAIN sims'[t] = {"state", "bin", "config"}
    BY <1>3, <2>1 DEF Shape
  <2> QED
    BY <1>3, <1>4, <2>1, <2>2, ShapeKept
<1> QED
  BY <1>6, <1>7, <1>8, <1>9 DEF IInv

\* The simulators' own steps.
LEMMA SimStepKeeps == ASSUME NEW s \in Procs \cup {Manual}, IInv, SimStep(s) PROVE IInv'
<1>1. s \in DOMAIN sims /\ DOMAIN sims[s] = {"state", "bin", "config"}
  BY DEF IInv, Shape
<1>2. CASE Compile(s)
  <2>1. PICK b : sims' = [sims EXCEPT ![s] = [[sims[s] EXCEPT !.state = "starting"] EXCEPT !.bin = b]]
    BY <1>1, <1>2 DEF Compile
  <2> DEFINE v == [[sims[s] EXCEPT !.state = "starting"] EXCEPT !.bin = b]
  <2>2. DOMAIN v = {"state", "bin", "config"} /\ v.config = sims[s].config
    BY <1>1
  <2>3. Live(s) /\ proc' = proc /\ shm' = shm /\ dirs' = dirs /\ sims' = [sims EXCEPT ![s] = v]
    BY <1>2, <2>1 DEF Compile, Live
  <2> HIDE DEF v
  <2> QED
    BY <1>1, <2>2, <2>3, SimulatorStep
<1>3. CASE Attach(s)
  <2>1. PICK b : sims' = [sims EXCEPT ![s] = [sims[s] EXCEPT !.state = b]]
    BY <1>3 DEF Attach
  <2> DEFINE v == [sims[s] EXCEPT !.state = b]
  <2>2. DOMAIN v = {"state", "bin", "config"} /\ v.config = sims[s].config
    BY <1>1
  <2>3. Live(s) /\ proc' = proc /\ shm' = shm /\ dirs' = dirs /\ sims' = [sims EXCEPT ![s] = v]
    BY <1>3, <2>1 DEF Attach, Live
  <2> HIDE DEF v
  <2> QED
    BY <1>1, <2>2, <2>3, SimulatorStep
<1>4. CASE EndSimulation(s)
  <2>1. PICK how \in {"done", "failed"} : sims' = [sims EXCEPT ![s] = [NoSim EXCEPT !.state = how]]
    BY <1>4 DEF EndSimulation
  <2> DEFINE v == [NoSim EXCEPT !.state = how]
  <2>2. DOMAIN v = {"state", "bin", "config"} /\ v.state = how
    BY DEF NoSim
  <2>3. proc' = proc /\ shm' = shm /\ dirs' = dirs /\ sims' = [sims EXCEPT ![s] = v]
    BY <1>4, <2>1 DEF EndSimulation
  <2> HIDE DEF v
  <2> QED
    BY <1>1, <2>2, <2>3, SimulatorStep
<1> QED
  BY <1>2, <1>3, <1>4 DEF SimStep

\* A simulation by hand is no process's own.
LEMMA ByHandKeeps == ASSUME IInv, SimulateByHand PROVE IInv'
<1> DEFINE v == [state |-> "compiling", bin |-> <<>>, config |-> dirs[Fixed].config]
<1>1. Manual \in DOMAIN sims /\ Manual \notin Procs
  BY SessionAssumption DEF IInv, Shape
<1>2. DOMAIN v = {"state", "bin", "config"}
  OBVIOUS
<1>3. proc' = proc /\ shm' = shm /\ dirs' = dirs /\ sims' = [sims EXCEPT ![Manual] = v]
  BY DEF SimulateByHand
<1> HIDE DEF v
<1> QED
  BY <1>1, <1>2, <1>3, SimulatorStep
-----------------------------------------------------------------------------
(* Opening a device and binding its arguments *)

\* An active process that creates and drops segments of its own, and goes on
\* binding, leaves the others and the records as they are.
LEMMA OwnStep ==
  ASSUME NEW p \in Procs, IInv, proc[p].pc \in {"start", "bind"},
         DOMAIN proc' = Procs, \A q \in Procs \ {p} : Same(q),
         \A f : f[1] # p => (f \in DOMAIN shm' <=> f \in DOMAIN shm),
         dirs' = dirs, sims' = sims, Accounted(p)'
  PROVE  IInv'
<1>1. ASSUME NEW q \in Procs \ {p} PROVE Accounted(q)'
  <2>1. Spared(q)
    BY DEF Spared
  <2> QED
    BY <2>1, OthersAccounted DEF IInv
<1>2. ConfigsKept
  BY DEF ConfigsKept, IInv, Shape
<1>3. RecordsStand'
  BY <1>2, SameRecorded, RecordsKept DEF IInv
<1>4. Shape'
  <2>1. Shape
    BY DEF IInv
  <2> QED
    BY <1>2, <2>1, ShapeKept DEF Shape
<1> QED
  BY <1>1, <1>3, <1>4 DEF IInv

\* set_buffer_arg: the new segment takes the place of the old one.
LEMMA BufferStep == ASSUME NEW p \in Procs, IInv, SetBufferArg(p) PROVE IInv'
<1> DEFINE n0 == Arg(p).name
           file == Segment(p, "Mmap", n0, proc[p].serial + 1)
<1>1. /\ Active(p) /\ proc[p].pc = "bind" /\ sims' = sims /\ dirs' = dirs
      /\ Bound(p) /\ Backed(p) /\ Owned(p) \subseteq Dropped(p) /\ ~Live(p)
      /\ DOMAIN proc = Procs
  BY DEF SetBufferArg, Binding, Active, IInv, Accounted, Shape
<1>2. n0 \in DOMAIN Bufs(p)
  BY <1>1 DEF Bound, SetBufferArg, Binding, Names, Positions, Arg
<1>3. CASE proc[p].session.bytes = <<>>
  <2>1. proc' = [proc EXCEPT ![p] = [proc[p] EXCEPT !.next = proc[p].next + 1]] /\ shm' = shm
    BY <1>3 DEF SetBufferArg
  <2>2. proc'[p] = [proc[p] EXCEPT !.next = proc[p].next + 1]
    BY <1>1, <2>1
  <2>3. Moves(p, "bind")
    BY <1>1, <2>1, <2>2 DEF Moves, Bound, Fields
  <2>4. ConfigsKept
    BY <1>1 DEF ConfigsKept, IInv, Shape
  <2> QED
    BY <1>1, <2>1, <2>3, <2>4, QuietStep
<1>4. CASE proc[p].session.bytes # <<>>
  <2> DEFINE one == [proc[p] EXCEPT !.next = proc[p].next + 1]
             two == [one EXCEPT !.serial = proc[p].serial + 1]
             ctx == [proc[p].ctx EXCEPT !.bufs = [Bufs(p) EXCEPT ![n0] = [Bufs(p)[n0] EXCEPT !.path = file]]]
  <2>1. /\ DOMAIN shm' = (DOMAIN shm \cup {file}) \ Unlinked(p)
        /\ proc' = [proc EXCEPT ![p].next = @ + 1, ![p].serial = @ + 1, ![p].ctx.bufs[n0].path = file]
    BY <1>4 DEF SetBufferArg, WithFiles
  <2>2. proc' = [proc EXCEPT ![p] = [two EXCEPT !.ctx = ctx]]
    BY <1>1, <2>1 DEF Bufs, Bound, Fields
  <2>3. /\ DOMAIN proc' = Procs /\ \A q \in Procs \ {p} : proc'[q] = proc[q]
        /\ DOMAIN proc'[p] = Fields /\ proc'[p].pc = "bind" /\ proc'[p].session = proc[p].session
        /\ proc'[p].serial = proc[p].serial + 1 /\ proc'[p].ctx = ctx
    BY <1>1, <2>2 DEF Bound, Fields
  <2>4. /\ Strs(p)' = Strs(p) /\ DOMAIN proc'[p].ctx = {"bufs", "strs"}
        /\ Bufs(p)' = [Bufs(p) EXCEPT ![n0] = [Bufs(p)[n0] EXCEPT !.path = file]]
    BY <1>1, <2>3 DEF Bound, Bufs, Strs
  <2>5. /\ DOMAIN Bufs(p)' = DOMAIN Bufs(p) /\ \A n \in DOMAIN Bufs(p) : n # n0 => Bufs(p)'[n] = Bufs(p)[n]
        /\ DOMAIN Bufs(p)'[n0] = {"path", "base"} /\ Bufs(p)'[n0].path = file
    BY <1>1, <1>2, <2>4 DEF Bound
  <2>6. Unlinked(p) = {Bufs(p)[n0].path} \cap Owned(p) /\ file \notin Unlinked(p) /\ file[1] = p
    <3>1. Unlinked(p) = {Bufs(p)[n0].path} \cap Owned(p)
      BY DEF Unlinked, Bufs
    <3>2. proc[p].serial + 1 \in Nat /\ proc[p].serial + 1 > proc[p].serial
      BY <1>1 DEF Bound
    <3>3. Bufs(p)[n0].path # file
      BY <1>1, <1>2, <3>2 DEF Bound
    <3>4. file[1] = p
      BY DEF Segment
    <3> QED
      BY <3>1, <3>3, <3>4
  <2>7. \A f : f[1] # p => (f \in DOMAIN shm' <=> f \in DOMAIN shm)
    BY <2>1, <2>6 DEF Owned
  <2> HIDE DEF one, two, ctx
  <2>8. Bound(p)'
    <3>1. SpecOf(p)' = SpecOf(p) /\ proc[p].serial \in Nat
      BY <1>1, <2>3 DEF SpecOf, Loaded, Bound
    <3>2. Names(SpecOf(p), "Mmap")' \subseteq DOMAIN Bufs(p)'
      <4>1. Names(SpecOf(p), "Mmap")' = Names(SpecOf(p), "Mmap")
        BY <3>1 DEF Names, Positions
      <4> QED
        BY <1>1, <2>5, <4>1 DEF Bound
    <3>3. ASSUME NEW n \in DOMAIN Bufs(p)', NEW m, NEW k \in Nat, k > proc[p].serial + 1
          PROVE  Bufs(p)'[n].path # Segment(p, "Mmap", m, k)
      <4>1. CASE n = n0
        <5>1. file # Segment(p, "Mmap", m, k)
          BY <3>1, <3>3 DEF Segment
        <5> QED
          BY <2>5, <4>1, <5>1
      <4>2. CASE n # n0
        <5>1. n \in DOMAIN Bufs(p) /\ Bufs(p)'[n] = Bufs(p)[n]
          BY <2>5, <4>2
        <5>2. k > proc[p].serial
          BY <3>1, <3>3
        <5> QED
          BY <1>1, <5>1, <5>2 DEF Bound
      <4> QED
        BY <4>1, <4>2
    <3>4. ASSUME NEW n \in DOMAIN Bufs(p)' PROVE DOMAIN Bufs(p)'[n] = {"path", "base"}
      BY <1>1, <2>5 DEF Bound
    <3> HIDE DEF n0, file
    <3> QED
      BY <1>1, <2>3, <2>4, <3>1, <3>2, <3>3, <3>4 DEF Bound, Segment
  <2>9. Backed(p)'
    <3> SUFFICES ASSUME proc[p].session.mode # "resume" PROVE Backed(p)'
      BY <2>3 DEF Backed
    <3>1. ASSUME NEW n \in DOMAIN Bufs(p)'
          PROVE  Bufs(p)'[n].path \in DOMAIN shm' /\ \E k \in Nat : Bufs(p)'[n].path = Segment(p, "Mmap", n, k)
      <4>1. CASE n = n0
        <5>1. file \in DOMAIN shm'
          BY <2>1, <2>6
        <5>2. Bufs(p)'[n].path = file
          BY <2>5, <4>1
        <5>3. proc[p].serial + 1 \in Nat
          BY <1>1 DEF Bound
        <5>4. file = Segment(p, "Mmap", n, proc[p].serial + 1)
          BY <4>1
        <5> HIDE DEF file, n0
        <5> QED
          BY <5>1, <5>2, <5>3, <5>4
      <4>2. CASE n # n0
        <5>1. PICK k \in Nat : Bufs(p)[n].path = Segment(p, "Mmap", n, k)
          BY <1>1, <2>5 DEF Backed
        <5>2. PICK j \in Nat : Bufs(p)[n0].path = Segment(p, "Mmap", n0, j)
          BY <1>1, <1>2 DEF Backed
        <5>3. Bufs(p)[n].path # Bufs(p)[n0].path
          BY <4>2, <5>1, <5>2 DEF Segment
        <5> QED
          BY <1>1, <2>1, <2>5, <2>6, <4>2, <5>1, <5>3 DEF Backed
      <4> QED
        BY <4>1, <4>2
    <3>2. ASSUME NEW n \in DOMAIN Strs(p)
          PROVE  Strs(p)[n].path \in DOMAIN shm' /\ Strs(p)[n].path \in {Strs(p)[n].queue, HostQueue(p)}
      <4>1. Strs(p)[n].path \in DOMAIN shm /\ Strs(p)[n].path \in {Segment(p, "Stream", n, 0), HostQueue(p)}
        BY <1>1 DEF Backed, Bound
      <4>2. PICK j \in Nat : Bufs(p)[n0].path = Segment(p, "Mmap", n0, j)
        BY <1>1, <1>2 DEF Backed
      <4>3. Bufs(p)[n0].path # Strs(p)[n].path
        BY <4>1, <4>2 DEF Segment, HostQueue
      <4> QED
        BY <1>1, <2>1, <2>6, <4>1, <4>3 DEF Backed
    <3> HIDE DEF n0, file
    <3> QED
      BY <2>4, <3>1, <3>2 DEF Backed, Segment, HostQueue
  <2>10. Owned(p)' \subseteq Dropped(p)'
    <3> SUFFICES ASSUME NEW f \in DOMAIN shm', f[1] = p PROVE f \in Dropped(p)'
      BY DEF Owned
    <3>1. CASE f = file
      <4>1. f \in {Bufs(p)'[n].path : n \in DOMAIN Bufs(p)'} /\ f \in Owned(p)'
        BY <1>2, <2>5, <3>1 DEF Owned
      <4> QED
        BY <4>1 DEF Dropped, Bufs
    <3>2. CASE f # file
      <4>1. f \in Owned(p) /\ f \notin Unlinked(p) /\ f \in Dropped(p) /\ f \in Owned(p)'
        BY <1>1, <2>1, <3>2 DEF Owned
      <4>2. CASE f \in {Strs(p)[n].queue : n \in DOMAIN Strs(p)} \cup {HostQueue(p)}
        <5>1. f \in {Strs(p)'[n].queue : n \in DOMAIN Strs(p)'} \cup {HostQueue(p)}
          BY <2>4, <4>2
        <5> QED
          BY <5>1 DEF Dropped, Strs, HostQueue
      <4>3. CASE \E n \in DOMAIN Bufs(p) : f = Bufs(p)[n].path
        <5>1. PICK n \in DOMAIN Bufs(p) : f = Bufs(p)[n].path
          BY <4>3
        <5>2. n # n0
          BY <2>6, <4>1, <5>1
        <5>3. f \in {Bufs(p)'[m].path : m \in DOMAIN Bufs(p)'}
          BY <2>5, <5>1, <5>2
        <5> QED
          BY <4>1, <5>3 DEF Dropped, Bufs
      <4> QED
        BY <4>1, <4>2, <4>3 DEF Dropped, Bufs, Strs
    <3> QED
      BY <3>1, <3>2
  <2>11. Accounted(p)'
    <3>1. ~Live(p)'
      BY <1>1 DEF Live
    <3> QED
      BY <2>3, <2>8, <2>9, <2>10, <3>1 DEF Accounted
  <2>12. \A q \in Procs \ {p} : Same(q)
    BY <2>3 DEF Same
  <2> QED
    BY <1>1, <2>3, <2>7, <2>11, <2>12, OwnStep
<1> QED
  BY <1>3, <1>4

\* set_stream_arg: the host's queue is there before the context names it.
LEMMA StreamStep == ASSUME NEW p \in Procs, IInv, SetStreamArg(p) PROVE IInv'
<1> DEFINE n0 == Arg(p).name
           strs == IF proc[p].session.queue /\ n0 \in DOMAIN Strs(p)
                   THEN [Strs(p) EXCEPT ![n0] = [Strs(p)[n0] EXCEPT !.path = HostQueue(p)]] ELSE Strs(p)
           ctx == [proc[p].ctx EXCEPT !.strs = strs]
           one == [proc[p] EXCEPT !.next = proc[p].next + 1]
<1>1. /\ Active(p) /\ proc[p].pc = "bind" /\ sims' = sims /\ dirs' = dirs
      /\ Bound(p) /\ Backed(p) /\ Owned(p) \subseteq Dropped(p) /\ ~Live(p)
      /\ DOMAIN proc = Procs
  BY DEF SetStreamArg, Binding, Active, IInv, Accounted, Shape
<1>2. proc' = [proc EXCEPT ![p] = [one EXCEPT !.ctx = ctx]]
  BY <1>1 DEF SetStreamArg, Strs, Bound, Fields
<1>3. DOMAIN shm' = IF proc[p].session.queue THEN DOMAIN shm \cup {HostQueue(p)} ELSE DOMAIN shm
  BY DEF SetStreamArg, WithFiles
<1>4. /\ DOMAIN proc' = Procs /\ \A q \in Procs \ {p} : proc'[q] = proc[q]
      /\ DOMAIN proc'[p] = Fields /\ proc'[p].pc = "bind" /\ proc'[p].session = proc[p].session
      /\ proc'[p].serial = proc[p].serial /\ proc'[p].ctx = ctx
  BY <1>1, <1>2 DEF Bound, Fields
<1>5. Strs(p)' = strs /\ DOMAIN proc'[p].ctx = {"bufs", "strs"} /\ Bufs(p)' = Bufs(p)
  BY <1>1, <1>4 DEF Bound, Bufs, Strs
<1> HIDE DEF one, ctx, n0
<1>6. ASSUME NEW n \in DOMAIN strs
      PROVE  /\ n \in DOMAIN Strs(p) /\ DOMAIN strs[n] = {"path", "queue", "width"}
             /\ strs[n].queue = Strs(p)[n].queue
             /\ strs[n].path = Strs(p)[n].path \/ (proc[p].session.queue /\ strs[n].path = HostQueue(p))
  <2>1. n \in DOMAIN Strs(p) /\ DOMAIN Strs(p)[n] = {"path", "queue", "width"}
    BY <1>1, <1>6 DEF Bound
  <2>2. CASE strs[n] = Strs(p)[n]
    BY <2>1, <2>2
  <2>3. CASE strs[n] # Strs(p)[n]
    <3>1. proc[p].session.queue /\ strs[n] = [Strs(p)[n] EXCEPT !.path = HostQueue(p)]
      BY <2>1, <2>3
    <3> QED
      BY <2>1, <3>1
  <2> QED
    BY <2>2, <2>3
<1>7. DOMAIN strs = DOMAIN Strs(p)
  OBVIOUS
<1> HIDE DEF strs
<1>8. Bound(p)'
  <2>1. SpecOf(p)' = SpecOf(p)
    BY <1>4 DEF SpecOf, Loaded
  <2>2. \A n \in DOMAIN strs : DOMAIN strs[n] = {"path", "queue", "width"} /\ strs[n].queue = Segment(p, "Stream", n, 0)
    BY <1>1, <1>6 DEF Bound
  <2>3. Names(SpecOf(p), "Mmap")' = Names(SpecOf(p), "Mmap")
    BY <2>1 DEF Names, Positions
  <2>4. /\ proc[p].serial \in Nat /\ Names(SpecOf(p), "Mmap") \subseteq DOMAIN Bufs(p)
        /\ \A n \in DOMAIN Bufs(p) :
             /\ DOMAIN Bufs(p)[n] = {"path", "base"}
             /\ \A m : \A k \in Nat : k > proc[p].serial => Bufs(p)[n].path # Segment(p, "Mmap", m, k)
    BY <1>1 DEF Bound
  <2> QED
    BY <1>4, <1>5, <2>2, <2>3, <2>4, BoundParts
<1>9. Backed(p)'
  <2> SUFFICES ASSUME proc[p].session.mode # "resume" PROVE Backed(p)'
    BY <1>4 DEF Backed
  <2>1. ASSUME NEW n \in DOMAIN strs
        PROVE  strs[n].path \in DOMAIN shm' /\ strs[n].path \in {strs[n].queue, HostQueue(p)}
    BY <1>1, <1>3, <1>6 DEF Backed
  <2>2. ASSUME NEW n \in DOMAIN Bufs(p)
        PROVE  Bufs(p)[n].path \in DOMAIN shm' /\ \E k \in Nat : Bufs(p)[n].path = Segment(p, "Mmap", n, k)
    BY <1>1, <1>3 DEF Backed
  <2> QED
    BY <1>5, <2>1, <2>2 DEF Backed, Segment, HostQueue
<1>10. Owned(p)' \subseteq Dropped(p)'
  <2> SUFFICES ASSUME NEW f \in DOMAIN shm', f[1] = p PROVE f \in Dropped(p)'
    BY DEF Owned
  <2>1. CASE f = HostQueue(p)
    BY <2>1 DEF Dropped, HostQueue
  <2>2. CASE f # HostQueue(p)
    <3>1. f \in Owned(p) /\ f \in Owned(p)' /\ f \in Dropped(p)
      BY <1>1, <1>3, <2>2 DEF Owned
    <3>2. CASE \E n \in DOMAIN Strs(p) : f = Strs(p)[n].queue
      <4>1. f \in {strs[n].queue : n \in DOMAIN strs}
        BY <1>6, <1>7, <3>2
      <4> QED
        BY <1>5, <4>1 DEF Dropped, Strs
    <3>3. CASE \E n \in DOMAIN Bufs(p) : f = Bufs(p)[n].path
      <4>1. f \in {Bufs(p)'[n].path : n \in DOMAIN Bufs(p)'}
        BY <1>5, <3>3
      <4> QED
        BY <3>1, <4>1 DEF Dropped, Bufs
    <3> QED
      BY <2>2, <3>1, <3>2, <3>3 DEF Dropped, Bufs, Strs
  <2> QED
    BY <2>1, <2>2
<1>11. Accounted(p)'
  <2>1. ~Live(p)'
    BY <1>1 DEF Live
  <2> QED
    BY <1>4, <1>8, <1>9, <1>10, <2>1 DEF Accounted
<1>12. \A q \in Procs \ {p} : Same(q)
  BY <1>4 DEF Same
<1>13. \A f : f[1] # p => (f \in DOMAIN shm' <=> f \in DOMAIN shm)
  BY <1>3 DEF HostQueue
<1> QED
  BY <1>1, <1>4, <1>11, <1>12, <1>13, OwnStep

\* CosimDevice::open for processes other than p: at most they learn that they
\* are not alone.
LEMMA OpenOthers ==
  ASSUME NEW p \in Procs, IInv, NEW s, NEW v,
         proc' = [[q \in Procs |-> IF Beside(p, s, q) THEN [proc[q] EXCEPT !.alone = FALSE] ELSE proc[q]]
                   EXCEPT ![p] = v]
  PROVE  DOMAIN proc' = Procs /\ proc'[p] = v /\ \A q \in Procs \ {p} : Same(q)
<1>1. DOMAIN proc' = Procs /\ proc'[p] = v
  OBVIOUS
<1>2. ASSUME NEW q \in Procs \ {p} PROVE Same(q)
  <2>1. CASE Beside(p, s, q)
    <3>1. proc'[q] = [proc[q] EXCEPT !.alone = FALSE] /\ DOMAIN proc[q] = Fields
      BY <2>1 DEF Beside, IInv, Accounted, Bound
    <3> QED
      BY <3>1 DEF Same, Fields
  <2>2. CASE ~Beside(p, s, q)
    BY <2>2 DEF Same
  <2> QED
    BY <2>1, <2>2
<1> QED
  BY <1>1, <1>2

\* A new context: a placeholder for each mmap and a queue for each stream.
LEMMA OpenNew ==
  ASSUME NEW p \in Procs, IInv, proc[p].pc = "start", NEW s, s.mode # "resume",
         LET spec == Loaded[s.package] IN
           /\ proc' = [[q \in Procs |-> IF Beside(p, s, q) THEN [proc[q] EXCEPT !.alone = FALSE] ELSE proc[q]]
                         EXCEPT ![p] = Opened(p, s, NewContext(p, spec[1]))]
           /\ shm' = WithFiles(NewFiles(p, spec[1])),
         dirs' = dirs, sims' = sims
  PROVE  IInv'
<1> DEFINE spec == Loaded[s.package][1]
           mmaps == Names(spec, "Mmap")
           streams == Names(spec, "Stream")
<1>1. /\ DOMAIN proc' = Procs /\ proc'[p] = Opened(p, s, NewContext(p, spec))
      /\ \A q \in Procs \ {p} : Same(q)
  BY OpenOthers
<1>2. /\ DOMAIN proc'[p] = Fields /\ proc'[p].pc = "bind" /\ proc'[p].session = s
      /\ proc'[p].serial = 0 /\ proc'[p].ctx = NewContext(p, spec)
  BY <1>1, OpenedParts
<1>3. DOMAIN shm' = DOMAIN shm \cup {Segment(p, "Mmap", n, 0) : n \in mmaps} \cup {Segment(p, "Stream", n, 0) : n \in streams}
  BY DEF WithFiles, NewFiles
<1>4. /\ DOMAIN proc'[p].ctx = {"bufs", "strs"} /\ DOMAIN Bufs(p)' = mmaps /\ DOMAIN Strs(p)' = streams
      /\ \A n \in mmaps : DOMAIN Bufs(p)'[n] = {"path", "base"} /\ Bufs(p)'[n].path = Segment(p, "Mmap", n, 0)
      /\ \A n \in streams : /\ DOMAIN Strs(p)'[n] = {"path", "queue", "width"}
                            /\ Strs(p)'[n].path = Segment(p, "Stream", n, 0)
                            /\ Strs(p)'[n].queue = Segment(p, "Stream", n, 0)
  <2>1. Bufs(p)' = proc'[p].ctx.bufs /\ Strs(p)' = proc'[p].ctx.strs
    BY DEF Bufs, Strs
  <2> DEFINE b == [n \in mmaps |-> [path |-> Segment(p, "Mmap", n, 0), base |-> BaseBytes(MmapIndex(spec, n))]]
             t == [n \in streams |-> [path |-> Segment(p, "Stream", n, 0), queue |-> Segment(p, "Stream", n, 0),
                                      width |-> StreamBytes(spec, n)]]
  <2>2. proc'[p].ctx = [bufs |-> b, strs |-> t]
    BY <1>2 DEF NewContext
  <2> HIDE DEF spec, mmaps, streams
  <2>3. /\ DOMAIN b = mmaps
        /\ \A n \in mmaps : b[n] = [path |-> Segment(p, "Mmap", n, 0), base |-> BaseBytes(MmapIndex(spec, n))]
    OBVIOUS
  <2>4. /\ DOMAIN t = streams
        /\ \A n \in streams : t[n] = [path |-> Segment(p, "Stream", n, 0), queue |-> Segment(p, "Stream", n, 0),
                                      width |-> StreamBytes(spec, n)]
    OBVIOUS
  <2> HIDE DEF b, t
  <2>5. DOMAIN proc'[p].ctx = {"bufs", "strs"} /\ Bufs(p)' = b /\ Strs(p)' = t
    BY <2>1, <2>2, ContextParts
  <2>6. \A n \in mmaps : DOMAIN b[n] = {"path", "base"} /\ b[n].path = Segment(p, "Mmap", n, 0)
    BY <2>3
  <2>7. \A n \in streams : /\ DOMAIN t[n] = {"path", "queue", "width"}
                           /\ t[n].path = Segment(p, "Stream", n, 0) /\ t[n].queue = Segment(p, "Stream", n, 0)
    BY <2>4
  <2> QED
    BY <2>3, <2>4, <2>5, <2>6, <2>7
<1>5. SpecOf(p)' = spec
  BY <1>2 DEF SpecOf, Loaded
<1>6. Owned(p) = {} /\ ~Live(p)
  BY DEF IInv, Accounted
<1>7. Bound(p)'
  <2>1. Names(SpecOf(p), "Mmap")' = mmaps
    BY <1>5 DEF Names, Positions
  <2>2. ASSUME NEW n \in mmaps, NEW m, NEW k \in Nat, k > 0 PROVE Bufs(p)'[n].path # Segment(p, "Mmap", m, k)
    BY <1>4, <2>2 DEF Segment
  <2> HIDE DEF spec, mmaps, streams
  <2>3. \A n \in DOMAIN Bufs(p)' :
          /\ DOMAIN Bufs(p)'[n] = {"path", "base"}
          /\ \A m : \A k \in Nat : k > proc'[p].serial => Bufs(p)'[n].path # Segment(p, "Mmap", m, k)
    BY <1>2, <1>4, <2>2
  <2>4. proc'[p].serial \in Nat /\ Names(SpecOf(p), "Mmap")' \subseteq DOMAIN Bufs(p)'
    BY <1>2, <1>4, <2>1
  <2>5. \A n \in DOMAIN Strs(p)' : /\ DOMAIN Strs(p)'[n] = {"path", "queue", "width"}
                                   /\ Strs(p)'[n].queue = Segment(p, "Stream", n, 0)
    BY <1>4
  <2>6. DOMAIN proc'[p] = Fields /\ DOMAIN proc'[p].ctx = {"bufs", "strs"}
    BY <1>2, <1>4
  <2> QED
    BY <2>3, <2>4, <2>5, <2>6, BoundParts, Zenon
<1>8. Backed(p)'
  <2> HIDE DEF spec, mmaps, streams
  <2>1. \A n \in mmaps : Bufs(p)'[n].path \in DOMAIN shm' /\ \E k \in Nat : Bufs(p)'[n].path = Segment(p, "Mmap", n, k)
    BY <1>3, <1>4
  <2>2. \A n \in streams : Strs(p)'[n].path \in DOMAIN shm' /\ Strs(p)'[n].path = Strs(p)'[n].queue
    BY <1>3, <1>4
  <2> QED
    BY <1>4, <2>1, <2>2 DEF Backed, Segment, HostQueue
<1>9. Owned(p)' \subseteq Dropped(p)'
  <2> HIDE DEF spec, mmaps, streams
  <2> SUFFICES ASSUME NEW f \in DOMAIN shm', f[1] = p PROVE f \in Dropped(p)'
    BY DEF Owned
  <2>1. f \notin DOMAIN shm /\ f \in Owned(p)'
    BY <1>6 DEF Owned
  <2>2. CASE \E n \in mmaps : f = Segment(p, "Mmap", n, 0)
    <3>1. f \in {Bufs(p)'[n].path : n \in DOMAIN Bufs(p)'}
      BY <1>4, <2>2
    <3> QED
      BY <2>1, <3>1 DEF Dropped, Bufs
  <2>3. CASE \E n \in streams : f = Segment(p, "Stream", n, 0)
    <3>1. f \in {Strs(p)'[n].queue : n \in DOMAIN Strs(p)'}
      BY <1>4, <2>3
    <3> QED
      BY <3>1 DEF Dropped, Strs
  <2> QED
    BY <1>3, <2>1, <2>2, <2>3
<1>10. Accounted(p)'
  <2>1. ~Live(p)'
    BY <1>6 DEF Live
  <2> QED
    BY <1>2, <1>7, <1>8, <1>9, <2>1 DEF Accounted
<1>11. \A f : f[1] # p => (f \in DOMAIN shm' <=> f \in DOMAIN shm)
  <2>1. \A n : Segment(p, "Mmap", n, 0)[1] = p /\ Segment(p, "Stream", n, 0)[1] = p
    BY DEF Segment
  <2> HIDE DEF spec, mmaps, streams
  <2> QED
    BY <1>3, <2>1
<1> QED
  BY <1>1, <1>10, <1>11, OwnStep

\* Process p goes on with the buffers mmaps that a setup run has recorded.
Resumes(p, config, mmaps) ==
  /\ mmaps \subseteq DOMAIN config.bufs /\ Names(SpecOf(p), "Mmap")' = mmaps
  /\ DOMAIN proc' = Procs /\ DOMAIN proc'[p] = Fields /\ \A q \in Procs \ {p} : Same(q)
  /\ proc'[p].pc = "bind" /\ proc'[p].session.mode = "resume" /\ proc'[p].serial = 0
  /\ DOMAIN proc'[p].ctx = {"bufs", "strs"} /\ DOMAIN Strs(p)' = {} /\ DOMAIN Bufs(p)' = mmaps
  /\ \A n \in mmaps : Bufs(p)'[n] = config.bufs[n]

\* A finished simulation is resumed: its segments are those of the setup run.
LEMMA OpenResumed ==
  ASSUME NEW p \in Procs, IInv, proc[p].pc = "start", NEW d \in DOMAIN dirs, NEW config, NEW mmaps,
         dirs[d].config = <<config>>, Resumes(p, config, mmaps), shm' = shm, dirs' = dirs, sims' = sims
  PROVE  IInv'
<1>1. \A n \in mmaps : DOMAIN config.bufs[n] = {"path", "base"}
  <2>1. ConfigFits(<<config>>)
    BY DEF IInv, Shape
  <2>2. PICK c : <<config>> = <<c>> /\ \A n \in DOMAIN c.bufs : DOMAIN c.bufs[n] = {"path", "base"}
    BY <2>1 DEF ConfigFits
  <2>3. config = c
    BY <2>2
  <2> QED
    BY <2>2, <2>3 DEF Resumes
<1>2. ASSUME NEW n \in mmaps PROVE config.bufs[n].path \in Recorded
  <2>1. config.bufs[n].path \in Paths(config)
    BY DEF Paths, Resumes
  <2>2. config \in Range(dirs[d].config)
    BY DEF Range
  <2> QED
    BY <2>1, <2>2 DEF Recorded
<1>3. ASSUME NEW n \in mmaps PROVE config.bufs[n].path[1] # p
  BY <1>2 DEF IInv, RecordsStand
<1>4. Owned(p) = {} /\ ~Live(p)
  BY DEF IInv, Accounted
<1>5. Bound(p)'
  <2>1. \A n \in DOMAIN Bufs(p)' : DOMAIN Bufs(p)'[n] = {"path", "base"} /\ Bufs(p)'[n].path[1] # p
    BY <1>1, <1>3 DEF Resumes
  <2>2. \A n \in DOMAIN Bufs(p)' :
          /\ DOMAIN Bufs(p)'[n] = {"path", "base"}
          /\ \A m : \A k \in Nat : k > proc'[p].serial => Bufs(p)'[n].path # Segment(p, "Mmap", m, k)
    BY <2>1, ForeignBuffers
  <2>3. \A n \in DOMAIN Strs(p)' : /\ DOMAIN Strs(p)'[n] = {"path", "queue", "width"}
                                   /\ Strs(p)'[n].queue = Segment(p, "Stream", n, 0)
    BY DEF Resumes
  <2>4. proc'[p].serial \in Nat /\ Names(SpecOf(p), "Mmap")' \subseteq DOMAIN Bufs(p)'
    BY DEF Resumes
  <2>5. DOMAIN proc'[p] = Fields /\ DOMAIN proc'[p].ctx = {"bufs", "strs"}
    BY DEF Resumes
  <2> QED
    BY <2>2, <2>3, <2>4, <2>5, BoundParts
<1>6. Backed(p)'
  BY DEF Backed, Resumes
<1>7. Owned(p)' \subseteq Dropped(p)'
  BY <1>4 DEF Owned
<1>8. Accounted(p)'
  <2>1. ~Live(p)'
    BY <1>4 DEF Live
  <2> QED
    BY <1>5, <1>6, <1>7, <2>1 DEF Accounted, Resumes
<1>9. DOMAIN proc' = Procs /\ \A q \in Procs \ {p} : Same(q)
  BY DEF Resumes
<1> QED
  BY <1>8, <1>9, OwnStep

\* A device that is not opened leaves the process ended, and owning nothing.
LEMMA OpenRefused ==
  ASSUME NEW p \in Procs, IInv, proc[p].pc = "start", NEW s,
         proc' = [proc EXCEPT ![p] = [session |-> s, pc |-> "ended", result |-> "refused"]],
         shm' = shm, dirs' = dirs, sims' = sims
  PROVE  IInv'
<1>1. DOMAIN proc' = Procs /\ proc'[p].pc = "ended" /\ proc'[p].result = "refused"
  BY DEF IInv, Shape
<1>2. \A q \in Procs \ {p} : Same(q)
  BY DEF Same
<1>3. ~Live(p)'
  BY DEF Live, IInv, Accounted
<1>4. Accounted(p)'
  BY <1>1, <1>3 DEF Accounted, Active
<1> QED
  BY <1>1, <1>2, <1>4, OwnStep

\* The ways a device is opened for session s: it is refused, new or resumed.
Seen(p, s) == [q \in Procs |-> IF Beside(p, s, q) THEN [proc[q] EXCEPT !.alone = FALSE] ELSE proc[q]]
IsRefused(p, s) ==
  proc' = [proc EXCEPT ![p] = [session |-> s, pc |-> "ended", result |-> "refused"]] /\ shm' = shm
IsNew(p, s) ==
  /\ s.mode # "resume" /\ shm' = WithFiles(NewFiles(p, Loaded[s.package][1]))
  /\ proc' = [Seen(p, s) EXCEPT ![p] = Opened(p, s, NewContext(p, Loaded[s.package][1]))]
IsResumed(p, s) ==
  /\ s.mode = "resume" /\ shm' = shm /\ dirs[Dir(p, s)].config # <<>>
  /\ Resumable(Loaded[s.package][1], dirs[Dir(p, s)].config[1])
  /\ proc' = [Seen(p, s) EXCEPT ![p] = Opened(p, s, ResumedCtx(p, s))]

\* CosimDevice::open.
LEMMA OpenStep == ASSUME NEW p \in Procs, IInv, Open(p) PROVE IInv'
<1>1. proc[p].pc = "start" /\ dirs' = dirs /\ sims' = sims
  BY DEF Open
<1>2. PICK s \in Sessions : IsRefused(p, s) \/ IsNew(p, s) \/ IsResumed(p, s)
  BY DEF Open, IsRefused, IsNew, IsResumed, Seen, ResumedCtx
<1>3. CASE IsRefused(p, s)
  BY <1>1, <1>3, OpenRefused DEF IsRefused
<1>4. CASE IsNew(p, s)
  BY <1>1, <1>4, OpenNew DEF IsNew, Seen
<1>5. CASE IsResumed(p, s)
  <2> DEFINE ctx == ResumedCtx(p, s)
             spec == Loaded[s.package][1]
             config == dirs[Dir(p, s)].config[1]
  <2>1. /\ DOMAIN ctx = {"bufs", "strs"} /\ DOMAIN ctx.strs = {} /\ DOMAIN ctx.bufs = Names(spec, "Mmap")
        /\ \A n \in Names(spec, "Mmap") : ctx.bufs[n] = config.bufs[n]
    BY ResumedContext
  <2>2. DOMAIN proc' = Procs /\ proc'[p] = Opened(p, s, ctx) /\ \A q \in Procs \ {p} : Same(q)
    BY <1>5, OpenOthers DEF IsResumed, Seen
  <2>3. Dir(p, s) \in DOMAIN dirs
    BY DEF Dir, IInv, Shape
  <2>4. dirs[Dir(p, s)].config = <<config>>
    <3>1. PICK c : dirs[Dir(p, s)].config = <<c>>
      BY <1>5, <2>3 DEF IsResumed, IInv, Shape, ConfigFits
    <3>2. \A x : <<x>>[1] = x
      OBVIOUS
    <3> QED
      BY <3>1, <3>2, Zenon
  <2>5. Names(spec, "Mmap") \subseteq DOMAIN config.bufs /\ s.mode = "resume" /\ shm' = shm
    BY <1>5 DEF IsResumed, Resumable
  <2> HIDE DEF ctx, config
  <2>6. /\ DOMAIN proc'[p] = Fields /\ proc'[p].pc = "bind" /\ proc'[p].session = s
        /\ proc'[p].serial = 0 /\ proc'[p].ctx = ctx
    BY <2>2, OpenedParts
  <2>7. Names(SpecOf(p), "Mmap")' = Names(spec, "Mmap")
    <3>1. SpecOf(p)' = spec
      BY <2>6 DEF SpecOf, Loaded
    <3> QED
      BY <3>1 DEF Names, Positions
  <2>8. Bufs(p)' = ctx.bufs /\ Strs(p)' = ctx.strs
    BY <2>6 DEF Bufs, Strs
  <2> DEFINE mmaps == Names(spec, "Mmap")
  <2>9. /\ DOMAIN proc'[p].ctx = {"bufs", "strs"} /\ DOMAIN Strs(p)' = {} /\ DOMAIN Bufs(p)' = mmaps
        /\ \A n \in mmaps : Bufs(p)'[n] = config.bufs[n]
    BY <2>1, <2>6, <2>8
  <2>10. proc'[p].session.mode = "resume" /\ mmaps \subseteq DOMAIN config.bufs
    BY <2>5, <2>6
  <2> HIDE DEF mmaps, spec
  <2>11. Names(SpecOf(p), "Mmap")' = mmaps
    BY <2>7 DEF mmaps
  <2>12. Resumes(p, config, mmaps)
    BY <2>2, <2>6, <2>9, <2>10, <2>11 DEF Resumes
  <2> QED
    BY <1>1, <2>3, <2>4, <2>5, <2>12, OpenResumed
<1> QED
  BY <1>2, <1>3, <1>4, <1>5
-----------------------------------------------------------------------------
(* The other steps of a host *)

\* exec renders a testbench, or finds the simulation finished.
LEMMA ExecStep == ASSUME NEW p \in Procs, IInv, Exec(p) PROVE IInv'
<1>1. Active(p) /\ proc[p].pc = "bind"
  BY DEF Exec, Active
<1>2. CASE Die(p, "failed")
  BY <1>1, <1>2, DieStep
<1>3. CASE ~Die(p, "failed")
  <2>1. /\ shm' = shm /\ sims' = sims
        /\ \/ Goto(p, "finish") /\ dirs' = dirs
           \/ Goto(p, "copy") /\ dirs' = [dirs EXCEPT ![DirOf(p)].tb = Plan(p)]
           \/ Goto(p, "tcl") /\ dirs' = [dirs EXCEPT ![DirOf(p)].sv = Plan(p)]
    BY <1>3 DEF Exec, Go
  <2>2. CASE Goto(p, "finish") /\ dirs' = dirs
    BY <1>1, <2>1, <2>2, WriteStep
  <2>3. CASE Goto(p, "copy") /\ dirs' = [dirs EXCEPT ![DirOf(p)].tb = Plan(p)]
    <3>1. Written(p)
      <4>1. Entry(p, "tb", Plan(p))
        BY <2>3 DEF Entry
      <4>2. "tb" # "config"
        OBVIOUS
      <4> QED
        BY <4>1, <4>2 DEF Written
    <3> QED
      BY <1>1, <2>1, <2>3, <3>1, WriteStep
  <2>4. CASE Goto(p, "tcl") /\ dirs' = [dirs EXCEPT ![DirOf(p)].sv = Plan(p)]
    <3>1. Written(p)
      <4>1. Entry(p, "sv", Plan(p))
        BY <2>4 DEF Entry
      <4>2. "sv" # "config"
        OBVIOUS
      <4> QED
        BY <4>1, <4>2 DEF Written
    <3> QED
      BY <1>1, <2>1, <2>4, <3>1, WriteStep
  <2> QED
    BY <2>1, <2>2, <2>3, <2>4
<1> QED
  BY <1>2, <1>3

\* The RTL is copied into the work directory and patched there.
LEMMA CopyStep == ASSUME NEW p \in Procs, IInv, CopyRtl(p) PROVE IInv'
<1>1. Active(p) /\ proc[p].pc = "copy" /\ Goto(p, "patch") /\ shm' = shm /\ sims' = sims
  BY DEF CopyRtl, Active, Go
<1>2. PICK v : dirs' = [dirs EXCEPT ![DirOf(p)].rtl = v]
  BY DEF CopyRtl
<1>3. Written(p)
  <2>1. Entry(p, "rtl", v)
    BY <1>2 DEF Entry
  <2>2. "rtl" # "config"
    OBVIOUS
  <2> QED
    BY <2>1, <2>2 DEF Written
<1> QED
  BY <1>1, <1>3, WriteStep

\* The vendor IPs get their models, or the program ends.
LEMMA PatchStep == ASSUME NEW p \in Procs, IInv, PatchRtl(p) PROVE IInv'
<1>1. Active(p) /\ proc[p].pc = "patch"
  BY DEF PatchRtl, Active
<1>2. CASE Die(p, "failed")
  BY <1>1, <1>2, DieStep
<1>3. CASE ~Die(p, "failed")
  <2>1. Goto(p, "prepared") /\ shm' = shm /\ sims' = sims
    BY <1>3 DEF PatchRtl, Go
  <2>2. PICK v : dirs' = [dirs EXCEPT ![DirOf(p)].rtl = v]
    BY <1>3 DEF PatchRtl
  <2>3. Written(p)
    <3>1. Entry(p, "rtl", v)
      BY <2>2 DEF Entry
    <3>2. "rtl" # "config"
      OBVIOUS
    <3> QED
      BY <3>1, <3>2 DEF Written
  <2> QED
    BY <1>1, <2>1, <2>3, WriteStep
<1> QED
  BY <1>2, <1>3

\* The Vivado script is written.
LEMMA TclStep == ASSUME NEW p \in Procs, IInv, WriteTcl(p) PROVE IInv'
<1>1. Active(p) /\ proc[p].pc = "tcl" /\ Goto(p, "prepared") /\ shm' = shm /\ sims' = sims
  BY DEF WriteTcl, Active, Go
<1>2. PICK v : dirs' = [dirs EXCEPT ![DirOf(p)].tcl = v]
  BY DEF WriteTcl
<1>3. Written(p)
  <2>1. Entry(p, "tcl", v)
    BY <1>2 DEF Entry
  <2>2. "tcl" # "config"
    OBVIOUS
  <2> QED
    BY <2>1, <2>2 DEF Written
<1> QED
  BY <1>1, <1>3, WriteStep

\* The build: the gate, verilator and make.
LEMMA GateStep == ASSUME NEW p \in Procs, IInv, AcquireGate(p) PROVE IInv'
<1>1. /\ Active(p) /\ proc[p].pc = "prepared" /\ proc[p].session.mode = "run"
      /\ Goto(p, "verilate") /\ shm' = shm /\ sims' = sims /\ dirs' = dirs
  BY DEF AcquireGate, Active
<1> QED
  BY <1>1, WriteStep

LEMMA VerilateStep == ASSUME NEW p \in Procs, IInv, Verilate(p) PROVE IInv'
<1>1. Active(p) /\ proc[p].pc = "verilate" /\ proc[p].session.mode = "run"
  BY DEF Verilate, Active, IInv, Accounted
<1>2. CASE Die(p, "failed")
  BY <1>1, <1>2, DieStep
<1>3. CASE ~Die(p, "failed")
  <2>1. Goto(p, "make") /\ shm' = shm /\ sims' = sims
    BY <1>3 DEF Verilate, Go
  <2>2. PICK v : dirs' = [dirs EXCEPT ![DirOf(p)].obj = v]
    BY <1>3 DEF Verilate
  <2>3. Written(p)
    <3>1. Entry(p, "obj", v)
      BY <2>2 DEF Entry
    <3>2. "obj" # "config"
      OBVIOUS
    <3> QED
      BY <3>1, <3>2 DEF Written
  <2> QED
    BY <1>1, <2>1, <2>3, WriteStep
<1> QED
  BY <1>2, <1>3

LEMMA MakeStep == ASSUME NEW p \in Procs, IInv, Make(p) PROVE IInv'
<1>1. Active(p) /\ proc[p].pc = "make" /\ proc[p].session.mode = "run"
  BY DEF Make, Active, IInv, Accounted
<1>2. CASE Die(p, "failed")
  BY <1>1, <1>2, DieStep
<1>3. CASE ~Die(p, "failed")
  <2>1. Goto(p, "launch") /\ shm' = shm /\ sims' = sims
    BY <1>3 DEF Make, Go
  <2>2. PICK v : dirs' = [dirs EXCEPT ![DirOf(p)].bin = v]
    BY <1>3 DEF Make
  <2>3. Written(p)
    <3>1. Entry(p, "bin", v)
      BY <2>2 DEF Entry
    <3>2. "bin" # "config"
      OBVIOUS
    <3> QED
      BY <3>1, <3>2 DEF Written
  <2> QED
    BY <1>1, <2>1, <2>3, WriteStep
<1> QED
  BY <1>2, <1>3
-----------------------------------------------------------------------------
(* The invariant and the theorem *)

\* Every step of a host program.
LEMMA HostStepKeeps == ASSUME NEW p \in Procs, IInv, HostStep(p) \/ Crash(p) PROVE IInv'
<1>1. CASE Launch(p)
  <2>1. /\ proc[p].pc = "launch" /\ proc[p].session.mode = "run" /\ Goto(p, "finish") /\ shm' = shm /\ dirs' = dirs
        /\ Start(p, "starting", dirs[DirOf(p)].bin)
    BY <1>1 DEF Launch, IInv, Accounted
  <2> QED
    BY <2>1, LaunchStep
<1>2. CASE LaunchVivado(p)
  <2>1. /\ proc[p].pc = "prepared" /\ proc[p].session.mode = "run" /\ Goto(p, "finish") /\ shm' = shm /\ dirs' = dirs
        /\ Start(p, "compiling", <<>>)
    BY <1>2 DEF LaunchVivado, Go
  <2> QED
    BY <2>1, LaunchStep
<1>3. CASE BindMismatch(p) \/ Crash(p)
  BY <1>3, DieStep DEF BindMismatch, Crash, Active
<1> QED
  BY <1>1, <1>2, <1>3, OpenStep, ScalarStep, BufferStep, StreamStep, ExecStep, CopyStep, PatchStep, TclStep,
     RecordStep, GateStep, VerilateStep, MakeStep, FinishStep DEF HostStep

\* At first there are no processes at work, no segments and no records.
LEMMA SessionStarts == SessionInit => IInv
<1> SUFFICES ASSUME SessionInit PROVE IInv
  OBVIOUS
<1>1. Shape
  <2>1. DOMAIN EmptyDir = {"tb", "rtl", "obj", "bin", "sv", "tcl", "config"} /\ EmptyDir.config = <<>>
    BY DEF EmptyDir
  <2>2. DOMAIN NoSim = {"state", "bin", "config"}
    BY DEF NoSim
  <2> QED
    BY <2>1, <2>2 DEF SessionInit, Shape, ConfigFits
<1>2. Recorded = {}
  <2>1. \A d \in DOMAIN dirs : dirs[d].config = <<>>
    BY DEF SessionInit, EmptyDir
  <2>2. \A d \in DOMAIN dirs : Range(dirs[d].config) = {}
    BY <2>1 DEF Range
  <2>3. UNION {Range(dirs[d].config) : d \in DOMAIN dirs} = {}
    BY <2>2
  <2> QED
    BY <2>3 DEF Recorded
<1>3. ASSUME NEW p \in Procs PROVE Accounted(p)
  <2>1. proc[p].pc = "start" /\ sims[p].state = "none" /\ DOMAIN shm = {}
    BY DEF SessionInit, NoSim
  <2> QED
    BY <2>1 DEF Accounted, Owned, Active, Live
<1> QED
  BY <1>1, <1>2, <1>3 DEF IInv, RecordsStand

\* Every step of a co-simulation, and none, keeps the segments accounted for.
LEMMA SessionGoesOn == IInv /\ [SessionNext]_sessionVars => IInv'
<1> SUFFICES ASSUME IInv, [SessionNext]_sessionVars PROVE IInv'
  OBVIOUS
<1>1. CASE \E p \in Procs : HostStep(p) \/ Crash(p)
  BY <1>1, HostStepKeeps
<1>2. CASE \E s \in Procs \cup {Manual} : SimStep(s)
  BY <1>2, SimStepKeeps
<1>3. CASE SimulateByHand
  BY <1>3, ByHandKeeps
<1>4. CASE UNCHANGED sessionVars
  <2>1. proc' = proc /\ shm' = shm /\ dirs' = dirs /\ sims' = sims
    BY <1>4 DEF sessionVars
  <2>2. ConfigsKept
    BY <2>1 DEF ConfigsKept, IInv, Shape
  <2>3. Shape'
    BY <2>1, <2>2, ShapeKept DEF IInv, Shape
  <2>4. Recorded' = Recorded
    BY <2>2, SameRecorded
  <2>5. RecordsStand'
    BY <2>1, <2>4 DEF IInv, RecordsStand
  <2>6. ASSUME NEW q \in Procs PROVE Accounted(q)'
    BY <2>1, OthersAccounted DEF IInv, Same, Spared
  <2> QED
    BY <2>3, <2>5, <2>6 DEF IInv
<1> QED
  BY <1>1, <1>2, <1>3, <1>4 DEF SessionNext

\* What the invariant says of the segments in use, recorded and left behind.
LEMMA SegmentsFollow == IInv => SegmentsAreAccountedFor
<1> SUFFICES ASSUME IInv PROVE SegmentsAreAccountedFor
  OBVIOUS
<1>1. ASSUME NEW d \in DOMAIN dirs, NEW c \in Range(dirs[d].config) PROVE Paths(c) \subseteq DOMAIN shm
  <2>1. c \in UNION {Range(dirs[e].config) : e \in DOMAIN dirs}
    OBVIOUS
  <2>2. Paths(c) \subseteq Recorded
    BY <2>1 DEF Recorded
  <2> QED
    BY <2>2 DEF IInv, RecordsStand
<1>2. ASSUME NEW p \in Procs, Live(p), Active(p) PROVE Paths(sims[p].config[1]) \subseteq DOMAIN shm
  <2>1. proc[p].session.mode = "run" /\ sims[p].config = <<proc[p].ctx>> /\ Backed(p)
    BY <1>2 DEF IInv, Accounted
  <2>2. sims[p].config[1] = proc[p].ctx
    BY <2>1
  <2>3. \A n \in DOMAIN Bufs(p) : Bufs(p)[n].path \in DOMAIN shm
    BY <2>1 DEF Backed
  <2>4. \A n \in DOMAIN Strs(p) : Strs(p)[n].path \in DOMAIN shm
    BY <2>1 DEF Backed
  <2>5. Paths(proc[p].ctx) \subseteq DOMAIN shm
    BY <2>3, <2>4 DEF Paths, Bufs, Strs
  <2> QED
    BY <2>2, <2>5
<1>3. NothingLeftBehind
  BY DEF NothingLeftBehind, IInv, Accounted
<1> QED
  BY <1>1, <1>2, <1>3 DEF SegmentsAreAccountedFor, ConfigNamesLiveSegments

\* Whatever processes co-simulate side by side, and wherever they die, a
\* recorded configuration and a simulator whose host is at work name segments
\* that exist, and a process that ends well has dropped every segment it
\* created, unless it was a setup run (context.rs, cosim/mod.rs).
THEOREM SegmentsCorrect == SessionSpec => []SegmentsAreAccountedFor
<1>1. SessionInit => IInv
  BY SessionStarts
<1>2. IInv /\ [SessionNext]_sessionVars => IInv'
  BY SessionGoesOn
<1>3. IInv => SegmentsAreAccountedFor
  BY SegmentsFollow
<1> QED
  BY <1>1, <1>2, <1>3, PTL DEF SessionSpec
-----------------------------------------------------------------------------
(* The rewriter of combinational blocks (RtlPatch) *)

\* What the rewriter knows of the place it is at: nothing outside combinational
\* blocks; the depth of a block it entered at its begin; and of a block whose
\* begin came later, whether it has seen the end of a statement.
Tracks ==
  /\ DOMAIN block = {"kind", "depth", "empty"} /\ block.depth \in Nat /\ spelt \in BOOLEAN
  /\ block.kind \in {"outside", "comb", "seq"} /\ block.empty \in BOOLEAN
  /\ block.kind = "outside" => block.depth = 0
  /\ block.kind # "comb" => comb = <<"outside">>
  /\ block.kind = "comb" /\ spelt => block.depth > 0 /\ comb = <<"block", block.depth>>
  /\ block.kind = "comb" /\ ~spelt => comb = IF block.empty THEN <<"statement">> ELSE <<"outside">>
  /\ block.kind = "comb" /\ ~block.empty => block.depth > 0
  /\ RewriteStaysInCombBlocks

\* Outside all blocks, an always may come.
LEMMA LinesOutside ==
  ASSUME block.kind = "outside", NEW l \in Lines(block)
  PROVE  /\ l.begins \in 0..1 /\ l.ends \in 0..1 /\ l.form \in {"other", "comb", "seq"}
         /\ l.semi \in BOOLEAN /\ l.nba \in BOOLEAN
         /\ l.form = "other" => ~l.nba /\ l.begins = 0 /\ l.ends = 0
         /\ l.semi => l.begins = l.ends
         /\ l.ends = 1 => l.semi
<1> DEFINE Fits ==
             /\ l.begins \in 0..1 /\ l.ends \in 0..1 /\ l.form \in {"other", "comb", "seq"}
             /\ l.semi \in BOOLEAN /\ l.nba \in BOOLEAN
             /\ l.form = "other" => ~l.nba /\ l.begins = 0 /\ l.ends = 0
             /\ l.semi => l.begins = l.ends
             /\ l.ends = 1 => l.semi
<1>0. 0 \in 0..1 /\ 1 \in 0..1 /\ 0 # 1
  OBVIOUS
<1>1. \/ l = Line("other", 0, 0, TRUE, FALSE) \/ l = Line("other", 0, 0, FALSE, FALSE)
      \/ \E a \in {"comb", "seq"} :
           \/ l = Line(a, 1, 0, FALSE, FALSE) \/ l = Line(a, 0, 0, TRUE, TRUE)
           \/ l = Line(a, 0, 0, FALSE, FALSE) \/ l = Line(a, 1, 1, TRUE, TRUE)
  BY Zenon DEF Lines
<1>2. ASSUME l = Line("other", 0, 0, TRUE, FALSE) PROVE Fits
  <2>1. l.form = "other" /\ l.begins = 0 /\ l.ends = 0 /\ l.semi = TRUE /\ l.nba = FALSE
    BY <1>2, Zenon DEF Line
  <2> QED
    BY <1>2, <1>0, <2>1, Zenon
<1>3. ASSUME l = Line("other", 0, 0, FALSE, FALSE) PROVE Fits
  <2>1. l.form = "other" /\ l.begins = 0 /\ l.ends = 0 /\ l.semi = FALSE /\ l.nba = FALSE
    BY <1>3, Zenon DEF Line
  <2> QED
    BY <1>3, <1>0, <2>1, Zenon
<1>4. ASSUME NEW a \in {"comb", "seq"}, l = Line(a, 1, 0, FALSE, FALSE) PROVE Fits
  <2>1. l.form = a /\ l.begins = 1 /\ l.ends = 0 /\ l.semi = FALSE /\ l.nba = FALSE
    BY <1>4, Zenon DEF Line
  <2> QED
    BY <1>4, <1>0, <2>1, Zenon
<1>5. ASSUME NEW a \in {"comb", "seq"}, l = Line(a, 0, 0, TRUE, TRUE) PROVE Fits
  <2>1. l.form = a /\ l.begins = 0 /\ l.ends = 0 /\ l.semi = TRUE /\ l.nba = TRUE
    BY <1>5, Zenon DEF Line
  <2> QED
    BY <1>5, <1>0, <2>1, Zenon
<1>6. ASSUME NEW a \in {"comb", "seq"}, l = Line(a, 0, 0, FALSE, FALSE) PROVE Fits
  <2>1. l.form = a /\ l.begins = 0 /\ l.ends = 0 /\ l.semi = FALSE /\ l.nba = FALSE
    BY <1>6, Zenon DEF Line
  <2> QED
    BY <1>6, <1>0, <2>1, Zenon
<1>7. ASSUME NEW a \in {"comb", "seq"}, l = Line(a, 1, 1, TRUE, TRUE) PROVE Fits
  <2>1. l.form = a /\ l.begins = 1 /\ l.ends = 1 /\ l.semi = TRUE /\ l.nba = TRUE
    BY <1>7, Zenon DEF Line
  <2> QED
    BY <1>7, <1>0, <2>1, Zenon
<1> HIDE DEF Fits
<1>8. Fits
  BY <1>1, <1>2, <1>3, <1>4, <1>5, <1>6, <1>7, Zenon
<1> QED
  BY <1>8 DEF Fits

\* Inside, no line is an always.
LEMMA LinesInside ==
  ASSUME block.kind # "outside", block.depth \in Nat, NEW l \in Lines(block)
  PROVE  /\ l.begins \in 0..1 /\ l.ends \in 0..1 /\ l.form = "other"
         /\ l.semi \in BOOLEAN /\ l.nba \in BOOLEAN
         /\ l.semi => l.begins = 0 /\ l.ends = 0
         /\ block.depth = 0 => l.ends = 0 /\ (l.semi \/ l.begins = 1)
         /\ l.ends = 1 => ~block.empty
<1> DEFINE Fits ==
             /\ l.begins \in 0..1 /\ l.ends \in 0..1 /\ l.form = "other"
             /\ l.semi \in BOOLEAN /\ l.nba \in BOOLEAN
             /\ l.semi => l.begins = 0 /\ l.ends = 0
             /\ block.depth = 0 => l.ends = 0 /\ (l.semi \/ l.begins = 1)
             /\ l.ends = 1 => ~block.empty
<1>0. 0 \in 0..1 /\ 1 \in 0..1 /\ 0 # 1
  OBVIOUS
<1>1. \/ l = Line("other", 0, 0, TRUE, TRUE) \/ l = Line("other", 1, 0, FALSE, FALSE)
      \/ /\ block.depth # 0
         /\ l = Line("other", 0, 0, TRUE, FALSE) \/ l = Line("other", 0, 0, FALSE, FALSE)
      \/ /\ block.depth # 0 /\ ~block.empty
         /\ l = Line("other", 0, 1, FALSE, FALSE) \/ l = Line("other", 1, 1, FALSE, FALSE)
  BY Zenon DEF Lines
<1>2. ASSUME l = Line("other", 0, 0, TRUE, TRUE) PROVE Fits
  <2>1. l.form = "other" /\ l.begins = 0 /\ l.ends = 0 /\ l.semi = TRUE /\ l.nba = TRUE
    BY <1>2, Zenon DEF Line
  <2> QED
    BY <1>2, <1>0, <2>1, Zenon
<1>3. ASSUME l = Line("other", 1, 0, FALSE, FALSE) PROVE Fits
  <2>1. l.form = "other" /\ l.begins = 1 /\ l.ends = 0 /\ l.semi = FALSE /\ l.nba = FALSE
    BY <1>3, Zenon DEF Line
  <2> QED
    BY <1>3, <1>0, <2>1, Zenon
<1>4. ASSUME l = Line("other", 0, 0, TRUE, FALSE), block.depth # 0 PROVE Fits
  <2>1. l.form = "other" /\ l.begins = 0 /\ l.ends = 0 /\ l.semi = TRUE /\ l.nba = FALSE
    BY <1>4, Zenon DEF Line
  <2> QED
    BY <1>4, <1>0, <2>1, Zenon
<1>5. ASSUME l = Line("other", 0, 0, FALSE, FALSE), block.depth # 0 PROVE Fits
  <2>1. l.form = "other" /\ l.begins = 0 /\ l.ends = 0 /\ l.semi = FALSE /\ l.nba = FALSE
    BY <1>5, Zenon DEF Line
  <2> QED
    BY <1>5, <1>0, <2>1, Zenon
<1>6. ASSUME l = Line("other", 0, 1, FALSE, FALSE), block.depth # 0, ~block.empty PROVE Fits
  <2>1. l.form = "other" /\ l.begins = 0 /\ l.ends = 1 /\ l.semi = FALSE /\ l.nba = FALSE
    BY <1>6, Zenon DEF Line
  <2> QED
    BY <1>6, <1>0, <2>1, Zenon
<1>7. ASSUME l = Line("other", 1, 1, FALSE, FALSE), block.depth # 0, ~block.empty PROVE Fits
  <2>1. l.form = "other" /\ l.begins = 1 /\ l.ends = 1 /\ l.semi = FALSE /\ l.nba = FALSE
    BY <1>7, Zenon DEF Line
  <2> QED
    BY <1>7, <1>0, <2>1, Zenon
<1> HIDE DEF Fits
<1>8. Fits
  BY <1>1, <1>2, <1>3, <1>4, <1>5, <1>6, <1>7, Zenon
<1> QED
  BY <1>8 DEF Fits

\* As long as no begin or end stands in a string or a block comment, the rewriter
\* counts the keywords of the line.
LEMMA CountsCode ==
  ASSUME RewriteLine, ~quoted'
  PROVE  \E l \in Lines(block), commented \in BOOLEAN :
           /\ comb' = NextComb(l) /\ block' = Enter(block, l)
           /\ spelt' = IF block.kind = "outside" THEN l.form = "comb" /\ l.begins > l.ends ELSE spelt
           /\ line' = [place |-> IF block.kind = "outside" THEN l.form ELSE block.kind,
                       nba |-> l.nba /\ ~commented, rewritten |-> Rewrites(l, commented),
                       spelt |-> block.kind = "comb" /\ spelt]
<1>1. PICK l \in Lines(block), stray \in Strays :
        /\ comb' = NextComb(Code(l, stray)) /\ block' = Enter(block, l)
        /\ spelt' = IF block.kind = "outside" THEN l.form = "comb" /\ l.begins > l.ends ELSE spelt
        /\ line' = [place |-> IF block.kind = "outside" THEN l.form ELSE block.kind,
                    nba |-> l.nba /\ stray[1] # "comment",
                    rewritten |-> Rewrites(Code(l, stray), stray[1] = "comment"),
                    spelt |-> block.kind = "comb" /\ spelt]
        /\ quoted' = (quoted \/ stray[1] = "quoted")
  BY Zenon DEF RewriteLine
<1>2. Code(l, stray) = l
  BY <1>1, Zenon DEF Code
<1> QED
  BY <1>1, <1>2, Zenon

\* A line outside blocks: an always leaves the rewriter and the reader of the
\* RTL in the same block.
LEMMA OutsideStep ==
  ASSUME Tracks, block.kind = "outside", RewriteLine, ~quoted' PROVE Tracks'
<1>1. comb = <<"outside">> /\ comb[1] = "outside" /\ block.depth = 0
  BY DEF Tracks
<1>2. PICK l \in Lines(block), commented \in BOOLEAN :
        /\ comb' = NextComb(l) /\ block' = Enter(block, l)
        /\ spelt' = (l.form = "comb" /\ l.begins > l.ends)
        /\ line' = [place |-> l.form, nba |-> l.nba /\ ~commented,
                    rewritten |-> Rewrites(l, commented), spelt |-> FALSE]
  BY CountsCode, Zenon
<1>3. /\ l.begins \in 0..1 /\ l.ends \in 0..1 /\ l.form \in {"other", "comb", "seq"}
      /\ l.semi \in BOOLEAN /\ l.nba \in BOOLEAN
      /\ l.form = "other" => ~l.nba /\ l.begins = 0 /\ l.ends = 0
      /\ l.semi => l.begins = l.ends
      /\ l.ends = 1 => l.semi
  BY LinesOutside
<1>4. RewriteStaysInCombBlocks'
  <2>1. line'.place = l.form /\ line'.rewritten = Rewrites(l, commented) /\ line'.spelt = FALSE
    BY <1>2
  <2>2. Rewrites(l, commented) => l.form = "comb"
    BY <1>1, <1>3 DEF Rewrites
  <2> QED
    BY <2>1, <2>2 DEF RewriteStaysInCombBlocks
<1>5. CASE l.form = "other" \/ l.semi
  <2>1. block' = block
    BY <1>2, <1>5 DEF Enter
  <2>2. comb' = comb
    BY <1>1, <1>2, <1>3, <1>5 DEF NextComb, NetBegins
  <2>3. spelt' \in BOOLEAN
    BY <1>2
  <2> QED
    BY <1>1, <1>4, <2>1, <2>2, <2>3 DEF Tracks
<1>6. CASE l.form # "other" /\ ~l.semi
  <2>0. l.ends = 0 /\ block.depth + l.begins - l.ends = l.begins
    BY <1>1, <1>3, <1>6
  <2>1. block' = [kind |-> l.form, depth |-> l.begins, empty |-> TRUE] /\ l.ends = 0
    BY <1>2, <1>6, <2>0, Zenon DEF Enter
  <2>2. /\ DOMAIN block' = {"kind", "depth", "empty"} /\ block'.kind = l.form
        /\ block'.depth = l.begins /\ block'.empty = TRUE
    BY <2>1
  <2>3. comb' = IF l.form # "comb" THEN <<"outside">> ELSE IF l.begins = 1 THEN <<"block", 1>> ELSE <<"statement">>
    BY <1>1, <1>2, <1>3, <1>6, <2>1 DEF NextComb, NetBegins
  <2>4. spelt' = (l.form = "comb" /\ l.begins = 1)
    BY <1>2, <1>3, <2>1
  <2>5. l.begins \in {0, 1} /\ 0 \in Nat /\ 1 \in Nat /\ 1 > 0 /\ 0 # 1
    BY <1>3
  <2> QED
    BY <1>3, <1>4, <1>6, <2>2, <2>3, <2>4, <2>5, Zenon DEF Tracks
<1> QED
  BY <1>5, <1>6

\* A line inside a block.
LEMMA InsideStep ==
  ASSUME Tracks, block.kind # "outside", RewriteLine, ~quoted' PROVE Tracks'
<1>1. /\ block.depth \in Nat /\ block.kind \in {"comb", "seq"} /\ block.empty \in BOOLEAN
      /\ DOMAIN block = {"kind", "depth", "empty"} /\ spelt \in BOOLEAN
  BY DEF Tracks
<1>2. PICK l \in Lines(block), commented \in BOOLEAN :
        /\ comb' = NextComb(l) /\ block' = Enter(block, l) /\ spelt' = spelt
        /\ line' = [place |-> block.kind, nba |-> l.nba /\ ~commented,
                    rewritten |-> Rewrites(l, commented), spelt |-> block.kind = "comb" /\ spelt]
  BY CountsCode, Zenon
<1>3. /\ l.begins \in 0..1 /\ l.ends \in 0..1 /\ l.form = "other"
      /\ l.semi \in BOOLEAN /\ l.nba \in BOOLEAN
      /\ l.semi => l.begins = 0 /\ l.ends = 0
      /\ block.depth = 0 => l.ends = 0 /\ (l.semi \/ l.begins = 1)
      /\ l.ends = 1 => ~block.empty
  BY <1>1, LinesInside
<1> DEFINE depth == block.depth + l.begins - l.ends
<1>4. depth \in Nat
  BY <1>1, <1>3
<1>5. RewriteStaysInCombBlocks'
  <2>1. /\ line'.place = block.kind /\ line'.rewritten = Rewrites(l, commented)
        /\ line'.nba = (l.nba /\ ~commented)
        /\ line'.spelt = (block.kind = "comb" /\ spelt)
    BY <1>2
  <2>2. Rewrites(l, commented) = (l.nba /\ comb[1] # "outside" /\ ~commented)
    BY <1>3, Zenon DEF Rewrites
  <2>3. block.kind = "seq" => comb[1] = "outside"
    BY DEF Tracks
  <2>4. block.kind = "comb" /\ spelt => comb[1] = "block"
    BY DEF Tracks
  <2> QED
    BY <1>1, <1>3, <2>1, <2>2, <2>3, <2>4, Zenon DEF RewriteStaysInCombBlocks
<1>6. /\ depth = 0 => block' = [kind |-> "outside", depth |-> 0, empty |-> TRUE]
      /\ depth # 0 => block' = [block EXCEPT !.depth = depth, !.empty = block.empty /\ ~l.semi]
  BY <1>2 DEF Enter
<1>7. /\ DOMAIN block' = {"kind", "depth", "empty"} /\ block'.depth = depth
      /\ depth = 0 => block'.kind = "outside" /\ block'.empty = TRUE
      /\ depth # 0 => block'.kind = block.kind /\ block'.empty = (block.empty /\ ~l.semi)
  <2>1. CASE depth = 0
    BY <1>6, <2>1
  <2>2. CASE depth # 0
    BY <1>1, <1>6, <2>2, Zenon
  <2> QED
    BY <2>1, <2>2, Zenon
<1>8. CASE block.kind = "comb" /\ spelt
  <2>1. block.depth > 0 /\ comb[1] = "block" /\ comb[2] = block.depth
    BY <1>8 DEF Tracks
  <2>2. comb' = IF depth <= 0 THEN <<"outside">> ELSE <<"block", depth>>
    BY <1>1, <1>2, <1>3, <2>1 DEF NextComb, NetBegins
  <2>4. 0 \in Nat /\ (depth # 0 => depth > 0 /\ ~(depth <= 0)) /\ (depth = 0 => depth <= 0)
    BY <1>4
  <2> HIDE DEF depth
  <2> QED
    BY <1>1, <1>2, <1>4, <1>5, <1>7, <1>8, <2>2, <2>4, Zenon DEF Tracks
<1>9. CASE block.kind = "comb" /\ ~spelt /\ block.empty
  <2>1. comb = <<"statement">> /\ comb[1] = "statement"
    BY <1>9 DEF Tracks
  <2>2. comb' = IF l.semi THEN <<"outside">> ELSE <<"statement">>
    BY <1>2, <2>1 DEF NextComb
  <2>3. depth = 0 => l.semi
    BY <1>1, <1>3, <1>9
  <2>4. 0 \in Nat /\ (depth # 0 => depth > 0 /\ ~(depth <= 0))
    BY <1>4
  <2> HIDE DEF depth
  <2> QED
    BY <1>1, <1>2, <1>4, <1>5, <1>7, <1>9, <2>2, <2>3, <2>4, Zenon DEF Tracks
<1>10. CASE block.kind = "seq" \/ (block.kind = "comb" /\ ~spelt /\ ~block.empty)
  <2>1. comb = <<"outside">> /\ comb[1] = "outside"
    BY <1>10 DEF Tracks
  <2>2. comb' = <<"outside">>
    BY <1>2, <1>3, <2>1 DEF NextComb
  <2>4. 0 \in Nat /\ (depth # 0 => depth > 0 /\ ~(depth <= 0))
    BY <1>4
  <2> HIDE DEF depth
  <2> QED
    BY <1>1, <1>2, <1>4, <1>5, <1>7, <1>10, <2>2, <2>4, Zenon DEF Tracks
<1> QED
  BY <1>1, <1>8, <1>9, <1>10

\* For blocks nested to any depth, the rewriter of combinational blocks changes
\* no assignment outside one, and every assignment of a block that opens on the
\* line of its always (rewrite_combinational_nba), unless a begin or an end in a
\* string or a block comment comes before it.
THEOREM RewriteCorrect == ScanSpec => []RewriteStaysInCombBlocks
<1>1. ScanInit => quoted \/ Tracks
  <2> SUFFICES ASSUME ScanInit PROVE Tracks
    OBVIOUS
  <2>1. DOMAIN block = {"kind", "depth", "empty"} /\ block.kind = "outside" /\ block.depth = 0
    BY DEF ScanInit
  <2>2. block.empty = TRUE /\ spelt = FALSE /\ comb = <<"outside">>
    BY Zenon DEF ScanInit
  <2>3. line.rewritten = FALSE /\ line.spelt = FALSE
    BY Zenon DEF ScanInit
  <2>4. 0 \in Nat /\ "outside" # "comb"
    OBVIOUS
  <2>5. RewriteStaysInCombBlocks
    BY <2>3, Zenon DEF RewriteStaysInCombBlocks
  <2> QED
    BY <2>1, <2>2, <2>4, <2>5, Zenon DEF Tracks
<1>2. (quoted \/ Tracks) /\ [RewriteLine]_scanVars => (quoted \/ Tracks)'
  <2>1. ASSUME Tracks, UNCHANGED scanVars PROVE Tracks'
    BY <2>1 DEF Tracks, scanVars, RewriteStaysInCombBlocks
  <2>2. ASSUME quoted, [RewriteLine]_scanVars PROVE quoted'
    BY <2>2, Zenon DEF RewriteLine, scanVars
  <2> QED
    BY <2>1, <2>2, OutsideStep, InsideStep, Zenon
<1>3. quoted \/ Tracks => RewriteStaysInCombBlocks
  BY DEF Tracks, RewriteStaysInCombBlocks
<1> QED
  BY <1>1, <1>2, <1>3, PTL DEF ScanSpec
=============================================================================
