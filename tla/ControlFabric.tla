---------------------------- MODULE ControlFabric ----------------------------
(***************************************************************************)
(* What the generated top level does, clock by clock: the controllers that *)
(* start its tasks and wait for them, the registers their signals cross    *)
(* slots in, the reset of all of it, and a stream between two tasks.       *)
(*                                                                         *)
(* Two styles are generated.  "fsm": one state machine per upper task and  *)
(* one per child (tapa-codegen program.rs, passes/children/fsm.rs).        *)
(* "fabric": the controllers of assets/verilog/tapa_control.v with the     *)
(* pipelines passes/distributed_control.rs puts between them.              *)
(*                                                                         *)
(* A design is [style, leaves, scopes, owner, autorun, launch, completion, *)
(* store, from, to, words, early, held].  A unit is a leaf task or a scope *)
(* (an upper task that has a controller of its own); owner maps each to    *)
(* the scope that starts it, or to Root.  launch and completion count the  *)
(* registers of its routes, none when it sits with the global controller;  *)
(* the Reset route is its Launch route.  store is the storage of the       *)
(* stream from one leaf to another (StreamStorage), <<>> without one; its  *)
(* words are numbered modulo words.  early: tasks may give ready before    *)
(* done; held: the host keeps ap_start high until ready.                   *)
(***************************************************************************)
EXTENDS StreamStorage, FiniteSets, FiniteSetsExt

CONSTANTS Designs,    \* the designs a behaviour may be about
          MaxResets   \* the clock cycles the host holds the kernel in reset

ASSUME ResetsAssumption == MaxResets \in Nat

VARIABLES design,
          rstN,       \* ap_rst_n in this cycle
          apStart,    \* ap_start in this cycle
          ctl,        \* controller -> [state, flush, pending, armed]
          loc,        \* unit -> state of its local controller (or child FSM)
          pipe,       \* unit -> [launch, reset, done]: the registers of its routes
          leaf,       \* leaf -> "idle", "busy", "drain" (ready given, done not yet)
          fifo,       \* the registers of the stream's storage
          resets,     \* cycles in reset so far
          sent,       \* history: words written since the reset and not yet read
          next,       \* history: the number of the next word
          ran,        \* history: leaf -> runs begun for the current request
          credit      \* history: requests seen and not yet launched

registers == <<ctl, loc, pipe, leaf, fifo>>
fabricVars == <<design, rstN, apStart, ctl, loc, pipe, leaf, fifo, resets, sent, next, ran, credit>>

Root == "root"
FabricUnits == design.leaves \cup design.scopes
Controllers == design.scopes \cup {Root}
FabricChildren(k) == {u \in FabricUnits : design.owner[u] = k}
Joined(k) == {u \in FabricChildren(k) : ~design.autorun[u]}
Fabric == design.style = "fabric"
Streaming == design.store # <<>>
-----------------------------------------------------------------------------
(* The wires of a cycle *)

\* A pipeline is its registers, nearest the driver first (tapa_control_pipeline);
\* without one the two ends are one wire.
FarEnd(regs, in) == IF regs = <<>> THEN in ELSE regs[Len(regs)]
Shift(regs, in) == IF regs = <<>> THEN <<>> ELSE <<in>> \o SubSeq(regs, 1, Len(regs) - 1)

\* flush_cycles: a reset reaches a child and its last completion comes back, or
\* its last word arrives.
ResetFlush(d) ==
  LET reset == Max({d.launch[u] : u \in d.leaves})
      data == IF d.store # <<>> /\ Piped(d.store[1]) THEN d.store[1].body + 2 ELSE 0
  IN Max({d.launch[u] + d.completion[u] : u \in d.leaves} \cup {reset + data})

\* child_start
StartOf(u) == IF design.autorun[u] THEN loc[u] = "LATCHED" ELSE loc[u] = "RUNNING"
Completion(u) == ~design.autorun[u] /\ loc[u] = "DONE"
ChildDone(u) == FarEnd(pipe[u].done, Completion(u))
ChildrenDone(k) == \A u \in Joined(k) : ChildDone(u)
ChildrenClear(k) == \A u \in Joined(k) : ~ChildDone(u)

ApStart(k) == IF k = Root THEN apStart ELSE StartOf(k)
ApDone(k) == ctl[k].state = "DONE"     \* ap_ready as well
FlushDone(k) == ctl[k].flush = 0
AcceptStart(k) ==
  /\ ctl[k].state = "IDLE" /\ FlushDone(k)
  /\ ApStart(k) \/ ctl[k].pending
  /\ Fabric => ChildrenClear(k)
\* launch_start and launch_release; start_q and done_q of the state machines
LaunchInput(k) ==
  IF Fabric THEN [start |-> AcceptStart(k), release |-> ctl[k].state = "RELEASING"]
  ELSE [start |-> ApStart(k), release |-> ApDone(k)]
LaunchOutput(u) == FarEnd(pipe[u].launch, LaunchInput(design.owner[u]))
ResetN(u) == FarEnd(pipe[u].reset, rstN)
\* fabric_reset_n: what the storage of the streams is reset by.
StorageResetN == rstN /\ FlushDone(Root)
-----------------------------------------------------------------------------
(* The registers *)

\* apply_global_fsm
FsmStep(k) ==
  LET c == ctl[k] IN
  [c EXCEPT !.state = CASE ~rstN -> "IDLE"
                        [] rstN /\ @ = "IDLE" /\ ApStart(k) -> "RUNNING"
                        [] rstN /\ @ = "RUNNING" /\ ChildrenDone(k) -> "DONE"
                        [] rstN /\ @ = "DONE" -> "IDLE"
                        [] OTHER -> @]

Flush(k) == IF k = Root /\ Fabric THEN ResetFlush(design) ELSE 0
InitController(k) == [state |-> "IDLE", flush |-> Flush(k), pending |-> FALSE, armed |-> TRUE]
\* The request is taken: what is still high of it is not a new one.
Rearm(k, c) == IF AcceptStart(k) THEN [c EXCEPT !.pending = FALSE, !.armed = ~ApStart(k)] ELSE c
\* Mutant: a request during the flush is not remembered.
RememberMutant(k, c) ==
  CASE ~ApStart(k) -> [c EXCEPT !.armed = TRUE]
    [] ApStart(k) /\ c.armed /\ FlushDone(k) -> [c EXCEPT !.pending = TRUE, !.armed = FALSE]
    [] OTHER -> c
Remember(k, c) ==
  CASE ~ApStart(k) -> [c EXCEPT !.armed = TRUE]
    [] ApStart(k) /\ c.armed -> [c EXCEPT !.pending = TRUE, !.armed = FALSE]
    [] OTHER -> c
\* tapa_global_controller
ControllerStep(k) ==
  LET c == ctl[k]
      state == CASE AcceptStart(k) -> "RUNNING"
                 [] c.state = "RUNNING" /\ ChildrenDone(k) -> "RELEASING"
                 [] c.state = "RELEASING" /\ ChildrenClear(k) -> "DONE"
                 [] c.state = "DONE" -> "IDLE"
                 [] OTHER -> c.state
  IN CASE ~rstN -> InitController(k)
       [] rstN /\ ~FlushDone(k) -> [Remember(k, c) EXCEPT !.flush = @ - 1]
       [] OTHER -> [Rearm(k, Remember(k, c)) EXCEPT !.state = state]

\* Mutant: ready before done is overlooked.
LocStepMutant(u, ready, done) ==
  LET launch == LaunchOutput(u)
      autorun == design.autorun[u]
  IN CASE ~ResetN(u) -> "IDLE"
       [] ResetN(u) /\ autorun /\ launch.start -> "LATCHED"
       [] ResetN(u) /\ ~autorun /\ loc[u] = "IDLE" /\ launch.start -> "RUNNING"
       [] ResetN(u) /\ loc[u] = "RUNNING" /\ ready /\ done -> "DONE"
       [] ResetN(u) /\ loc[u] = "DONE" /\ launch.release -> "IDLE"
       [] OTHER -> loc[u]
\* generate_autorun_start, generate_child_fsm; tapa_local_controller
LocStep(u, ready, done) ==
  LET launch == LaunchOutput(u)
      autorun == design.autorun[u]
  IN CASE ~ResetN(u) -> "IDLE"
       [] ResetN(u) /\ autorun /\ launch.start -> "LATCHED"
       [] ResetN(u) /\ ~autorun /\ loc[u] = "IDLE" /\ launch.start -> "RUNNING"
       [] ResetN(u) /\ loc[u] = "RUNNING" /\ ready -> IF done THEN "DONE" ELSE "WAITING"
       [] ResetN(u) /\ loc[u] = "WAITING" /\ done -> "DONE"
       [] ResetN(u) /\ loc[u] = "DONE" /\ launch.release -> "IDLE"
       [] OTHER -> loc[u]

PipeStep(u) ==
  [launch |-> Shift(pipe[u].launch, LaunchInput(design.owner[u])),
   reset |-> Shift(pipe[u].reset, rstN),
   done |-> Shift(pipe[u].done, Completion(u))]
-----------------------------------------------------------------------------
(* The tasks and the host, external *)

\* A leaf obeys ap_ctrl_hs: started while idle, it gives ready, and done then
\* or later.
Begins(l) == leaf[l] = "idle" /\ StartOf(l)
Running(l) == leaf[l] # "idle" \/ StartOf(l)
Outputs(l) ==
  CASE leaf[l] = "drain" -> {[ready |-> FALSE, done |-> FALSE], [ready |-> FALSE, done |-> TRUE]}
    [] leaf[l] # "drain" /\ Running(l) ->
         {[ready |-> FALSE, done |-> FALSE], [ready |-> TRUE, done |-> TRUE]} \cup
           (IF design.early THEN {[ready |-> TRUE, done |-> FALSE]} ELSE {})
    [] OTHER -> {[ready |-> FALSE, done |-> FALSE]}
LeafStep(l, out) ==
  CASE ~ResetN(l) \/ out.done -> "idle"
    [] ResetN(l) /\ out.ready /\ ~out.done -> "drain"
    [] ResetN(l) /\ ~out.ready /\ Running(l) /\ leaf[l] # "drain" -> "busy"
    [] OTHER -> leaf[l]

\* The host may raise ap_start at any time and drop it at any time; the AXI-Lite
\* register drops it when it is ready, and in reset.
Host ==
  /\ apStart' \in (CASE ApDone(Root) \/ ~rstN -> {FALSE}
                      [] ~ApDone(Root) /\ rstN /\ apStart /\ design.held -> {TRUE}
                      [] OTHER -> BOOLEAN)
  /\ rstN' \in (IF resets < MaxResets THEN BOOLEAN ELSE {TRUE})
  /\ resets' = IF rstN' THEN resets ELSE resets + 1
-----------------------------------------------------------------------------
FabricInit ==
  /\ design \in Designs
  /\ rstN \in (IF Fabric THEN BOOLEAN ELSE {FALSE})
  /\ apStart = FALSE /\ resets = 0
  /\ ctl = [k \in Controllers |-> InitController(k)]
  /\ loc = [u \in FabricUnits |-> "IDLE"]
  /\ pipe = [u \in FabricUnits |->
               [launch |-> [i \in 1..design.launch[u] |-> [start |-> FALSE, release |-> FALSE]],
                reset |-> [i \in 1..design.launch[u] |-> FALSE],
                done |-> [i \in 1..design.completion[u] |-> FALSE]]]
  /\ leaf = [l \in design.leaves |-> "idle"]
  /\ fifo \in (IF Streaming THEN InitStores(design.store[1]) ELSE {<<>>})
  /\ sent = <<>> /\ next = 0
  /\ ran = [l \in design.leaves |-> 0]
  /\ credit = 0

\* The stream in one cycle.
StreamStep(write, read) ==
  LET st == design.store[1]
      shown == Shown(st, fifo, write, next)
  IN /\ write => Running(design.from) /\ FullN(st, fifo)
     /\ read => Running(design.to) /\ shown # <<>>
     /\ fifo' = StoreStep(st, fifo, ~StorageResetN, write, next, read)
     /\ next' = IF ~StorageResetN THEN 0 ELSE IF write THEN (next + 1) % design.words ELSE next
     /\ sent' = IF ~StorageResetN THEN <<>>
                ELSE LET in == IF write THEN Append(sent, next) ELSE sent
                     IN IF read /\ in # <<>> THEN Tail(in) ELSE in

\* One clock edge: every register takes its next value at once.  done is the
\* set of leaves that finish in this cycle, ready of those that give ready.
Clock(out) ==
  /\ \A l \in design.leaves : out[l] \in Outputs(l)
  /\ IF Streaming THEN \E write, read \in BOOLEAN : StreamStep(write, read)
     ELSE UNCHANGED <<fifo, sent, next>>
  /\ Host
  /\ ctl' = [k \in Controllers |-> IF Fabric THEN ControllerStep(k) ELSE FsmStep(k)]
  /\ loc' = [u \in FabricUnits |-> IF u \in design.leaves THEN LocStep(u, out[u].ready, out[u].done)
                             ELSE LocStep(u, ApDone(u), ApDone(u))]
  /\ pipe' = [u \in FabricUnits |-> PipeStep(u)]
  /\ leaf' = [l \in design.leaves |-> LeafStep(l, out[l])]
  /\ ran' = [l \in design.leaves |->
               CASE AcceptStart(Root) \/ ~StorageResetN -> 0
                 [] Begins(l) /\ ran[l] < 2 /\ ~(AcceptStart(Root) \/ ~StorageResetN) -> ran[l] + 1
                 [] OTHER -> ran[l]]
  /\ credit' = LET risen == credit + (IF apStart' /\ (~apStart \/ ~rstN) THEN 1 ELSE 0)
                   taken == risen - (IF AcceptStart(Root) THEN 1 ELSE 0)
               IN CASE ~rstN -> IF apStart' THEN 1 ELSE 0
                    [] rstN /\ ctl[Root].state = "IDLE" /\ ~apStart /\ ~ctl[Root].pending ->
                         IF apStart' THEN 1 ELSE 0
                    [] OTHER -> Min({taken, 2})
  /\ UNCHANGED design

LeafOutputs == [design.leaves -> UNION {Outputs(l) : l \in design.leaves}]
FabricNext == \E out \in LeafOutputs : Clock(out)

\* The clock does not stop while a register can still change (the host need not
\* ask for anything), and no task runs forever.
TasksFinish == \A l \in UNION {d.leaves : d \in Designs} : []<>(leaf[l] = "idle")
FabricSpec == FabricInit /\ [][FabricNext]_fabricVars
FairSpec == FabricSpec /\ WF_registers(FabricNext) /\ TasksFinish
-----------------------------------------------------------------------------
(* Properties *)

\* A unit every request waits for: neither it nor a scope it is in is autorun.
Awaited[u \in FabricUnits \cup {Root}] ==
  u = Root \/ (~design.autorun[u] /\ Awaited[design.owner[u]])

\* Done means done: when the kernel reports a request finished, every task that
\* is not autorun has been started exactly once for it and has finished
\* (tapa_global_controller waits for every completion and its release).
DoneMeansEveryTaskRanOnce ==
  ApDone(Root) => \A l \in design.leaves : Awaited[l] => ran[l] = 1 /\ leaf[l] = "idle"

\* No task runs without a request: out of reset, a task runs only between a
\* launch and its end, whatever was in the pipelines when the reset came
\* (FLUSH_CYCLES of tapa_control.v).
TasksRunUnderALaunch ==
  StorageResetN => \A l \in design.leaves : Awaited[l] /\ Running(l) => ctl[Root].state = "RUNNING"

\* A request is launched once: an ap_start that stays high until the kernel is
\* ready does not start it twice (start_armed, pending_start).
HeldStartLaunchesOnce == credit >= 0

\* A request runs every task it should, once, and no task runs but for one.
LaunchesAreExact == DoneMeansEveryTaskRanOnce /\ TasksRunUnderALaunch /\ HeldStartLaunchesOnce

\* A stream delivers what was written since the reset, each word once and in
\* order: nothing is lost between a full store and a producer that hears of it
\* late, and no word of before the reset is left (GRACE_PERIOD, FLUSH_CYCLES).
StreamHoldsWhatWasSent ==
  Streaming /\ StorageResetN => Content(design.store[1], fifo) = sent

\* A stream is as deep as it was asked to be: with fewer words in it, the
\* producer is let in again (REAL_DEPTH, floorplanned_fifo_storage_depth).
DepthIsKept ==
  LET room == IF Streaming THEN Len(sent) < design.store[1].depth ELSE FALSE
      open == IF Streaming THEN FullN(design.store[1], fifo) ELSE TRUE
  IN room ~> (open \/ ~room)

\* A request is answered, if no reset comes.  One that is raised while the fabric
\* is flushed, runs or releases its tasks is remembered, however short its
\* pulse, and launched in its turn; a state machine sees only those raised
\* while it is idle.  Every launch ends with done.
RequestIsAnswered ==
  /\ Fabric /\ apStart /\ ctl[Root].armed /\ rstN ~> AcceptStart(Root) \/ ~rstN
  /\ AcceptStart(Root) /\ rstN ~> ApDone(Root) \/ ~rstN

\* Neither a request nor a word that has room waits for ever.
FabricMakesProgress == RequestIsAnswered /\ DepthIsKept
=============================================================================
