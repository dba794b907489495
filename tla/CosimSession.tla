---------------------------- MODULE CosimSession ----------------------------
(***************************************************************************)
(* Host processes that co-simulate kernels side by side: what CosimDevice  *)
(* (frt/src/cosim/mod.rs), its context (frt-cosim/src/context.rs) and its  *)
(* runners (frt-cosim/src/runner) do to the shared-memory segments, the    *)
(* work directories and the Verilator build lock of one machine, and the   *)
(* simulators they start.                                                  *)
(*                                                                         *)
(* A process makes one co-simulation, [package, sim, mode, work, scalar,   *)
(* bytes, queue]: run, or setup followed by a simulation by hand and a     *)
(* resume in the same work directory, with the value, size and queue it    *)
(* binds to each scalar, buffer and stream, if any.  It may die at any     *)
(* point.  A segment is named by its creator, the argument it is for and a *)
(* serial number, and so unique.  What no process can reach any more, the *)
(* leaked segments and the simulator of a process that died and the files  *)
(* in a directory of its own, is not kept.                                 *)
(***************************************************************************)
EXTENDS CosimTestbench, RtlPatch

CONSTANTS
  Procs,          \* host processes
  Packages,       \* a function from package names to packages
  Sessions,       \* the co-simulations a process may make
  None            \* no process

Manual == "by hand"
Fixed == "fixed"
ASSUME SessionAssumption ==
  /\ {None, Fixed, Manual} \cap Procs = {}
  /\ \A s \in Sessions : /\ s.package \in DOMAIN Packages
                         /\ s.sim \in {"verilator", "xsim"}
                         /\ s.mode \in {"run", "setup", "resume"}
                         /\ s.work \in {"temp", "fixed", "parallel"}
                         /\ Len(s.scalar) <= 1 /\ Len(s.bytes) <= 1

VARIABLES
  proc,    \* each process: its session, next step, device and bindings
  shm,     \* the segments that exist: their size by name
  dirs,    \* each work directory: for Verilator tb.cpp, rtl, obj_dir and the binary,
           \* for Vivado the testbench and script, and dpi_config.json
  lock,    \* the process that holds the build lock
  sims     \* each process's simulator, and the one started by hand
sessionVars == <<proc, shm, dirs, lock, sims>>

Loaded == [n \in DOMAIN Packages |-> LoadSpec(Packages[n])]
SpecOf(p) == Loaded[proc[p].session.package][1]

\* The arguments of a kind, by position and by name.
Positions(spec, kind) == {i \in DOMAIN spec.args : spec.args[i].kind = kind}
Names(spec, kind) == {spec.args[i].name : i \in Positions(spec, kind)}
Position(spec, kind, name) == CHOOSE i \in Positions(spec, kind) : spec.args[i].name = name

\* make_tb_dir: the directory that was named, or one of its own.
Dir(p, session) == IF session.work = "fixed" THEN Fixed ELSE p
DirOf(p) == Dir(p, proc[p].session)

EmptyDir == [tb |-> <<>>, rtl |-> <<>>, obj |-> <<>>, bin |-> <<>>, sv |-> <<>>, tcl |-> <<>>,
             config |-> <<>>]
NoSim == [state |-> "none", bin |-> <<>>, config |-> <<>>]

Active(p) == proc[p].pc \notin {"start", "ended"}
Live(s) == sims[s].state \in {"compiling", "starting", "running"}

SessionInit ==
  /\ proc = [p \in Procs |-> [pc |-> "start"]]
  /\ shm = <<>>
  /\ dirs = [d \in Procs \cup {Fixed} |-> EmptyDir]
  /\ lock = None
  /\ sims = [s \in Procs \cup {Manual} |-> NoSim]

Paths(config) ==
  {config.bufs[n].path : n \in DOMAIN config.bufs} \cup {config.strs[n].path : n \in DOMAIN config.strs}

\* The segments that a recorded configuration names.
Recorded == UNION {Paths(c) : c \in UNION {Range(dirs[d].config) : d \in DOMAIN dirs}}

End(p, how) ==
  proc' = [proc EXCEPT ![p] = [session |-> proc[p].session, pc |-> "ended", result |-> how]]

\* A process dies: its lock is released, and its segments stay.  Only those a
\* recorded configuration names can be reached again; the others, which no
\* later step depends on, are left out of the state.
Die(p, how) ==
  /\ End(p, how)
  /\ shm' = [f \in {g \in DOMAIN shm : g[1] # p \/ g \in Recorded} |-> shm[f]]
  /\ dirs' = [dirs EXCEPT ![p] = EmptyDir]
  /\ sims' = [sims EXCEPT ![p] = NoSim]
  /\ lock' = IF lock = p THEN None ELSE lock
-----------------------------------------------------------------------------
(* CosimDevice::open *)

\* The base address of the i-th mmap, 0x1000_0000 * i, and its eight bytes.
BaseBytes(i) == <<0, 0, 0, (16 * i) % 256, (16 * i) \div 256, 0, 0, 0>>

Owned(p) == {f \in DOMAIN shm : f[1] = p}
WithFiles(files) == [f \in DOMAIN shm \cup DOMAIN files |->
                       IF f \in DOMAIN files THEN files[f] ELSE shm[f]]
Without(files) == [f \in DOMAIN shm \ files |-> shm[f]]
PlaceholderBufferBytes == 1

\* A segment or queue that p creates for one of its arguments.
Segment(p, kind, name, serial) == <<p, kind, name, serial>>

\* CosimContext::new: a placeholder segment for each mmap, a queue for each
\* stream.
MmapIndex(spec, name) ==
  Cardinality({i \in Positions(spec, "Mmap") : i <= Position(spec, "Mmap", name)})
StreamBytes(spec, name) == DivCeil(spec.args[Position(spec, "Stream", name)].width, 8) + 1
NewContext(p, spec) ==
  [bufs |-> [n \in Names(spec, "Mmap") |-> [path |-> Segment(p, "Mmap", n, 0),
                                            base |-> BaseBytes(MmapIndex(spec, n))]],
   strs |-> [n \in Names(spec, "Stream") |-> [path |-> Segment(p, "Stream", n, 0),
                                              queue |-> Segment(p, "Stream", n, 0),
                                              width |-> StreamBytes(spec, n)]]]

NewFiles(p, spec) ==
  [f \in {Segment(p, "Mmap", n, 0) : n \in Names(spec, "Mmap")}
           \cup {Segment(p, "Stream", n, 0) : n \in Names(spec, "Stream")} |->
     IF f[2] = "Mmap" THEN PlaceholderBufferBytes
     ELSE StreamBytes(spec, f[3]) * spec.args[Position(spec, "Stream", f[3])].depth]

\* open_from_config and validate_resume_stream_bindings: every mmap has a
\* segment that exists, and every stream is recorded.
Resumable(spec, config) ==
  /\ \A n \in Names(spec, "Mmap") :
       n \in DOMAIN config.bufs /\ config.bufs[n].path \in DOMAIN shm
  /\ Names(spec, "Stream") \subseteq DOMAIN config.strs

Opened(p, s, ctx) ==
  [session |-> s, pc |-> "bind", ctx |-> ctx, serial |-> 0, next |-> 1, scalars |-> <<>>,
   result |-> "none", kept |-> DOMAIN dirs[Dir(p, s)].rtl,
   alone |-> \A q \in Procs \ {p} : ~(Active(q) /\ DirOf(q) = Dir(p, s))]

\* Two processes in one directory at a time are not alone in it.
Beside(p, s, q) == q # p /\ Active(q) /\ DirOf(q) = Dir(p, s)

Open(p) ==
  /\ proc[p].pc = "start"
  /\ \E s \in Sessions :
       LET spec == Loaded[s.package]
           config == dirs[Dir(p, s)].config
           failed == [session |-> s, pc |-> "ended", result |-> "refused"]
           seen == [q \in Procs |-> IF Beside(p, s, q) THEN [proc[q] EXCEPT !.alone = FALSE]
                                    ELSE proc[q]]
       IN IF spec = <<>> THEN proc' = [proc EXCEPT ![p] = failed] /\ UNCHANGED shm
          ELSE IF s.mode # "resume"
          THEN /\ proc' = [seen EXCEPT ![p] = Opened(p, s, NewContext(p, spec[1]))]
               /\ shm' = WithFiles(NewFiles(p, spec[1]))
          ELSE IF config # <<>> /\ Resumable(spec[1], config[1])
          THEN /\ proc' = [seen EXCEPT ![p] =
                     Opened(p, s, [bufs |-> [n \in Names(spec[1], "Mmap") |-> config[1].bufs[n]],
                                   strs |-> <<>>])]
               /\ UNCHANGED shm
          ELSE proc' = [proc EXCEPT ![p] = failed] /\ UNCHANGED shm
  /\ UNCHANGED <<dirs, lock, sims>>
-----------------------------------------------------------------------------
(* The host binds the arguments in order; it may leave one unbound. *)

Arg(p) == SpecOf(p).args[proc[p].next]
Binding(p, kind) ==
  /\ proc[p].pc = "bind" /\ proc[p].next \in DOMAIN SpecOf(p).args
  /\ Arg(p).kind = kind

SetScalarArg(p) ==
  /\ Binding(p, "Scalar")
  /\ LET v == proc[p].session.scalar
     IN proc' = [proc EXCEPT ![p].next = @ + 1,
                   ![p].scalars = IF v = <<>> THEN @ ELSE (Arg(p).id :> v[1]) @@ @]
  /\ UNCHANGED <<shm, dirs, lock, sims>>

Unlinked(p) == {proc[p].ctx.bufs[Arg(p).name].path} \cap Owned(p)

\* set_buffer_arg: a new segment of the right size, never empty, takes the
\* place of the old one, which is unlinked if this process created it.
SetBufferArg(p) ==
  /\ Binding(p, "Mmap")
  /\ LET file == Segment(p, "Mmap", Arg(p).name, proc[p].serial + 1)
         bytes == proc[p].session.bytes
         files == WithFiles([f \in {file} |-> IF bytes = <<0>> THEN 1 ELSE bytes[1]])
     IN IF bytes = <<>> THEN proc' = [proc EXCEPT ![p].next = @ + 1] /\ UNCHANGED shm
        ELSE /\ shm' = [f \in DOMAIN files \ Unlinked(p) |-> files[f]]
             /\ proc' = [proc EXCEPT ![p].next = @ + 1, ![p].serial = @ + 1,
                                     ![p].ctx.bufs[Arg(p).name].path = file]
  /\ UNCHANGED <<dirs, lock, sims>>

\* set_stream_arg: the queue of the host program, by its path; a resumed
\* simulation has none to bind.
HostQueue(p) == <<p>>
SetStreamArg(p) ==
  /\ Binding(p, "Stream")
  /\ proc' = [proc EXCEPT ![p].next = @ + 1,
       ![p].ctx.strs = IF proc[p].session.queue /\ Arg(p).name \in DOMAIN @
                       THEN [@ EXCEPT ![Arg(p).name].path = HostQueue(p)] ELSE @]
  /\ shm' = IF proc[p].session.queue THEN WithFiles([f \in {HostQueue(p)} |-> 1]) ELSE shm
  /\ UNCHANGED <<dirs, lock, sims>>

\* A buffer or stream bound to an argument of another kind ends the program.
BindMismatch(p) ==
  /\ proc[p].pc = "bind" /\ Die(p, "failed")
-----------------------------------------------------------------------------
(* exec: prepare *)

\* The configuration the simulator reads (dpi_config_json).
Config(p) == proc[p].ctx

Sizes(p) == [n \in DOMAIN proc[p].ctx.bufs |-> shm[proc[p].ctx.bufs[n].path]]
Bases(p) == [n \in DOMAIN proc[p].ctx.bufs |-> proc[p].ctx.bufs[n].base]
Plan(p) == RenderTb(SpecOf(p), proc[p].session.sim, proc[p].scalars, Bases(p), Sizes(p))

Goto(p, pc) == proc' = [proc EXCEPT ![p].pc = pc]
Go(p, pc) == Goto(p, pc) /\ UNCHANGED lock

\* A resumed simulation is over; otherwise the testbench is rendered.
Exec(p) ==
  /\ proc[p].pc = "bind" /\ proc[p].next = Len(SpecOf(p).args) + 1
  /\ IF proc[p].session.mode # "resume" /\ Plan(p) = <<>> THEN Die(p, "failed")
     ELSE /\ IF proc[p].session.mode = "resume" THEN Go(p, "finish") /\ UNCHANGED dirs
             ELSE IF proc[p].session.sim = "verilator"
             THEN dirs' = [dirs EXCEPT ![DirOf(p)].tb = Plan(p)] /\ Go(p, "copy")
             ELSE dirs' = [dirs EXCEPT ![DirOf(p)].sv = Plan(p)] /\ Go(p, "tcl")
          /\ UNCHANGED <<shm, sims>>

\* The packaged files by name; of two with one name the later one stays.
RtlFiles(files) ==
  [n \in {files[i].file : i \in DOMAIN files} |->
     Final(SelectSeq(files, LAMBDA e : e.file = n)).body]

\* VerilatorRunner::prepare: the files go over what the directory holds.
CopyRtl(p) ==
  /\ proc[p].pc = "copy"
  /\ LET new == RtlFiles(SpecOf(p).verilog \o SpecOf(p).tcl)
         old == dirs[DirOf(p)].rtl
     IN dirs' = [dirs EXCEPT ![DirOf(p)].rtl =
                   [n \in DOMAIN new \cup DOMAIN old |-> IF n \in DOMAIN new THEN new[n] ELSE old[n]]]
  /\ Go(p, "patch")
  /\ UNCHANGED <<shm, sims>>

\* generate_xilinx_ip_models and fix_combinational_nba over the directory.
PatchRtl(p) ==
  /\ proc[p].pc = "patch"
  /\ LET rtl == dirs[DirOf(p)].rtl
     IN IF ModelsFail(rtl) THEN Die(p, "failed")
        ELSE /\ dirs' = [dirs EXCEPT ![DirOf(p)].rtl = WithModels(rtl)]
             /\ Go(p, "prepared") /\ UNCHANGED <<shm, sims>>

\* XsimRunner::prepare: the script names the package's extracted files.
WriteTcl(p) ==
  /\ proc[p].pc = "tcl"
  /\ dirs' = [dirs EXCEPT ![DirOf(p)].tcl = RtlFiles(SpecOf(p).verilog \o SpecOf(p).tcl)]
  /\ Go(p, "prepared")
  /\ UNCHANGED <<shm, sims>>

\* A setup-only run records its configuration and is finished.
RecordConfig(p) ==
  /\ proc[p].pc = "prepared" /\ proc[p].session.mode = "setup"
  /\ dirs' = [dirs EXCEPT ![DirOf(p)].config = <<Config(p)>>]
  /\ Go(p, "finish")
  /\ UNCHANGED <<shm, sims>>
-----------------------------------------------------------------------------
(* exec: spawn *)

Start(p, state, bin) ==
  sims' = [sims EXCEPT ![p] = [state |-> state, bin |-> bin, config |-> <<Config(p)>>]]

\* VerilatorBuildGate::acquire, an flock
AcquireGate(p) ==
  /\ proc[p].pc = "prepared" /\ proc[p].session.mode = "run" /\ proc[p].session.sim = "verilator"
  /\ lock = None /\ lock' = p
  /\ Goto(p, "verilate")
  /\ UNCHANGED <<shm, dirs, sims>>

\* verilator, then make; either may fail, and the gate is released.
Verilate(p) ==
  /\ proc[p].pc = "verilate"
  /\ \/ Die(p, "failed")
     \/ /\ dirs' = [dirs EXCEPT ![DirOf(p)].obj = dirs[DirOf(p)].rtl]
        /\ Go(p, "make") /\ UNCHANGED <<shm, sims>>

Make(p) ==
  /\ proc[p].pc = "make"
  /\ \/ Die(p, "failed")
     \/ /\ dirs' = [dirs EXCEPT ![DirOf(p)].bin =
                      <<[tb |-> dirs[DirOf(p)].tb[1], rtl |-> dirs[DirOf(p)].obj]>>]
        /\ Go(p, "launch") /\ UNCHANGED <<shm, sims>>

\* Mutant: the gate stays held until the simulation is over.
LaunchMutant(p) ==
  /\ proc[p].pc = "launch"
  /\ Start(p, "starting", dirs[DirOf(p)].bin)
  /\ Go(p, "finish")
  /\ UNCHANGED <<shm, dirs>>

Launch(p) ==
  /\ proc[p].pc = "launch"
  /\ Start(p, "starting", dirs[DirOf(p)].bin)
  /\ lock' = None /\ Goto(p, "finish")
  /\ UNCHANGED <<shm, dirs>>

\* XsimRunner::spawn: Vivado compiles and elaborates before it simulates.
LaunchVivado(p) ==
  /\ proc[p].pc = "prepared" /\ proc[p].session.mode = "run" /\ proc[p].session.sim = "xsim"
  /\ Start(p, "compiling", <<>>) /\ Go(p, "finish")
  /\ UNCHANGED <<shm, dirs>>
-----------------------------------------------------------------------------
(* The simulators, external *)

SimDir(s) == IF s = Manual THEN Fixed ELSE DirOf(s)

\* A user runs by hand the script a setup run left behind.
SimulateByHand ==
  /\ sims[Manual].state = "none" /\ dirs[Fixed].config # <<>> /\ dirs[Fixed].sv # <<>>
  /\ sims' = [sims EXCEPT ![Manual] =
                [state |-> "compiling", bin |-> <<>>, config |-> dirs[Fixed].config]]
  /\ UNCHANGED <<proc, shm, dirs, lock>>

Compile(s) ==
  /\ sims[s].state = "compiling"
  /\ sims' = [sims EXCEPT ![s].state = "starting",
                ![s].bin = <<[tb |-> dirs[SimDir(s)].sv[1], rtl |-> dirs[SimDir(s)].tcl]>>]
  /\ UNCHANGED <<proc, shm, dirs, lock>>

\* The DPI library opens every segment and queue of the configuration, or
\* exits (frt-dpi/src/context.rs).
Attach(s) ==
  /\ sims[s].state = "starting"
  /\ sims' = [sims EXCEPT ![s].state =
                IF Paths(sims[s].config[1]) \subseteq DOMAIN shm THEN "running" ELSE "failed"]
  /\ UNCHANGED <<proc, shm, dirs, lock>>

EndSimulation(s) ==
  /\ sims[s].state = "running"
  /\ \E how \in {"done", "failed"} : sims' = [sims EXCEPT ![s] = [NoSim EXCEPT !.state = how]]
  /\ UNCHANGED <<proc, shm, dirs, lock>>
-----------------------------------------------------------------------------
(* finish, and the end of the process *)

\* What dropping the device unlinks: the segments and queues it created; the
\* program closes its own queue.
Dropped(p) ==
  ({proc[p].ctx.bufs[n].path : n \in DOMAIN proc[p].ctx.bufs} \cap Owned(p))
    \cup {proc[p].ctx.strs[n].queue : n \in DOMAIN proc[p].ctx.strs} \cup {HostQueue(p)}

\* Mutant: a setup-only process drops its device as any other does.
KeepsMutant(p) == FALSE

\* A setup-only program exits at once; any other drops its device.
Keeps(p) == proc[p].session.mode = "setup"

\* A failed simulation is fatal to the host program.
Finish(p) ==
  /\ proc[p].pc = "finish" /\ ~Live(p)
  /\ IF sims[p].state = "failed" THEN Die(p, "failed")
     ELSE /\ End(p, "ok")
          /\ shm' = IF Keeps(p) THEN shm ELSE Without(Dropped(p))
          /\ dirs' = [dirs EXCEPT ![p] = EmptyDir]
          /\ sims' = [sims EXCEPT ![p] = NoSim]
          /\ UNCHANGED lock

Crash(p) == Active(p) /\ Die(p, "crashed")

HostStep(p) ==
  \/ Open(p) \/ SetScalarArg(p) \/ SetBufferArg(p) \/ SetStreamArg(p)
  \/ BindMismatch(p) \/ Exec(p) \/ CopyRtl(p) \/ PatchRtl(p) \/ WriteTcl(p)
  \/ RecordConfig(p) \/ AcquireGate(p) \/ Verilate(p) \/ Make(p) \/ Launch(p)
  \/ LaunchVivado(p) \/ Finish(p)

SimStep(s) == Compile(s) \/ Attach(s) \/ EndSimulation(s)

SessionNext ==
  \/ \E p \in Procs : HostStep(p) \/ Crash(p)
  \/ \E s \in Procs \cup {Manual} : SimStep(s)
  \/ SimulateByHand

SessionSpec == SessionInit /\ [][SessionNext]_sessionVars

\* A build that has the gate goes on to the end, and a free gate is taken.
BuildStep(p) == AcquireGate(p) \/ Verilate(p) \/ Make(p) \/ Launch(p)
-----------------------------------------------------------------------------
(* Properties *)

\* What the program of a testbench leaves in a register of the kernel, which is
\* zero after the reset.
Register(tb, offset) ==
  LET program == ControlProgram(tb)
      writes == {i \in DOMAIN program : program[i][1] % 2^tb.width = offset}
  IN IF writes = {} THEN <<0, 0, 0, 0>> ELSE program[Largest(writes)][2]

\* The k-th byte of an argument as the kernel sees it.
SeenByte(spec, tb, arg, k) ==
  IF spec.mode = "vitis"
  THEN LET row == IF arg.name \in DOMAIN spec.regs THEN arg.name ELSE Append(arg.name, "offset")
           at == spec.regs[row] + WordBytes * ((k - 1) \div WordBytes)
       IN Register(tb, at)[((k - 1) % WordBytes) + 1]
  ELSE IF arg.kind = "Scalar"
  THEN (CHOOSE s \in Range(tb.scalars) : s.port = arg.name).value[k]
  ELSE (CHOOSE m \in Range(tb.mmaps) : m.name = arg.name).base[k]

\* A simulator that runs starts the kernel, after everything else, with the
\* scalars the host bound, padded or cut to their declared width; with a base
\* address for each buffer that leads to a segment of the size the host bound;
\* and with streams as wide as the queue they are connected to.  This holds
\* for any process that has its work directory to itself while it is active.
KernelGetsItsArguments ==
  \A p \in Procs : sims[p].state = "running" /\ Active(p) /\ proc[p].alone =>
    LET spec == SpecOf(p)
        tb == sims[p].bin[1].tb
        config == sims[p].config[1]
        value == proc[p].session.scalar
        byte(k) == IF value # <<>> /\ k <= Len(value[1]) THEN value[1][k] ELSE 0
    IN /\ tb.top = spec.top
       /\ spec.mode = "vitis" => Final(ControlProgram(tb)) = <<0, One>>
       /\ \A i \in DOMAIN spec.args : LET a == spec.args[i] IN
            CASE a.kind = "Scalar" ->
                   \A k \in 1..DivCeil(a.width, 8) : SeenByte(spec, tb, a, k) = byte(k)
              [] a.kind = "Mmap" ->
                   /\ \A k \in 1..8 : SeenByte(spec, tb, a, k) = config.bufs[a.name].base[k]
                   /\ shm[config.bufs[a.name].path] =
                        IF proc[p].session.bytes \in {<<>>, <<0>>} THEN 1 ELSE proc[p].session.bytes[1]
                   /\ \A m \in Range(tb.mmaps) : m.name = a.name /\ m.size # 0 =>
                        m.size = shm[config.bufs[a.name].path]
              [] a.kind = "Stream" ->
                   \E s \in Range(IF a.dir = "In" THEN tb.ins ELSE tb.outs) :
                     s.name = a.name /\ s.dpi = config.strs[a.name].width /\ s.bits <= 8 * s.bytes

\* The segments of a recorded configuration, and those of a simulator whose
\* host is there to use them, exist: a simulation by hand finds what the setup
\* run wrote, and so does the process that resumes after it.
ConfigNamesLiveSegments ==
  /\ \A d \in DOMAIN dirs : \A c \in Range(dirs[d].config) : Paths(c) \subseteq DOMAIN shm
  /\ \A p \in Procs : Live(p) /\ Active(p) => Paths(sims[p].config[1]) \subseteq DOMAIN shm

\* A co-simulation that ends well leaves no segment of its own behind, however
\* often a buffer was replaced; only a setup run keeps its segments.
NothingLeftBehind ==
  \A p \in Procs :
    proc[p].pc = "ended" /\ proc[p].result = "ok" /\ proc[p].session.mode # "setup" => Owned(p) = {}

\* Every vendor IP that is simulated by a generated model has the operation and
\* the latency the package's Tcl gives it, and no file of the package is
\* shadowed.  A model that an earlier build left in the work directory (kept) is
\* taken for an implementation, though, and stays as it is.
ModelsOf(p) ==
  LET rtl == RtlFiles(SpecOf(p).verilog \o SpecOf(p).tcl) bin == sims[p].bin[1].rtl
  IN /\ \A f \in DOMAIN rtl : f[2] = "v" => f \in DOMAIN bin
     /\ \A ip \in {i \in Ips(rtl) : <<i, "sv">> \notin proc[p].kept} :
          IF <<ip, "v">> \in DOMAIN rtl /\ rtl[<<ip, "v">>].plain
          THEN <<ip, "sv">> \notin DOMAIN bin
          ELSE ParseIpModel(rtl, ip).model # <<>> =>
                 <<ip, "sv">> \in DOMAIN bin /\ bin[<<ip, "sv">>].model = ParseIpModel(rtl, ip).model
Simulates(p) == sims[p].state = "running" /\ Active(p) /\ proc[p].session.sim = "verilator"
ModelsMatchPackage ==
  \A p \in Procs : Simulates(p) /\ proc[p].alone => ModelsOf(p)

\* No build waits for ever, even when the process that holds the gate dies.
Builds(p) ==
  proc[p].pc \in {"prepared", "verilate", "make", "launch"}
    /\ proc[p].session.mode = "run" /\ proc[p].session.sim = "verilator"
EveryBuildEnds == \A p \in Procs : Builds(p) ~> proc[p].pc \in {"finish", "ended"}

\* A segment that something names is there, and a co-simulation that ends well
\* leaves none.  (What a process leaves that died or failed is not counted.)
SegmentsAreAccountedFor == ConfigNamesLiveSegments /\ NothingLeftBehind

\* What Verilator is given computes what the package's RTL does: the models made
\* for its vendor IPs have their operation and latency, and only combinational
\* blocks are rewritten.  A model kept from an earlier build may be another
\* package's, and a begin or end in a string or a block comment misleads the
\* rewriter; both are left out.
RtlIsFaithful == ModelsMatchPackage /\ RewriteStaysInCombBlocks
=============================================================================
