# A TLA+ model of TAPA, checked with TLC and TLAPS

TAPA compiles a C++ task-parallel program to RTL and runs it: as software, as an RTL
co-simulation, on an FPGA card, or with part of it on AI Engines. This directory models
the parts of it that decide whether such a run is right, checks them on small instances
with TLC, and proves the most important results for every value of the constants with
TLAPS.

`PROJECT.json` gives, for every definition, the lines of `src/` it translates, for every
property a bug in the code it would catch, the hazards of the code, and the results that
are proved.

To repeat a run: `tlc -config <cfg> <module>` with the names of section 2; to repeat a proof:
`tlapm <module>.tla` with the names of section 3. `CosimSessionProofs` and the three modules
about CompileFlow take about a quarter of an hour each, the others a few minutes.

## 1. The system and its modules

A program is a tree of tasks joined by streams. The **command line** (`tapa-cli`) takes it
through analyze, synth, floorplan, pack and link over one work directory. The **task graph**
(`tapa-ir`) is validated, flattened and split between programmable logic and AI Engine,
**code generation** (`tapa-codegen`) turns it into RTL around the modules Vitis HLS makes of
the leaf tasks, and the **floorplanner** places it on the slots of a device and puts
pipelines between them. The result is run by the **runtime** (`frt`): on a device, or by a
simulator that shares memory with the host (`frt-cosim`, `frt-dpi`, `frt-shm`). The same
program also runs as software, on the **coroutine scheduler** of `tapa-lib`.

| Part | Source | Modules |
|---|---|---|
| Shared-memory queue | `frt-shm/src/queue.rs` | SharedMemoryQueue, BoundedFifo |
| Streams of a test bench | `frt-dpi/src/stream.rs`, `frt-cosim/templates` | CosimStreams |
| Coroutine scheduler | `tapa-lib/tapa/host/private_scheduler.h`, `task.cpp` | TaskScheduler |
| Instances and blocked stream operations | `tapa-lib/tapa/host/task.cpp`, `stream.h` | KernelService |
| Forwarder of hybrid co-simulation | `tapa-lib/tapa/host/stream.h` | HybridForwarder |
| Kernel packages, test-bench generation | `frt-cosim/src/metadata`, `tb` | CosimPackage, CosimTestbench |
| Co-simulation processes and runners | `frt-cosim/src/context.rs`, `runner` | CosimSession, RtlPatch |
| Runtime: C interface and back ends | `frt/src` (`ffi`, `instance`, `cosim`, `xrt`, `vrt`) | RuntimeInstance, CosimDevice, NativeDevice, DeviceImage |
| Task graph | `tapa-ir/src` | TaskGraph, AiePartition |
| Code generation | `tapa-codegen/src`, `tapa-rtl/src` | Netlist, MemoryPorts, ControlPlan, ChildWiring, Codegen |
| Generated hardware | `tapa-codegen/assets/verilog`, `passes/children/fsm.rs` | StreamStorage, ControlFabric |
| Floorplanner | `tapa-floorplan/src` | FloorDevice, FloorGraph, FloorPlacement, FloorRouting, Ladder, Floorplanner |
| Command line | `tapa-cli/src`, `tapa-xilinx/src/tools` | FlowInputs, CompileFlow |

The components of a row are composed by EXTENDS into its last or outermost module (Codegen,
ControlFabric, Floorplanner, CompileFlow, CosimSession, RuntimeInstance). Five `MC` modules give
them their instances for TLC (section 2), and section 3 names the modules that hold proofs.

### Queues, streams and the scheduler

**SharedMemoryQueue.** State: the counters of `QueueHeader` (`tail`, `head`), the ring
(`slots`), and for each caller its position in a method, the counters it has loaded and the
words it has still to copy. Every load, store and word copy of `try_push_check_full`,
`pop_into`, `peek_into`, `is_full` and `is_empty` is an action, by the producer, the consumer
or an observer. The i-th payload has i in each word, so a torn, stale or repeated payload
shows. Memory is sequentially consistent in the model; the code uses acquire/release pairs,
and NoRace (the plain copies never meet in a slot) is what makes that reading sound.
**BoundedFifo** is the abstract FIFO it implements, with the unread slots, in order, as its
buffer.

**CosimStreams.** One stream of a simulated kernel, output or input, in each of the four
generated benches (Verilator or xsim, HLS or Vitis). The steps of a clock cycle are separate
actions because they differ between the benches in what is sampled when, and the host acts
between any two. The completion test and the drain after it are part of the bench. Queue
operations are atomic here, as SharedMemoryQueue shows they may be taken to be.

**TaskScheduler.** The worker threads with their coroutines, `worker_mtx`, `joined_tasks`,
`tapa::task`'s constructor and destructor, `schedule`, `wait`, `yield`. A coroutine that waits
for `worker_mtx` blocks its worker.

**KernelService.** `frt_instances_in_flight` and `frt_instances_finished`, each load and each
update a step, with the binding of a stream, the scheduling of its instance, and the check
that gives up a blocked operation. **HybridForwarder** is the task that moves beats from the
kernel's queue to a software stream until the kernel is done.

### Co-simulation and the runtime

**CosimPackage** reads a package (an `.xo`, a zip) into an argument table or refuses it;
**CosimTestbench** lays the arguments out for the two simulators: register words, address
bits, port names, stream shapes. **RtlPatch** is what the Verilator runner does to the RTL: a
model for each vendor IP without one, and `rewrite_combinational_nba`, line by line, over
texts with a stray begin or end behind `//`, in a string or in a block comment (`quoted`).
**CosimSession** runs processes side by side: each opens a package, creates segments for its
arguments, records or reads the configuration in its work directory, copies and patches the
RTL, builds behind the one lock of the machine, launches the simulator and finishes; it may
die between any two steps.

**CosimDevice** is one co-simulation as the host program sees it: run, setup or resume, the
copies in both directions, polling, timeout, interrupt and kill. **NativeDevice** is the same
interface over XRT, a SLASH board and its simulator, with **DeviceImage** for what is read
from the file; a method yields the set of its outcomes, since every native call may fail.
**RuntimeInstance** is the C interface over all of them, called in any order.

### The compiler

**TaskGraph** and **AiePartition** are operators: validation, flattening, and the two halves of
a design with AI Engine tasks. **Codegen** applies the eight passes to each upper task in turn,
each pass one step that adds ports, nets and instances (**Netlist**, **MemoryPorts**,
**ControlPlan**, **ChildWiring**). Expressions are the nets they read.

**StreamStorage** and **ControlFabric** are the generated hardware, one step per clock: FIFOs
and pipelines register by register, controllers of both styles, and a reset at any cycle.

**Floorplanner** runs a plan or a sweep over utilization caps: device and graph construction,
the ladder of caps (**Ladder**), flat and multilevel placement, routing, register accounting
and publication. The ILP solver is external: each solve may end in any way the code
distinguishes.

**CompileFlow** is the command line over one work directory. A file is modelled by what it was
made from. A command checks its inputs (**FlowInputs**) and then performs a sequence of atomic
file operations; it may stop between any two, and the HLS jobs of a synthesis interleave.

## 2. The runs

Five runs pass and seven are violated. A passing run is about several components that take each
other's results as given and share no state: the first variable of its MC module (`carrier`,
`layer`, `part`, `tool`, `half`) says which of them a behaviour is about, and the others stay
as they start. So the state space is the sum of theirs, an invariant is one of the component it
names, and a liveness property is wrapped with that variable (BenchDelivers is CosimStreams'
AllElementsArrive, ReaderIsAnswered HybridForwarder's NoSilentHang, SchedulerProgress
TaskScheduler's Progress, HostIsAnswered KernelService's NoSilentHang, InstanceReturns
RuntimeInstance's CallsReturn). States are distinct states found by TLC; each run takes less than
four minutes.

| Run | Module, configuration | Components | States | Properties |
|---|---|---|---|---|
| streams | MCStreams | SharedMemoryQueue, CosimStreams, HybridForwarder | 116,844 | PopsInOrder, NoRace, PromisesKept, ImplementsFifo; BeatsDelivered, DrainedAtExit, TokensDelivered, BenchDelivers; ForwarderIsFaithful, ReaderIsAnswered |
| host_runtime | MCHostRuntime | TaskScheduler, KernelService | 48,600 | WaitCoversDescendants, NoTaskStranded, SchedulerProgress; AbortIsJustified, HostIsAnswered |
| runtime | MCRuntime | CosimSession, RtlPatch, RuntimeInstance | 126,690 | KernelGetsItsArguments, SegmentsAreAccountedFor, RtlIsFaithful, EveryBuildEnds; RunEndsTruthfully, NoCopyWhileLive, ResourcesOutliveUse, GraphStartsOver, LaunchSeesArguments, AnswersAreTrue, InstanceReturns |
| toolchain | MCToolchain | CompileFlow, Floorplanner | 473,272 | CacheIsSound, SynthesisIsWhole, PublicationIsWhole, OutputsAreWhole; SettledAtLowestRung, InternalErrorsUnreachable, PublishedPlanIsSound, ShortcutsAreSound |
| rtl | MCRtl | Codegen, ControlFabric | 52,382 | NetlistIsLegal, EveryStreamKeepsItsEnds, HalvesMeet; LaunchesAreExact, StreamHoldsWhatWasSent, FabricMakesProgress |
| kernel_service_overlap | KernelService, KernelServiceOverlap.cfg | | violated | AbortIsJustified |
| held_write | CosimStreams, HeldWrite.cfg | | violated | HeldBeatsMoveOnce |
| forwarder_drain | HybridForwarder, ForwarderDrain.cfg | | violated | QueueDrained |
| detached_upper | MCHostRuntime, DetachedUpper.cfg | | violated | SchedulerCompletes |
| resume_read_write | MCRuntime, ResumeReadWrite.cfg | | violated | HostGetsResults |
| reused_utilization | MCToolchain, ReusedUtilization.cfg | | violated | MeasuredForThisDevice |
| shared_bridge | MCRtl, SharedBridge.cfg | | violated | NetlistIsLegal |

What the passing runs show (section 5 is about the others):

- **streams, the ring**: every payload is popped once, whole and in order; producer and consumer
  never copy in one slot at a time; what a probe or a push told its caller stays true until that
  caller acts; the ring implements BoundedFifo.
- **streams, the benches**: for a kernel that drives write only under `full_n` and presents
  nothing on the edge that starts it, every beat it hands over is pushed once and in order in all
  four benches and none is left behind by the drain. The kernel reads each of the host's tokens
  once and in order, and at exit the queue holds exactly those it did not read, but for the last
  one in the Verilator HLS bench of a kernel without output streams, which runs no cycle in which
  to pop it (`outputs` says whether it has any). Every element arrives.
- **streams, the forwarder**: what it hands on is a prefix of what the kernel pushed: no beat is
  lost, repeated or overtaken on the way, and the reader gets what it wants or learns that it
  cannot. That the prefix is the whole is not claimed, see forwarder_drain.
- **host_runtime**: `wait()` returns only after all joined descendants; no worker leaves a task in
  its queue; the program gets through its destructors beside a detached server. With instances
  invoked one after the other, a blocked operation is given up only when its kernel can never
  serve it, and is given up then.
- **runtime, sessions and rewriter**: the kernel is started with what the host bound, scalars of
  one and of several registers included; recorded segments exist and none is left behind; a
  vendor IP whose model the process itself generates keeps its latency; the rewriter stays in
  combinational blocks as long as no begin or end stands in a string or a block comment; no
  build waits for ever.
- **runtime, instances**: unless a read-write buffer is resumed, a success means that the results
  are there; nothing is copied while a simulator lives; handles and buffers outlive their use,
  also on a device that stopped answering; an AI Engine graph starts over from its entry at each
  launch; a launch sees the arguments bound last; a reply answers the request it is taken for;
  the timeout ends a hung co-simulation and close returns. `torn` (a native call failed after it
  may have taken effect) and `overlap` (a launch over one not seen to end) are the cases the code
  cannot tell, and where a property excepts them its definition says so.
- **toolchain, commands**: whatever was interrupted before, a cached HLS result is of the present
  sources and device; a state that says "synthesized" has RTL, reports and HLS estimates of one
  synthesis; a published floorplan, a package and an image are whole and of one origin.
- **toolchain, floorplanner**: a plan is at the lowest rung that fits, is routed within the wires,
  holds in each slot what is placed there and the registers it adds within the slot's capacity,
  and fails only for a reason the user can act on; what the searches skip is not worth trying.
- **rtl, generation**: in every design of the run (all kinds of memory port, but no two FIFO-style
  children on one memory) no net floats or is driven twice, no input of a child is left open, no
  instance name is used twice and AXI IDs are kept whole; flattening keeps both ends of every
  stream; the two halves of an AI Engine design meet.
- **rtl, the fabric**: a request runs every task exactly once; one that is raised during a flush,
  a run or a release, however short, is remembered and launched in its turn (a state machine of
  the other style sees only those raised while it is idle); every launch ends with done; nothing
  survives a reset; no word is lost between two tasks, and a stream is as deep as asked.

### Bounds, and why they are enough

- The ring: 2 slots, 2 words, 4 pushes. It fills, empties and wraps twice; two words are enough
  for a torn copy.
- The benches: a queue of 2, 4 elements, pauses and stalls of up to 2 cycles, a drain of at most
  7 cycles that 4 quiet ones end. The host can be slow enough to fill the queue during the run
  and the drain, and to make the drain give up.
- The forwarder: a queue of 2, a stream of 1, 4 beats: both fill up.
- The scheduler: 2 workers, 1 yield per task; a joined upper task whose joined child and detached
  server are on both workers. detached_upper has a detached upper task instead.
- Instances: 2, streams of 1, 2 transfers; a kernel may serve fewer than asked.
- Sessions: two processes, packages of which several are refused, each at a different point,
  both simulators, all modes and kinds of work directory; a Vitis kernel with a 6-byte scalar
  over two registers. The rewriter is explored on texts nested up to 3 deep.
- Device instances: every co-simulation except the one of resume_read_write, ten images, two
  buffers, two launches, two device openings, a simulated address window of 16 bytes.
- Commands: twelve projects of one or two tasks that together have every command, edited sources,
  a second device, an AI Engine task, two implementation candidates, and two attempts per HLS
  job. Commands on one directory do not overlap: nothing in the code guards against it.
- Floorplanner: devices of up to 2 x 2 slots and designs of up to 3 tasks; caps in percent.
- Code generation: some three hundred designs of two to six tasks, each kind of port alone and
  shared, nested, flattened, floorplanned, split, and some that are refused.
- The fabric: two leaves and at most one scope, each kind of FIFO at the depths where its counters
  wrap, distances of 0 to 3 registers, one reset.

The deadlock check is off in host_runtime, runtime, held_write, forwarder_drain,
kernel_service_overlap, detached_upper and resume_read_write, whose programs end or die; the
liveness properties say what must not hang. It is on in streams, toolchain and rtl, where a
behaviour that is over repeats its last state.

### Fairness, and what justifies it

Each MC specification has the fairness of its components, for the behaviours that are about them.

- TaskScheduler: weak fairness of main and of each worker, as the operating system runs every
  thread that can run. A task that is not a server yields at most MaxYield times.
- CosimStreams: weak fairness of the bench's clock and of the host's blocking loop.
- KernelService, HybridForwarder: weak fairness of each thread and task; a kernel makes its
  transfers when it can, and ends.
- CosimSession: weak fairness of a build that holds, or can have, the lock. None for anything
  else: a process may stop or die.
- RuntimeInstance: weak fairness of the host program, of time, of `close` and of an AI Engine
  graph that runs. None for a simulator or a kernel: they may hang.
- ControlFabric: the clock goes on while a register can change, and each leaf task is idle
  again and again.
- SharedMemoryQueue, CompileFlow, Codegen, Floorplanner: none; only safety is claimed.

## 3. What is proved

Each theorem holds for every value of the constants that satisfies the ASSUMEs of its module
(positive depths, finite sets, a tree of tasks, sessions of known packages, projects with task
graphs) and the assumptions named here. The proofs use no lemma that is not itself proved.

**SharedMemoryQueueProofs**: DeliveryCorrect (PopsInOrder), RaceFreedom (NoRace),
UnderflowFreedom, PromisesHold (PromisesKept), Refinement (ImplementsFifo), for every depth,
payload width and number of pushes. PopsInOrder is not inductive. The strengthening says that
the slots from `head` to `tail` hold the unread payloads (RingHoldsUnread), what each side
knows inside its method (ProducerInv, ConsumerInv: the words already copied are right), and
that a probe between its two loads holds a value the counter once had (ProbeInv). The
arithmetic behind it is SlotInjective: counters less than Depth apart share no slot.

**HostRuntimeProofs**, the scheduler: TypeCorrect, CountIsExact, WaitIsComplete (WaitCoversDescendants),
NothingStranded (NoTaskStranded), for every tree, number of workers and set of detached tasks.
`joined_tasks` alone says nothing of children still to be invoked. The invariant adds that a
task is new exactly while its parent has yet to invoke it (TodoInv), that a task which has
returned has invoked its children (DoneInv), that whoever has enqueued a task and not yet
counted it holds `worker_mtx` (AddInv), and how far the destructor has come (StopInv).

**HostRuntimeProofs**, kernel instances: AbortCorrect (AbortIsJustified) and CountersNeverWrap, for any number
of instances, provided they run one after the other; kernel_service_overlap shows that the
proviso is needed. The invariant says that at most one instance is under way and what a host
between two loads of the counters can conclude from the first (HostKnows).

**CosimStreamsProofs**: BeatsCorrect, DrainCorrect, TokensCorrect, for every depth and number
of elements in all four benches. One invariant per bench relates what the bench has sampled to
what the kernel and the queue have, step by step through the cycle. BeatsCorrect assumes that
the kernel drives write only under `full_n` and presents nothing on the edge that starts it, and
DrainCorrect also that the kernel's pauses are shorter than the drain's quiet window. TokensCorrect
needs no assumption. Section 5 says what happens without them. The same module proves
ForwarderCorrect (ForwarderIsFaithful): the beats in the queue, in the forwarder's hand, in the
stream and with the reader are numbered consecutively, and who was told of the end was told after
the forwarder stopped.

**CompileFlowStepProofs, CompileFlowSynthProofs, CompileFlowProofs**: CacheCorrect (CacheIsSound), SynthesisCorrect (SynthesisIsWhole),
PublicationCorrect (PublicationIsWhole), OutputsCorrect (OutputsAreWhole), for every set of
projects, candidates and attempts. The properties speak of directories where nothing is
pending; the invariant says, for a command at any point, what is in each file given the
operations still to do. A command is a sequence of operations in increasing Rank, some of which
it cannot leave out (Control). Cache and Jobs relate each task's HLS output to its key and the
state of its job. SynthProgress and Whole say which of RTL, reports and estimates already belong to
the synthesis under way, and that a state says "synthesized" only when nothing is left;
FloorplanProgress and Published the same for a floorplan and its constraint file; PackProgress
and LinkProgress for what is outside the directory. One lemma per conjunct shows that starting
a command, storing the state, writing a file, an HLS job and the end of a command keep it; the
first two modules hold those about control, the cache and synthesis, the last the others and the
theorems.

**CosimSessionProofs**: SegmentsCorrect (SegmentsAreAccountedFor), for every set of processes,
packages and sessions, with death at any step: a process that is active drops what it creates
(Accounted), because its context names its own segments, all of them there (Backed); and what
is recorded was created by setup runs with nothing left to drop (RecordsStand). RewriteCorrect
(the half of RtlIsFaithful about rewriting), for blocks nested to any depth: the rewriter's own
count of begins and ends agrees with the nesting of the text (Tracks) until one of them stands in
a string or a block comment (`quoted`), which the rewriter counts as well.

**RuntimeInstanceProofs**: EndIsReported, RunEnds (RunEndsTruthfully), CopiesWait
(NoCopyWhileLive), for the co-simulation back end. The invariant says where program and
simulator can be together (Together), what the simulator's end says of the run (Simulated) and
where the results are (Results). RunEnds assumes that no run with a read-write buffer is
resumed; EndIsReported and CopiesWait do not.

## 4. What is only model-checked

- Liveness, which is beyond TLAPS here: BenchDelivers, ReaderIsAnswered, SchedulerProgress,
  HostIsAnswered, EveryBuildEnds, InstanceReturns, FabricMakesProgress.
- Codegen (NetlistIsLegal, EveryStreamKeepsItsEnds, HalvesMeet): its passes are RECURSIVE
  operators over sequences, and what they compute needs induction over data.
- Floorplanner and ControlFabric: folds over sets and sequences whose value a proof would have
  to know, and for the FIFO with block RAM modular arithmetic on wrapped counters.
- The device half of RuntimeInstance (ResourcesOutliveUse, GraphStartsOver, LaunchSeesArguments,
  AnswersAreTrue): its methods are folds with operators as parameters.
- KernelGetsItsArguments, and the half of RtlIsFaithful about vendor IPs: byte encodings and
  filtered sequences, which need induction as well.

## 5. Where code and documents differ

Seven differences are runs of their own. Each checks what the document says and is violated by
what the code does.

- **kernel_service_overlap.** `note_frt_instance_finished` adds to one counter before it subtracts
  from the other (`task.cpp:94`), so their sum, which `task.cpp:104-105` says never decreases, is
  for a moment too large; a reader of a stream whose instance is not scheduled yet aborts a
  healthy run. AbortIsJustified is claimed, and proved, for instances one after the other.
- **held_write.** The HLS benches push in every cycle with write high (`tb_xsim.sv.j2:434-437`,
  `frt-dpi/src/stream.rs:208`); `docs/src/tutorials/lab-04-custom-rtl.md:100-103` says that a
  write transfers only with `full_n` and may be held without. The held beat is pushed twice.
- **forwarder_drain.** The forwarder looks at the queue before it looks at `kernel_done`
  (`stream.h:916-918`); beats pushed in between stay, though `stream.h:890-892` says that it goes
  on until the queue is drained.
- **detached_upper.** `~thread_pool` joins the workers with `worker_mtx` held
  (`private_scheduler.h:196`), and a detached task that still has to invoke one blocks its worker
  on it, as `tests/apps/network/network.cpp:54,58` can; `docs/src/howto/software-simulation.md:94`
  says that detached tasks do not hold up completion.
- **resume_read_write.** `write_to_device` overwrites the simulated results of a read-write
  buffer (`cosim/mod.rs:689-703`); `docs/src/howto/fast-cosim.md:107-108` says that a resumed run
  copies the output buffers back. RunEndsTruthfully excepts this case.
- **reused_utilization.** A post-synthesis report is reused as long as the sources are older,
  whatever part it was made for (`post_synth_util.rs:150-162`), while `docs/src/reference/cli.md:150`
  promises accurate area numbers. SynthesisIsWhole is about the HLS estimates.
- **shared_bridge.** The bridges of two FIFO-style children on one memory get one instance name
  (`children/signals.rs:527`); `docs/src/concepts/mmap.md:97` lets several children have one
  memory, and `async-mmap.md:130` an `async_mmap` parameter take it. The designs of the run rtl do
  not have it. Nor is one instance with two ports on the same memory among them, for which
  `state/mmap/mod.rs:122` and the passes differ.

Others were met while modelling. A property excepts them in its formula, or the model's callers
do not reach them.

- *The last token.* With no output streams the Verilator HLS bench leaves its loop without the
  cycle in which it would pop the token just read (`tb_verilator.cpp.j2:468-470`): `Unreported`
  in TokensDelivered.
- *Early kernels.* A kernel that presents a beat on the edge that starts it is not seen by the
  Verilator HLS bench: `EarlyKernel = TRUE` violates BeatsDelivered.
- *A reused `-cosim_work_dir`* keeps a generated `<ip>.sv` of an earlier package, which then
  counts as an implementation (`verilator.rs:304-306`): RtlIsFaithful is about the models a
  process generates itself (`kept` are the others).
- *Begin and end in strings and block comments* are counted by the rewriter, which cuts off only
  what is behind `//` (`verilator.rs:374`): `quoted` in RewriteStaysInCombBlocks.
- *Closing a SLASH board.* A write of `ap_start` that takes effect and is reported as failed is
  not remembered as a launch (`vrt/device.rs:327`, `vrt/ctrl.rs:94-96`), so close releases the
  buffers of a kernel that may run, though `docs/src/howto/v80.md:200` says that those of a hung
  kernel are kept: `torn` in ResourcesOutliveUse.
- *A failed finish* of a co-simulation, asked again, reports success (`cosim/mod.rs:752`), and
  `exec` while a simulator runs loses its handle (`:736`). The host of CosimDevice, as the code
  that calls it, does neither.

## 6. What is not modelled

- AXI memory of the test benches, hardware `async_mmap` and the AXI crossbar: one master, in
  order, or third-party RTL.
- The thread-per-task scheduler, the stall warnings, `async_mmap` in software, the partition of
  hybrid co-simulation: sequential, or heuristics of wall-clock time.
- Host streams beyond blocking reads and writes (`locked_queue`, end-of-transaction, bulk
  access).
- Text: Verilog, XML, JSON, Tcl and command lines, except where a property is about what a
  conversion does. Remote execution, self-update and `tapacc`.
- Reuse of process numbers in the names of segments, and commands that overlap on one work
  directory.
