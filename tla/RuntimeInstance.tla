--------------------------- MODULE RuntimeInstance --------------------------
(***************************************************************************)
(* The runtime as a host program sees it: the file it names decides        *)
(* whether the instance is a co-simulation (CosimDevice) or a device       *)
(* (frt/src/instance.rs).                                                  *)
(*                                                                         *)
(* A device instance is the C interface of frt/src/ffi.rs over the back    *)
(* ends of module NativeDevice, from frt_instance_open to                  *)
(* frt_instance_close, one native handle opened or closed at a time.  The  *)
(* host calls the interface in any order, from one thread; the kernel and  *)
(* the AI Engine graph run beside it.                                      *)
(***************************************************************************)
EXTENDS CosimDevice, NativeDevice

CONSTANTS
  Images,      \* the bitstreams to open
  Bindings,    \* buffers the host binds: [index, bytes, access]
  Values,      \* scalars the host sets, as bytes
  MaxDevices,  \* XRT devices to try, 64 in the code
  MaxExec      \* bound: launches

VARIABLES
  image,       \* the bitstream
  phase,       \* opening, ready, closing, dropping, closed
  opened,      \* handles opened so far; devices tried before
  tried,
  d,           \* the state of the device, see Blank
  todo,        \* handles still to be closed, in order
  said,        \* what the host was told of the last launch: none, ok, error, killed
  got,         \* the host's buffers: its own contents, partial, or the device's
  fetched,     \* has it read the results of a launch it was told is ok
  execs        \* launches so far
native == <<backend, kernel, aie, image, phase, opened, tried, d, todo, said, got, fetched, execs>>
fixed == <<backend, kernel, aie, image, opened, tried>>

Indices == {b.index : b \in Bindings}
NoAie == [graph |-> <<>>, control |-> FALSE]

NativeIdle ==
  /\ backend = "none" /\ kernel = [args |-> <<>>] /\ aie = NoAie
  /\ opened = 0 /\ tried = 0 /\ d = Blank /\ todo = <<>>
  /\ said = "none" /\ got = [i \in Indices |-> "own"] /\ fetched = FALSE
  /\ execs = 0

NativeInit == NativeIdle /\ image \in Images /\ phase = "opening"
-----------------------------------------------------------------------------
(* open *)

\* The handles a back end opens, in order.
OpenPlan ==
  CASE backend = "xrt" ->
         <<"device", "kernel", "run">>
           \o (IF aie.graph = <<>> THEN <<>>
               ELSE IF aie.control THEN <<"ctlKernel", "ctlRun">> ELSE <<"graph">>)
    [] backend = "vrt" -> <<"fd", "bar">>
    [] backend = "sim" -> <<"context", "socket", "process", "session">>
    [] OTHER -> <<>>
Handle(tag) == <<tag, 0>>

\* Mutant: the device goes before what it holds.
DeviceFirstMutant ==
  CASE backend = "xrt" -> <<"graph", "ctlRun", "ctlKernel", "run", "device", "bufs", "kernel">>
    [] backend = "vrt" -> <<"bufs", "bar", "fd">>
    [] OTHER -> <<"session", "socket", "context", "process">>

\* Drop closes what is open: XRT children first, vrtd's buffers before the BAR
\* and the connection, the simulator's session before its socket and process.
DropPlan ==
  CASE backend = "xrt" -> <<"graph", "ctlRun", "ctlKernel", "run", "bufs", "kernel", "device">>
    [] backend = "vrt" -> <<"bufs", "bar", "fd">>
    [] OTHER -> <<"session", "socket", "context", "process">>

Closings(s) ==
  FlattenSeq([i \in DOMAIN DropPlan |->
    IF DropPlan[i] = "bufs" THEN SetToSeq({h \in s.live : h[1] = "buf"})
    ELSE SelectSeq(<<Handle(DropPlan[i])>>, LAMBDA h : h \in s.live)])

\* instance::open and vrt::open: the file kind and the platform it records
\* decide the back end.  Refused before anything is open: an image that cannot
\* be read, a hardware VBIN without a PDI, a simulation one without its
\* simulator, an emulation VBIN.
Backend ==
  IF image.kind = "xclbin" THEN IF AieGraph(image).ok THEN "xrt" ELSE "refused"
  ELSE LET map == OpenVbin(image)
       IN IF map = <<>> THEN "refused"
          ELSE CASE map[1].platform = "Hardware" /\ Pdis(image.archive) # <<>> -> "vrt"
                 [] map[1].platform = "Simulation" /\ Named(image.archive, "vpp_sim") # <<>> -> "sim"
                 [] OTHER -> "refused"

\* The environment - an emulation it cannot set up, a board it does not name -
\* refuses an image as well.
OpenRefused ==
  /\ phase = "opening" /\ backend = "none"
  /\ Backend \in {"refused", "xrt", "vrt"}
  /\ phase' = "closed"
  /\ UNCHANGED <<fixed, d, todo, said, got, fetched, execs>>

OpenDispatch ==
  /\ phase = "opening" /\ backend = "none" /\ Backend # "refused"
  /\ backend' = Backend
  /\ IF Backend = "xrt"
     THEN /\ kernel' = [args |-> image.args]
          /\ aie' = [graph |-> AieGraph(image).graph, control |-> image.control]
     ELSE kernel' = OpenVbin(image)[1] /\ aie' = NoAie
  /\ UNCHANGED <<image, opened, tried, phase, d, todo, said, got, fetched, execs>>

\* The next handle is opened.  XRT tries device after device until one takes
\* the xclbin, unless a device was asked for.
OpenNext ==
  /\ phase = "opening" /\ opened < Len(OpenPlan)
  /\ d' = [d EXCEPT !.live = @ \union {Handle(OpenPlan[opened + 1])}]
  /\ opened' = opened + 1
  /\ phase' = IF opened + 1 = Len(OpenPlan) THEN "ready" ELSE phase
  /\ UNCHANGED <<backend, kernel, aie, image, tried, todo, said, got, fetched, execs>>

NextDevice ==
  /\ phase = "opening" /\ backend = "xrt" /\ opened = 0
  /\ ~image.bdf /\ tried + 1 < MaxDevices
  /\ tried' = tried + 1
  /\ UNCHANGED <<backend, kernel, aie, image, phase, opened, d, todo, said, got, fetched, execs>>

\* Anything fails while opening: what is open is dropped.
OpenFails ==
  /\ phase = "opening" /\ backend # "none"
  /\ phase' = "dropping" /\ todo' = Closings(d)
  /\ UNCHANGED <<fixed, d, said, got, fetched, execs>>
-----------------------------------------------------------------------------
(* The calls of a ready instance *)

Called(o) == phase = "ready" /\ d' = o.s
Same == UNCHANGED <<fixed, phase, todo>>

FrtSetScalarBytes ==
  /\ phase = "ready"
  /\ \E i \in ScalarArgs, v \in Values :
       \E o \in DeviceSetScalarArg(d, i, v) : Called(o)
  /\ Same /\ UNCHANGED <<said, got, fetched, execs>>

FrtSetBufferArgTyped ==
  /\ phase = "ready"
  /\ \E b \in Bindings : \E o \in DeviceSetBuffer(d, b) : Called(o)
  /\ Same /\ UNCHANGED <<said, got, fetched, execs>>

\* No back end of this module binds streams from the host.
FrtSetStreamArg ==
  /\ Called(Err(d)) /\ Same /\ UNCHANGED <<said, got, fetched, execs>>

FrtWriteToDevice ==
  /\ phase = "ready"
  /\ \E o \in DeviceWrite(d) : Called(o)
  /\ Same /\ UNCHANGED <<said, got, fetched, execs>>

\* The end of a launch, told once.
Told(o) ==
  IF d.st = "Running" /\ said = "none"
  THEN IF o.r = "ok" THEN "ok" ELSE IF o.s.st = "Finished" THEN "error" ELSE said
  ELSE said

FrtReadFromDevice ==
  /\ phase = "ready"
  /\ \E o \in DeviceRead(d) :
       /\ Called(o)
       /\ said' = Told(o)
       /\ IF o.r = "ok"
          THEN /\ got' = [i \in Indices |->
                    IF i \in DOMAIN o.s.bufs /\ StoresToHost(o.s.bufs[i].access)
                    THEN IF o.s.kern = "running" THEN "partial" ELSE o.s.bufs[i].mem
                    ELSE got[i]]
               /\ fetched' = (said' = "ok")
          ELSE UNCHANGED <<got, fetched>>
  /\ Same /\ UNCHANGED execs

FrtExec ==
  /\ phase = "ready" /\ execs < MaxExec
  /\ \E o \in DeviceExec(d) :
       /\ Called(o)
       /\ said' = IF o.r = "ok" THEN "none" ELSE IF d.st = "Running" THEN said ELSE "error"
  /\ execs' = execs + 1 /\ fetched' = FALSE
  /\ got' = [i \in Indices |-> "own"]
  /\ Same

FrtFinish ==
  /\ phase = "ready"
  /\ \E o \in DeviceFinish(d) : Called(o) /\ said' = Told(o)
  /\ Same /\ UNCHANGED <<got, fetched, execs>>

FrtIsFinished ==
  /\ phase = "ready"
  /\ \E o \in DeviceIsFinished(d) : Called(o) /\ said' = Told(o)
  /\ Same /\ UNCHANGED <<got, fetched, execs>>

FrtKill ==
  /\ phase = "ready"
  /\ \E o \in DeviceKill(d) :
       Called(o) /\ said' = IF backend = "xrt" /\ said = "none" THEN "killed" ELSE said
  /\ Same /\ UNCHANGED <<got, fetched, execs>>
-----------------------------------------------------------------------------
(* close *)

FrtInstanceClose ==
  /\ phase = "ready" /\ phase' = "closing"
  /\ said' = "none" /\ got' = [i \in Indices |-> "own"] /\ fetched' = FALSE
  /\ UNCHANGED <<fixed, d, todo, execs>>

\* The instance is gone, and with it what the properties compare registers to.
Forget(s) == [s EXCEPT !.scalars = <<>>, !.launched = <<>>, !.regs = <<>>, !.aieRegs = <<>>,
                       !.bufs = <<>>, !.hbm = 0, !.ddr = 0]

\* Unless the compute is known to have finished, kill; then drop.
DeviceDrop ==
  /\ phase = "closing"
  /\ \E o \in DeviceIsFinished(d) :
     \E k \in IF o.r = "ok" THEN {o} ELSE DeviceKill(o.s) :
     \E s \in IF backend = "vrt" THEN VrtDrop(k.s) ELSE {k.s} :
       d' = Forget(s) /\ todo' = Closings(s)
  /\ phase' = "dropping"
  /\ UNCHANGED <<fixed, said, got, fetched, execs>>

\* The simulator is asked to exit, waited for, and killed when it stays.
CloseNext ==
  /\ phase = "dropping" /\ todo # <<>>
  /\ \E o \in IF Head(todo) = Handle("session") THEN Request(d, d) ELSE {Ok(d)} :
       d' = [o.s EXCEPT !.live = @ \ {Head(todo)},
                        !.kern = IF Head(todo) = Handle("process") THEN "idle" ELSE @]
  /\ todo' = Tail(todo)
  /\ UNCHANGED <<fixed, phase, said, got, fetched, execs>>

CloseDone ==
  /\ phase = "dropping" /\ todo = <<>>
  /\ phase' = "closed"
  /\ UNCHANGED <<fixed, d, todo, said, got, fetched, execs>>

KernelStep ==
  /\ \E s \in KernelEnds(d) : d' = s
  /\ Same /\ UNCHANGED <<said, got, fetched, execs>>

GraphStep ==
  /\ \E s \in GraphEnds(d) : d' = s
  /\ Same /\ UNCHANGED <<said, got, fetched, execs>>

Closing == DeviceDrop \/ CloseNext \/ CloseDone

NativeNext ==
  \/ OpenRefused \/ OpenDispatch \/ OpenNext \/ NextDevice \/ OpenFails
  \/ FrtSetScalarBytes \/ FrtSetBufferArgTyped \/ FrtSetStreamArg \/ FrtWriteToDevice
  \/ FrtReadFromDevice \/ FrtExec \/ FrtFinish \/ FrtIsFinished \/ FrtKill
  \/ FrtInstanceClose \/ Closing \/ KernelStep \/ GraphStep

\* The closing thread goes on, and a graph that terminates does so.
NativeFairness == WF_native(Closing) /\ WF_native(GraphStep)
-----------------------------------------------------------------------------
(* Co-simulation or device *)

\* ExecutionMode::of
ExecutionMode ==
  CASE image.kind = "vbin" -> "Vrt"
    [] image.kind = "xclbin" -> "Hardware"
    [] image.kind \in {"xo", "zip"} -> "Cosim"

Package == [kind |-> "xo"]

RuntimeInit ==
  \/ Init /\ NativeIdle /\ image = Package /\ phase = "closed"
  \/ /\ NativeInit
     /\ mode = "run" /\ access = "ReadOnly" /\ limited = FALSE /\ async = FALSE
     /\ state = "idle" /\ err = "none" /\ readback = FALSE /\ child = "none" /\ late = FALSE
     /\ seg = "zero" /\ host = "input" /\ pc = "end" /\ from = "bind" /\ result = "none"

CosimStep == ExecutionMode = "Cosim" /\ Next /\ UNCHANGED native
NativeStep == ExecutionMode # "Cosim" /\ NativeNext /\ UNCHANGED vars

RuntimeSpec ==
  /\ RuntimeInit /\ [][CosimStep \/ NativeStep]_<<vars, native>>
  /\ WF_vars(ExecutionMode = "Cosim" /\ RunStep) /\ WF_vars(ExecutionMode = "Cosim" /\ Elapse)
  /\ NativeFairness
-----------------------------------------------------------------------------
(* Properties *)

\* What a handle stands on: closing it earlier would leave the handle dangling.
Needs(h) ==
  CASE h[1] \in {"kernel", "graph", "ctlKernel"} -> {Handle("device")}
    [] h[1] = "run" -> {Handle("kernel")}
    [] h[1] = "ctlRun" -> {Handle("ctlKernel")}
    [] h[1] = "buf" -> {Handle(IF backend = "xrt" THEN "device" ELSE "fd")}
    [] h[1] = "bar" -> {Handle("fd")}
    [] h[1] = "socket" -> {Handle("context")}
    [] h[1] = "session" -> {Handle("socket"), Handle("process")}
    [] OTHER -> {}

\* From open to the last close, wherever either fails, no native handle
\* outlives the one it was made from, and a closed instance has none left
\* but those it keeps on purpose.
HandlesNest ==
  /\ \A h \in d.live : Needs(h) \subseteq d.live
  /\ phase = "closed" => d.live = {}

\* A board kernel's buffers are never released under it: a kernel that was not
\* seen to finish keeps them past the close.  (Except after a register
\* access that failed once it had taken effect.)
KernelKeepsBuffers ==
  backend = "vrt" /\ d.kern = "running" /\ ~d.torn => d.used \subseteq d.live \union d.kept

\* Nothing is released while something still stands on it, and nothing stays
\* open for good, whichever native call fails.
ResourcesOutliveUse == HandlesNest /\ KernelKeepsBuffers

\* Whatever ended the last launch - its end, a failed launch, a failed run, a
\* kill - the graph of the next one starts from its entry.
GraphStartsOver == ~d.torn /\ ~d.overlap => d.graph # "resumed"

\* A kernel that runs, and the graph beside it, see the arguments the host had
\* set when it launched them and no others.
ArgumentsReachDevice ==
  phase = "ready" /\ d.st = "Running" /\ d.kern = "running" /\ ~d.torn /\ ~d.overlap =>
    IF backend = "xrt"
    THEN \A g \in Range(aie.graph) : \A i \in DOMAIN g.rtps :
           \A w \in Range(RtpWrites(g.rtps[i], d.launched)) :
             w[1] \in DOMAIN d.aieRegs /\ d.aieRegs[w[1]] = w[2]
    ELSE \A a \in {b \in Range(kernel.args) : b.writable} :
           LET value == IF a.kind = "scalar" THEN d.scalars[a.index]
                        ELSE AddressBytes(d.bufs[a.index].address)
           IN \A w \in Range(RegisterWords(a, value)) : d.regs[w.offset] = w.word

\* The buffers the simulator's kernel works on do not overlap.
SimBuffersDisjoint ==
  backend = "sim" =>
    \A i, j \in DOMAIN d.bufs :
      i < j => \/ d.bufs[i].address + d.bufs[i].bytes <= d.bufs[j].address
               \/ d.bufs[j].address + d.bufs[j].bytes <= d.bufs[i].address

\* A launch computes on what the host bound: its arguments are in the registers
\* and no buffer of it is another's.
LaunchSeesArguments == ArgumentsReachDevice /\ SimBuffersDisjoint

\* A reply of the simulator answers the request that was sent last: one that
\* came too late is never taken for the answer to another.
RepliesMatch == ~d.stale

\* The host is told that a launch went well only when the kernel is done, and
\* what it reads after that is the kernel's results.
ResultsAreWhole ==
  phase = "ready" =>
    /\ said = "ok" => d.kern = "done"
    /\ fetched => \A i \in DOMAIN d.bufs :
         d.bufs[i].bo \in d.used /\ StoresToHost(d.bufs[i].access) => got[i] = "result"

\* What the host is told and handed is true of the launch it asked about.
AnswersAreTrue == RepliesMatch /\ ResultsAreWhole

\* close returns, whatever the kernel does.
CloseReturns == phase = "closing" ~> phase = "closed"

\* A kernel or a simulator that hangs does not hang the host: the timeout ends a
\* co-simulation, and close returns on every device.
CallsReturn == TimeoutEndsRun /\ CloseReturns
=============================================================================
