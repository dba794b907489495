---------------------------- MODULE NativeDevice ----------------------------
(***************************************************************************)
(* The back ends of the runtime that drive a device: XRT                   *)
(* (frt/src/xrt/device.rs), a SLASH board through vrtd                     *)
(* (frt/src/vrt/device.rs) and its RTL simulator behind a request socket   *)
(* (frt/src/vrt/sim.rs, zmq.rs); the last two share the register handshake *)
(* of frt/src/vrt/ctrl.rs.                                                 *)
(*                                                                         *)
(* A method takes the state s of the device and of what it drives and      *)
(* yields its possible outcomes [r, s]: "ok", "err", and for is_finished   *)
(* "pending".  No outcome means that the call blocks.  A native call may   *)
(* always fail.  s.torn remembers a call that failed after it may have     *)
(* taken effect, s.overlap a launch over one not seen to end, and s.used   *)
(* the buffers of the last launch until the host replaces what they hold.  *)
(***************************************************************************)
EXTENDS DeviceImage

CONSTANTS
  Window,     \* MEMORY_WINDOW_BYTES of the simulator, a multiple of Align
  Align       \* BUFFER_ALIGNMENT of the simulator

ASSUME NativeAssumption ==
  Align \in Nat \ {0} /\ Window \in Nat \ {0} /\ Window % Align = 0

VARIABLES
  backend,    \* which device the image was opened as: none, xrt, vrt, sim
  kernel,     \* the arguments and connections read from the image
  aie         \* the AI Engine graph of an xclbin, at most one, and its control

\* A fresh device with nothing open.
Blank ==
  [st |-> "Idle", scalars |-> <<>>, bufs |-> <<>>, hasRun |-> FALSE, hbm |-> 0, ddr |-> 0,
   live |-> {}, kept |-> {}, sock |-> "send", owed |-> 0, stale |-> FALSE,
   kern |-> "idle", used |-> {}, regs |-> <<>>, launched |-> <<>>,
   graph |-> "fresh", aieRegs |-> <<>>, torn |-> FALSE, overlap |-> FALSE]

Ok(s) == [r |-> "ok", s |-> s]
Err(s) == [r |-> "err", s |-> s]
Pending(s) == [r |-> "pending", s |-> s]
Torn(s) == Err([s EXCEPT !.torn = TRUE])
Put(f, k, v) == [x \in DOMAIN f \union {k} |-> IF x = k THEN v ELSE f[x]]

\* The ? operator: go on after an ok.
Try(outs, More(_)) == UNION {IF o.r = "ok" THEN More(o.s) ELSE {o} : o \in outs}

\* BufferAccess::loads_from_host and stores_to_host
LoadsFromHost(access) == access \in {"ReadOnly", "ReadWrite"}
StoresToHost(access) == access \in {"WriteOnly", "ReadWrite"}

Buf(k) == <<"buf", k>>
FreshBuf(s) ==
  LET taken == s.live \union s.used
  IN Buf(CHOOSE k \in 1..(Cardinality(taken) + 1) :
           Buf(k) \notin taken /\ \A j \in 1..(k - 1) : Buf(j) \in taken)
\* Bind(s, i, b): argument i is b from now on; a running kernel keeps the old one.
Bind(s, i, b) ==
  LET old == IF i \in DOMAIN s.bufs THEN {s.bufs[i].bo} ELSE {}
      open == IF backend = "sim" THEN {} ELSE {b.bo}
  IN [s EXCEPT !.bufs = Put(@, i, b), !.live = (@ \union open) \ (old \ {b.bo}),
               !.used = IF s.kern = "running" THEN @ ELSE @ \ old]
Bound(s) == {s.bufs[i].bo : i \in DOMAIN s.bufs}
BufferArgs == {a.index : a \in {b \in Range(kernel.args) : b.kind = "buffer"}}
ScalarArgs == {a.index : a \in {b \in Range(kernel.args) : b.kind = "scalar"}}
-----------------------------------------------------------------------------
(* The AI Engine graph, external: it starts over from its entry when it is *)
(* fresh or has ended, and goes on where it was otherwise.                 *)

GraphRun(s) ==
  [s EXCEPT !.graph = IF s.graph \in {"fresh", "ended"} THEN "running" ELSE "resumed"]

Write(s, w) ==
  CASE w = <<CoreControl, CoreDisable>> -> [s EXCEPT !.graph = "fresh"]
    [] w = <<CoreControl, CoreEnable>> -> GraphRun(s)
    [] OTHER -> [s EXCEPT !.aieRegs = Put(@, w[1], w[2])]
Apply(s, program) == FoldLeft(Write, s, program)

\* PlControl::execute
PlExecute(s, program) ==
  {Ok(Apply(s, program)), Torn(Apply(s, program)), Torn(s)}

GraphReset(s) == {Ok([s EXCEPT !.graph = "fresh"]), Torn(s)}

AbortGraph(s) ==
  IF aie.graph = <<>> THEN {Ok(s)}
  ELSE IF aie.control THEN PlExecute(s, StopProgram) ELSE GraphReset(s)

\* Once the kernel is done: disable, stop a run-forever graph, or wait.
StopGraph(s) ==
  IF aie.graph = <<>> THEN {Ok(s)}
  ELSE IF aie.control THEN PlExecute(s, StopProgram)
  ELSE IF aie.graph[1].forever THEN {Ok([s EXCEPT !.graph = "stopped"]), Torn(s)}
  ELSE IF s.graph \in {"running", "resumed"} THEN {} ELSE {Ok(s), Torn(s)}

AbortThenErr(s) == {Err(o.s) : o \in AbortGraph(s)}

\* Mutant: the graph is taken never to have run.
NeverRanMutant(s, values) ==
  LET graph == aie.graph[1]
      run(t) == {Ok(GraphRun(Apply(t, FlattenSeq([i \in DOMAIN graph.rtps |->
                                                   RtpWrites(graph.rtps[i], values)])))), Err(t)}
  IN IF aie.graph = <<>> THEN {Ok(s)}
     ELSE IF aie.control THEN {Err(s)} ELSE run(s)

\* Mutant: the parameters are written on the first run only.
StaleParametersMutant(s, values) ==
  LET graph == aie.graph[1]
      reset == graph.forever /\ s.hasRun
      update(t) == IF s.hasRun THEN t
                   ELSE Apply(t, FlattenSeq([i \in DOMAIN graph.rtps |->
                                              RtpWrites(graph.rtps[i], values)]))
      run(t) == {Ok([GraphRun(update(t)) EXCEPT !.hasRun = TRUE]), Err(t)}
  IN IF aie.graph = <<>> THEN {Ok(s)}
     ELSE IF aie.control THEN {Err(s)}
     ELSE Try(IF reset THEN GraphReset(s) ELSE {Ok(s)}, run)

\* Reset a run-forever graph that has run, set the parameters, run.
StartGraph(s, values) ==
  LET graph == aie.graph[1]
      reset == graph.forever /\ s.hasRun
      ran(t) == {Ok([t EXCEPT !.hasRun = TRUE])}
      params == FlattenSeq([i \in DOMAIN graph.rtps |-> RtpWrites(graph.rtps[i], values)])
      run(t) == {Ok([GraphRun(Apply(t, params)) EXCEPT !.hasRun = TRUE]), Err(Apply(t, params)), Err(t)}
  IN IF aie.graph = <<>> THEN {Ok(s)}
     ELSE IF aie.control
     THEN IF ~Startable(graph, values, reset) THEN {Err(s)}
          ELSE Try(PlExecute(s, StartProgram(graph, values, reset)), ran)
     ELSE IF \E i \in DOMAIN graph.rtps : graph.rtps[i].arg \notin DOMAIN values THEN {Err(s)}
     ELSE Try(IF reset THEN GraphReset(s) ELSE {Ok(s)}, run)
-----------------------------------------------------------------------------
(* XRT *)

\* va_scalar: int and uint as a 32-bit word, floats as a double, anything else
\* by its size, at most eight bytes.
VaScalar(type, bytes) ==
  CASE type \in {"int", "uint"} -> <<Resize(bytes, 4)>>
    [] type = "float" -> <<Resize(bytes, 4)>>
    [] type = "double" -> <<Resize(bytes, 8)>>
    [] OTHER -> IF Len(bytes) > 8 THEN <<>> ELSE <<Resize(bytes, IF Len(bytes) = 4 THEN 4 ELSE 8)>>

\* normalized_scalar_bytes: zero when the host has set nothing.
ScalarBytes(s, a) ==
  Resize(IF a.index \in DOMAIN s.scalars THEN s.scalars[a.index] ELSE <<>>, CeilDiv(a.range, 8))

\* Allocate and bind at once; a buffer that cannot be bound is freed again, and
\* so is the one that is replaced.  A kernel that runs is not looked at.
XrtSetBufferArg(s, b) ==
  LET new == [bo |-> FreshBuf(s), address |-> 0, bytes |-> b.bytes, access |-> b.access,
              mem |-> "zero"]
  IN IF b.bytes = 0 \/ b.index \notin BufferArgs THEN {Err(s)}
     ELSE {Err(s), Ok(Bind(s, b.index, new))}

\* Scalars, then the graph, which consumes the kernel's streams, then the run.
XrtExec(s) ==
  LET scalars == {a \in Range(kernel.args) : a.kind = "scalar"}
      values == [i \in ScalarArgs |-> ScalarBytes(s, CHOOSE a \in scalars : a.index = i)]
      over == [s EXCEPT !.overlap = @ \/ s.kern = "running" \/ s.st = "Running"]
      launch(t) ==
        {Ok([t EXCEPT !.kern = "running", !.used = Bound(t), !.st = "Running",
                      !.launched = values])}
          \union AbortThenErr(t)
  IN IF \/ \E a \in scalars : VaScalar(a.type, values[a.index]) = <<>>
        \/ ~(BufferArgs \subseteq DOMAIN s.bufs)
     THEN {Err(s)}
     ELSE {Err(s)} \union
          UNION {IF o.r = "ok" THEN launch(o.s) ELSE AbortThenErr(o.s) : o \in StartGraph(over, values)}

\* Mutant: a run that ended is a run that completed.
XrtFinishBlindMutant(s) ==
  IF s.st # "Running" THEN {Ok(s)}
  ELSE IF s.kern = "running" THEN {}
  ELSE {Ok([s EXCEPT !.st = "Finished"])}

XrtFinish(s) ==
  LET t == [s EXCEPT !.st = "Finished"]
  IN IF s.st # "Running" THEN {Ok(s)}
     ELSE CASE s.kern = "running" -> {}
            [] s.kern = "done" -> StopGraph(t)
            [] OTHER -> AbortThenErr(t)

\* The run itself is not aborted.
XrtKill(s) == AbortGraph([s EXCEPT !.st = "Finished"])

XrtIsFinished(s) ==
  LET t == [s EXCEPT !.st = "Finished"]
  IN IF s.st # "Running" THEN {IF s.st = "Finished" THEN Ok(s) ELSE Pending(s)}
     ELSE CASE s.kern = "running" -> {Pending(s)}
            [] s.kern = "done" -> StopGraph(t)
            [] OTHER -> AbortThenErr(t)
-----------------------------------------------------------------------------
(* The request socket of the simulator and the registers behind it or      *)
(* behind the BAR.                                                         *)

\* The reply is still owed, and the socket takes no further request.
TimedOut(s) == Torn([s EXCEPT !.sock = "recv", !.owed = 1])

\* A request that takes s to `after` is sent when the last one has been
\* answered, and then answered OK, answered ERR, or timed out, done or not.
Request(s, after) ==
  LET answered(t) == [t EXCEPT !.stale = @ \/ s.owed > 0]
  IN IF s.sock # "send" THEN {Err(s)}
     ELSE {Ok(answered(after)), Err(answered(s)), TimedOut(s), TimedOut(after)}

\* write_register through the BAR: the synchronisation before or after the
\* access may fail.
BarWrite(s, after) == {Ok(after), Err(s), Torn(after)}

CtrlWrite(s, after) ==
  IF backend = "sim" THEN Request(s, after) ELSE BarWrite(s, after)
CtrlRead(s) ==
  IF backend = "sim" THEN Request(s, s) ELSE {Ok(s), Err(s)}

WriteValue(s, arg, value) ==
  FoldLeft(LAMBDA outs, w :
             Try(outs, LAMBDA t : CtrlWrite(t, [t EXCEPT !.regs = Put(@, w.offset, w.word)])),
           {Ok(s)}, RegisterWords(arg, value))
-----------------------------------------------------------------------------
(* ControlChannel *)

AddressBytes(n) == <<n % 256, n \div 256, 0, 0, 0, 0, 0, 0>>

SlashSetScalar(s, index, value) ==
  IF s.st = "Running" \/ ~ValidateScalarArg(kernel, index, value) THEN {Err(s)}
  ELSE {Ok([s EXCEPT !.scalars = Put(@, index, value)])}

\* Every writable argument's registers, in order, then START.
SlashStart(s) ==
  LET write(t, a) ==
        IF ~a.writable THEN {Ok(t)}
        ELSE IF a.kind = "scalar"
        THEN IF a.index \in DOMAIN t.scalars THEN WriteValue(t, a, t.scalars[a.index]) ELSE {Err(t)}
        ELSE IF a.index \in DOMAIN t.bufs
        THEN WriteValue(t, a, AddressBytes(t.bufs[a.index].address)) ELSE {Err(t)}
      go(t) == [t EXCEPT !.kern = "running", !.used = Bound(t),
                         !.overlap = t.overlap \/ t.kern = "running"]
  IN IF s.st = "Running" THEN {Err(s)}
     ELSE Try(FoldLeft(LAMBDA outs, a : Try(outs, LAMBDA t : write(t, a)), {Ok(s)}, kernel.args),
              LAMBDA t : Try(CtrlWrite(t, go(t)), LAMBDA u : {Ok([u EXCEPT !.st = "Running"])}))

PollFinished(s) ==
  IF s.st # "Running" THEN {IF s.st = "Finished" THEN Ok(s) ELSE Pending(s)}
  ELSE Try(CtrlRead(s), LAMBDA t : IF t.kern = "done" THEN {Ok([t EXCEPT !.st = "Finished"])}
                                   ELSE {Pending(t)})

\* Polls until done; a kernel that goes on past FINISH_TIMEOUT is an error.
WaitFinished(s) ==
  IF s.st # "Running" THEN {Ok(s)}
  ELSE {IF o.r = "pending" THEN Err(o.s) ELSE o : o \in PollFinished(s)}
-----------------------------------------------------------------------------
(* The board: set_buffer_arg, and the release of what is open *)

VrtSetBufferArg(s, b) ==
  LET bo == FreshBuf(s)
      new == [bo |-> bo, address |-> Align * bo[2], bytes |-> b.bytes, access |-> b.access,
              mem |-> "zero"]
  IN IF s.st = "Running" \/ ValidateBufferArg(kernel, b.index, b.bytes) = <<>> THEN {Err(s)}
     ELSE {Err(s), Ok(Bind(s, b.index, new))}

\* Drop: a kernel that cannot be seen to finish keeps its buffers, its BAR and
\* the connection that owns them.
VrtDrop(s) ==
  IF s.st # "Running" THEN {s}
  ELSE {IF o.r = "ok" THEN o.s ELSE [o.s EXCEPT !.kept = o.s.live, !.live = {}] : o \in WaitFinished(s)}
-----------------------------------------------------------------------------
(* The simulator's memories: BumpRange and AddressAllocators *)

\* The cursor after an allocation, rounded up; nothing is ever freed.
Allocate(next, bytes) ==
  LET reserved == CeilDiv(bytes, Align) * Align
  IN IF bytes = 0 \/ next + reserved > Window THEN <<>> ELSE <<next + reserved>>

\* Every HBM bank is the same window.
SimSetBufferArg(s, b) ==
  LET target == ValidateBufferArg(kernel, b.index, b.bytes)
      ddr == target[1].kind = "Ddr"
      next == IF ddr THEN s.ddr ELSE s.hbm
      cursor == Allocate(next, b.bytes)
      new == [bo |-> Buf(b.index), address |-> next + (IF ddr THEN Window ELSE 0),
              bytes |-> b.bytes, access |-> b.access, mem |-> "zero"]
  IN IF s.st = "Running" \/ target = <<>> \/ cursor = <<>> THEN {Err(s)}
     ELSE {Ok([Bind(s, b.index, new) EXCEPT
                        !.ddr = IF ddr THEN cursor[1] ELSE @,
                        !.hbm = IF ddr THEN @ ELSE cursor[1]])}
-----------------------------------------------------------------------------
(* The Device trait *)

DeviceSetScalarArg(s, index, value) ==
  IF backend = "xrt" THEN {Ok([s EXCEPT !.scalars = Put(@, index, value)])}
  ELSE SlashSetScalar(s, index, value)

DeviceSetBuffer(s, b) ==
  CASE backend = "xrt" -> XrtSetBufferArg(s, b)
    [] backend = "vrt" -> VrtSetBufferArg(s, b)
    [] backend = "sim" -> SimSetBufferArg(s, b)

DeviceExec(s) == IF backend = "xrt" THEN XrtExec(s) ELSE SlashStart(s)
DeviceFinish(s) == IF backend = "xrt" THEN XrtFinish(s) ELSE WaitFinished(s)
DeviceIsFinished(s) == IF backend = "xrt" THEN XrtIsFinished(s) ELSE PollFinished(s)
\* Neither SLASH back end can cancel a kernel.
DeviceKill(s) == IF backend = "xrt" THEN XrtKill(s) ELSE {Err(s)}

\* One transfer for all the buffers that qualify.
Transfer(s, after) ==
  IF backend = "sim" THEN Request(s, after) ELSE {Ok(after), Err(s), Err(after)}

DeviceWrite(s) ==
  LET loads == {i \in DOMAIN s.bufs : LoadsFromHost(s.bufs[i].access)}
      upload(t) ==
        [t EXCEPT !.bufs = [i \in DOMAIN @ |->
                              IF i \in loads THEN [@[i] EXCEPT !.mem = "input"] ELSE @[i]],
                  !.used = IF t.kern = "running" THEN @ ELSE @ \ {t.bufs[i].bo : i \in loads}]
  IN IF backend # "xrt" /\ s.st = "Running" THEN {Err(s)} ELSE Transfer(s, upload(s))

\* A kernel under way is finished first.
DeviceRead(s) ==
  Try(IF s.st = "Running" THEN DeviceFinish(s) ELSE {Ok(s)},
      LAMBDA t : Transfer(t, t))
-----------------------------------------------------------------------------
(* What runs beside the host, external *)

\* The kernel ends; only XRT reports a failed run.
KernelEnds(s) ==
  LET results == [i \in DOMAIN s.bufs |->
        IF s.bufs[i].bo \in s.used /\ StoresToHost(s.bufs[i].access)
        THEN [s.bufs[i] EXCEPT !.mem = "result"] ELSE s.bufs[i]]
  IN IF s.kern # "running" THEN {}
     ELSE {[s EXCEPT !.kern = "done", !.bufs = results]}
            \union (IF backend = "xrt" THEN {[s EXCEPT !.kern = "failed"]} ELSE {})

\* A graph that terminates ends.
GraphEnds(s) ==
  IF aie.graph # <<>> /\ ~aie.graph[1].forever /\ s.graph \in {"running", "resumed"}
  THEN {[s EXCEPT !.graph = "ended"]} ELSE {}
=============================================================================
