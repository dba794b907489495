------------------------------ MODULE MCRuntime -----------------------------
(***************************************************************************)
(* The runtime for TLC.  Sessions: two processes, four packages that       *)
(* co-simulate and some that are refused.  The rewriter of RtlPatch works  *)
(* on one file of one process.  An instance: every co-simulation of one    *)
(* program, and the images that reach each back end (xclbins without a     *)
(* graph, with one XRT runs and with one a PL kernel controls; VBINs for   *)
(* the board and for the simulator; images that are refused).  The three   *)
(* share no state, so a behaviour is about one of them (part), and the     *)
(* others stay as they start.                                              *)
(***************************************************************************)
EXTENDS CosimSession, RuntimeInstance

VARIABLE part
mcVars == <<part, sessionVars, scanVars, vars, native>>

CONSTANTS p1, p2

MCFile(kind, file, body) ==
  [kind |-> kind, path |-> "inside", deep |-> FALSE, file |-> file, body |-> body]
MCVerilog(module, ports, ips, plain) ==
  [module |-> module, ports |-> ports, width |-> <<>>, ips |-> ips, plain |-> plain,
   params |-> <<>>, comments |-> <<>>]

MCTcl(latency) ==
  MCFile("tcl", <<"fadd_ip", "tcl">>,
    [core |-> "floating_point",
     config |-> [operation_type |-> "add_subtract", c_latency |-> latency]])
MCEncrypted == MCFile("verilog", <<"fadd_ip", "v">>, MCVerilog("fadd_ip", <<>>, <<>>, FALSE))

MCArg(name, id, qualifier, port) ==
  [name |-> name, id |-> id, qualifier |-> qualifier, port |-> port, type |-> "",
   dataWidth |-> <<>>, depth |-> <<>>, hostSize |-> <<>>, size |-> <<>>]
MCKernel(args) ==
  [tag |-> "kernel", aie |-> FALSE, control |-> FALSE, name |-> "vadd", args |-> args,
   ports |-> <<[name |-> <<"m_axi_a">>, mode |-> "master", dataWidth |-> <<512>>],
               [name |-> <<"s">>, mode |-> "read_only", dataWidth |-> <<32>>]>>]
MCController == [MCKernel(<<>>) EXCEPT !.control = TRUE]

\* A 16-bit scalar whose register is padded to 32 bits, one of two registers, a
\* buffer, a stream.
MCVaddArgs ==
  <<[MCArg(<<"n">>, 0, 0, <<>>) EXCEPT !.hostSize = <<2>>, !.size = <<4>>, !.type = "n_t"],
    [MCArg(<<"k">>, 1, 0, <<>>) EXCEPT !.hostSize = <<6>>, !.size = <<8>>, !.type = "k_t"],
    MCArg(<<"a">>, 2, 1, <<"m_axi_a">>), MCArg(<<"s">>, 3, 4, <<"s">>)>>

MCControl(rows, width) ==
  MCFile("control", <<"vadd_control_s_axi", "v">>,
    [MCVerilog("vadd_control_s_axi", <<>>, <<>>, TRUE)
       EXCEPT !.params = rows, !.width = IF width = 0 THEN <<>> ELSE <<width>>])
MCRows == << <<<<"n">>, 16>>, <<<<"a", "offset">>, 28>>, <<<<"n">>, 20>>, <<<<"k">>, 40>> >>
MCTop(ports, ips) == MCFile("verilog", <<"vadd", "v">>, MCVerilog("vadd", ports, ips, TRUE))
MCXml(args) == MCFile("kernel.xml", <<"kernel", "xml">>, <<MCController, MCKernel(args)>>)

MCXo(args, control, latency) ==
  [ext |-> "xo", entries |-> <<MCXml(args), MCTop(<<>>, <<"fadd_ip">>), control, MCEncrypted,
                               MCTcl(latency)>>]

\* A packed HLS archive: a 40-bit scalar, two channels, a 7-bit stream.
MCPort(name, cat, width, chans) ==
  [name |-> name, cat |-> cat, width |-> width, chans |-> chans, depth |-> <<4>>]
MCState(ports) ==
  MCFile("tapa.json", <<"tapa", "json">>,
    [ok |-> TRUE, part |-> <<"xcu280">>, top |-> "vadd", ports |-> ports])
MCZip(ports, dut) ==
  [ext |-> "zip", entries |-> <<MCState(ports), MCTop(dut, <<"fadd_ip">>), MCTcl(5),
     MCFile("verilog", <<"fadd_ip", "v">>, MCVerilog("fadd_ip", <<>>, <<>>, TRUE))>>]
MCHlsPorts ==
  <<MCPort("n", "scalar", 40, <<>>), MCPort("m", "mmap", 64, <<1>>), MCPort("q", "istream", 8, <<>>)>>
MCDut(bits) == <<"q", "s", "dout">> :> bits

MCPackages ==
  ("vadd" :> MCXo(MCVaddArgs, MCControl(MCRows, 6), 5))
  @@ ("rebuilt" :> MCXo(MCVaddArgs, MCControl(<< <<<<"n">>, 16>>, <<<<"k">>, 24>>, <<<<"a">>, 252>> >>, 0), 7))
  @@ ("hls" :> MCZip(MCHlsPorts, MCDut(8)))
  @@ ("wide" :> MCZip(MCHlsPorts, MCDut(10)))
  @@ ("narrow" :> MCXo(MCVaddArgs, MCControl(MCRows, 4), 5))
  @@ ("unmapped" :> MCXo(MCVaddArgs, MCControl(<< <<<<"n">>, 16>>, <<<<"k">>, 24>> >>, 6), 5))
  @@ ("unlatched" :> MCXo(MCVaddArgs, MCControl(MCRows, 6), Bad))
  @@ ("malformed" :> MCXo(<<[MCVaddArgs[1] EXCEPT !.hostSize = <<Bad>>]>>, MCControl(MCRows, 6), 5))

MCSession(package, sim, how, work, scalar, bytes, queue) ==
  [package |-> package, sim |-> sim, mode |-> how, work |-> work, scalar |-> scalar,
   bytes |-> bytes, queue |-> queue]
MCLong == << <<1, 2, 3, 4, 5, 6>> >>
MCShort == << <<7>> >>
MCSessions ==
  {MCSession("vadd", "verilator", "run", "fixed", MCLong, <<9>>, TRUE),
   MCSession("rebuilt", "verilator", "run", "fixed", MCShort, <<0>>, FALSE),
   MCSession("hls", "verilator", "run", "temp", MCLong, <<9>>, FALSE),
   MCSession("rebuilt", "xsim", "run", "parallel", MCLong, <<>>, TRUE),
   MCSession("vadd", "xsim", "run", "fixed", <<>>, <<9>>, FALSE),
   MCSession("vadd", "xsim", "setup", "fixed", MCShort, <<9>>, TRUE),
   MCSession("vadd", "xsim", "resume", "fixed", MCShort, <<9>>, TRUE),
   MCSession("vadd", "xsim", "resume", "parallel", MCShort, <<9>>, TRUE)}
  \cup {MCSession(n, "xsim", "run", "temp", <<>>, <<>>, FALSE) : n \in {"narrow", "unmapped", "malformed"}}
  \cup {MCSession(n, "verilator", "run", "temp", <<>>, <<>>, FALSE) : n \in {"wide", "unlatched"}}
-----------------------------------------------------------------------------
\* Every co-simulation but the one MCResumeReadWrite is about.
MCSetups == (Modes \X Accesses) \ {<<"resume", "ReadWrite">>}
MCResumeReadWrite == {<<"resume", "ReadWrite">>}

XrtArgs ==
  <<[index |-> 0, kind |-> "scalar", type |-> "int", range |-> 32],
    [index |-> 1, kind |-> "buffer", type |-> "int*", range |-> 64]>>
Rtp(graph) == [graph |-> graph, arg |-> 0, bytes |-> 4, ping |-> 16, pong |-> 16]
Section(graph, rtp) ==
  <<[graphs |-> <<[name |-> graph, iterations |-> {8}]>>, rtps |-> <<rtp>>]>>
Xclbin(section, control, bdf) ==
  [kind |-> "xclbin", section |-> section, args |-> IF section = <<>> THEN Tail(XrtArgs) ELSE XrtArgs, control |-> control,
   bdf |-> bdf]

SlashArg(index, kind, offset, range, port) ==
  [index |-> index, kind |-> kind, offset |-> offset, range |-> range, writable |-> TRUE,
   port |-> port]
Entry(file) == [type |-> "Regular", path |-> "inside", file |-> file, ext |-> "none"]
Pdi == [type |-> "Regular", path |-> "inside", file |-> "other", ext |-> "pdi"]
SystemMap == Entry("system_map.xml")
Map(platform, args) ==
  [platform |-> platform, clock |-> 250,
   kernels |-> <<[name |-> "vadd", base |-> 0, args |-> args,
                  connections |-> <<[port |-> "m0", target |-> "HBM0"],
                                    [port |-> "m1", target |-> "HBM3"]>>]>>]
Scalar == SlashArg(0, "scalar", 16, -1, "")
FixedArg == [SlashArg(0, "scalar", 16, 8, "") EXCEPT !.writable = FALSE]
Buffer(index) == SlashArg(index, "buffer", 24 + 8 * index, 64, IF index = 1 THEN "m0" ELSE "m1")
Vbin(archive, map) == [kind |-> "vbin", archive |-> archive, map |-> map]

MCImages ==
  {Xclbin(<<>>, FALSE, FALSE),
   Xclbin(Section("tapa_aie", Rtp("tapa_aie")), FALSE, TRUE),
   Xclbin(Section("tapa_aie_forever", Rtp("tapa_aie_forever")), FALSE, TRUE),
   Xclbin(Section("tapa_aie_forever", Rtp("tapa_aie_forever")), TRUE, TRUE),
   Xclbin(Section("tapa_aie", [Rtp("tapa_aie") EXCEPT !.arg = -1]), FALSE, TRUE),
   Vbin(<<SystemMap, Pdi>>, Map("Hardware", <<Scalar, Buffer(1)>>)),
   Vbin(<<SystemMap, Entry("vpp_sim")>>, Map("Simulation", <<Buffer(2), FixedArg, Buffer(1)>>)),
   Vbin(<<SystemMap, Pdi>>, Map("Emulation", <<Scalar>>)),
   Vbin(<<SystemMap>>, Map("Hardware", <<Scalar>>)),
   Vbin(<<SystemMap, SystemMap>>, Map("Hardware", <<Scalar>>))}
MCBindings ==
  {[index |-> 1, bytes |-> 3, access |-> "ReadWrite"],
   [index |-> 2, bytes |-> 5, access |-> "WriteOnly"],
   [index |-> 1, bytes |-> 0, access |-> "ReadWrite"]}
MCValues == {<<1, 0>>}

MCInit ==
  /\ part \in {"sessions", "rewriter", "instance"}
  /\ SessionInit /\ ScanInit /\ RuntimeInit
  /\ part # "instance" =>
       /\ image = Package /\ ~limited /\ ~async
       /\ <<mode, access>> = CHOOSE s \in Setups : TRUE

Build(p) == part = "sessions" /\ BuildStep(p)
Program == part = "instance" /\ ExecutionMode = "Cosim" /\ RunStep
Clock == part = "instance" /\ ExecutionMode = "Cosim" /\ Elapse
CloseStep == part = "instance" /\ Closing
Graph == part = "instance" /\ GraphStep

MCNext ==
  \/ part = "sessions" /\ SessionNext /\ UNCHANGED <<part, scanVars, vars, native>>
  \/ part = "rewriter" /\ RewriteLine /\ UNCHANGED <<part, sessionVars, vars, native>>
  \/ part = "instance" /\ (CosimStep \/ NativeStep) /\ UNCHANGED <<part, sessionVars, scanVars>>

\* A free gate is taken and a build with the gate goes on, unless its process
\* dies; the fairness of RuntimeInstance.
MCSpec ==
  /\ MCInit /\ [][MCNext]_mcVars
  /\ \A p \in Procs : WF_sessionVars(Build(p))
  /\ WF_vars(Program) /\ WF_vars(Clock)
  /\ WF_native(CloseStep) /\ WF_native(Graph)

\* CallsReturn in the behaviours that are about an instance.
InstanceReturns == part = "instance" => CallsReturn
=============================================================================
