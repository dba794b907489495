----------------------------- MODULE DeviceImage ----------------------------
(***************************************************************************)
(* What the runtime reads out of the file it is given.                     *)
(*                                                                         *)
(* A .vbin archive (frt/src/vrt/vbin.rs): the members the SLASH back ends  *)
(* extract, the system map they parse, and the register image an argument  *)
(* is lowered to.  An archive is a sequence of entries [type, path, file,  *)
(* ext]; its system map is a record of the fields of system_map.xml.       *)
(*                                                                         *)
(* An xclbin: its AI Engine graph (frt/src/xrt/metadata.rs) and the        *)
(* register program a PL controller starts and stops the graph with        *)
(* (frt/src/xrt/pl_control.rs).  A value is a sequence of bytes, a word    *)
(* one of four bytes, and a program a sequence of <<address, word>>.       *)
(*                                                                         *)
(* An optional value is a sequence of at most one element; a failed        *)
(* reading is <<>> as well.                                                *)
(***************************************************************************)
EXTENDS Integers, Sequences, FiniteSets, SequencesExt, TLC

RegisterBytes == 4

\* exactly_one: at most one member of a name.
AtMostOne(s) == Len(s) <= 1

\* safe_relative_path: relative, without parent components.
SafePath(entry) == entry.path \in {"inside", "self"}

Files(archive) == SelectSeq(archive, LAMBDA e : e.type = "Regular" /\ e.path = "inside")

\* extract: only regular files and directories that stay inside, no file twice.
VbinExtractable(archive) ==
  /\ \A i \in DOMAIN archive :
       archive[i].type \in {"Regular", "Directory"} /\ SafePath(archive[i])
  /\ LET files == Files(archive) IN \A i, j \in DOMAIN files : i # j => files[i] # files[j]

Named(archive, file) == SelectSeq(Files(archive), LAMBDA e : e.file = file)
Pdis(archive) == SelectSeq(Files(archive), LAMBDA e : e.file = "other" /\ e.ext = "pdi")
-----------------------------------------------------------------------------
(* system_map.xml *)

\* parse_memory_target; every allocator-selected target is HbmVnoc.
MemoryTarget(text) ==
  CASE text \in {"MEM", "HBM", "HBM_VNOC"} -> <<[kind |-> "HbmVnoc", bank |-> 0]>>
    [] text \in {"HBM0", "HBM3", "HBM63"} ->
         <<[kind |-> "Hbm", bank |-> CASE text = "HBM0" -> 0 [] text = "HBM3" -> 3 [] OTHER -> 63]>>
    [] text \in {"DDR0", "DDR1"} -> <<[kind |-> "Ddr", bank |-> 0]>>
    [] OTHER -> <<>>

\* parse_arg: aligned offset, at most 64 bits; an omitted range is 32.
ParseArg(raw) ==
  IF raw.kind \in {"scalar", "buffer"} /\ raw.offset % RegisterBytes = 0 /\ raw.range <= 64
  THEN <<[raw EXCEPT !.range = IF raw.range = -1 THEN 32 ELSE raw.range]>>
  ELSE <<>>

\* parse_system_map: one named kernel at an aligned base, a clock that is not
\* zero, argument indices and connected ports that do not repeat.
ParseSystemMap(map) ==
  LET kernel == map.kernels[1]
      args == [i \in DOMAIN kernel.args |-> ParseArg(kernel.args[i])]
      links == [i \in DOMAIN kernel.connections |-> MemoryTarget(kernel.connections[i].target)]
      ports == {kernel.connections[i].port : i \in DOMAIN kernel.connections}
      ok == /\ map.platform \in {"Hardware", "Simulation", "Emulation"}
            /\ map.clock > 0
            /\ Len(map.kernels) = 1
            /\ kernel.name # "" /\ kernel.base % RegisterBytes = 0
            /\ \A i \in DOMAIN args : args[i] # <<>>
            /\ \A i, j \in DOMAIN args : args[i][1].index = args[j][1].index => i = j
            /\ \A i \in DOMAIN links : links[i] # <<>>
            /\ Cardinality(ports) = Len(kernel.connections)
  IN IF ~ok THEN <<>>
     ELSE <<[platform |-> map.platform, clock |-> map.clock, base |-> kernel.base,
             args |-> SortSeq([i \in DOMAIN args |-> args[i][1]],
                              LAMBDA a, b : a.index < b.index),
             connections |-> [p \in ports |->
               links[CHOOSE i \in DOMAIN links : kernel.connections[i].port = p][1]]]>>

\* Vbin::open: one system map, at most one simulator.
OpenVbin(vbin) ==
  IF /\ VbinExtractable(vbin.archive)
     /\ Len(Named(vbin.archive, "system_map.xml")) = 1
     /\ AtMostOne(Named(vbin.archive, "vpp_sim"))
  THEN ParseSystemMap(vbin.map) ELSE <<>>
-----------------------------------------------------------------------------
(* Arguments *)

ImageArg(kernel, index) == {a \in Range(kernel.args) : a.index = index}
CeilDiv(a, b) == (a + b - 1) \div b

\* register_words: the value, zero-padded to whole words, at consecutive
\* offsets; a value wider than the register is refused.
RegisterWords(arg, value) ==
  LET bits == IF arg.range = 0 THEN 32 ELSE arg.range
      words == CeilDiv(bits, 32)
      byte(k) == IF k <= Len(value) THEN value[k] ELSE 0
  IN IF Len(value) > CeilDiv(bits, 8) THEN <<>>
     ELSE [w \in 1..words |->
             [offset |-> arg.offset + RegisterBytes * (w - 1),
              word |-> [b \in 1..RegisterBytes |-> byte(RegisterBytes * (w - 1) + b)]]]

ValidateScalarArg(kernel, index, value) ==
  \E a \in ImageArg(kernel, index) : a.kind = "scalar" /\ RegisterWords(a, value) # <<>>

\* The memory behind a buffer argument's port.
ValidateBufferArg(kernel, index, bytes) ==
  IF /\ bytes # 0
     /\ \E a \in ImageArg(kernel, index) :
          a.kind = "buffer" /\ a.range = 64 /\ a.port \in DOMAIN kernel.connections
  THEN <<kernel.connections[(CHOOSE a \in ImageArg(kernel, index) : TRUE).port]>>
  ELSE <<>>
-----------------------------------------------------------------------------
(* The AI Engine graph of an xclbin *)

CoreControl == 0          \* the address of the core control register
CoreEnable == <<1, 0, 0, 0>>
CoreDisable == <<0, 0, 0, 0>>
MaxProgramWords == 1024

\* parse_aie_graph: the TAPA graph of the section, with the runtime parameters
\* that carry its name; one without an argument or a size is an error.
ParseAieGraph(section) ==
  LET ours == SelectSeq(section.graphs, LAMBDA g : g.name \in {"tapa_aie", "tapa_aie_forever"})
      graph == ours[1]
      rtps == SelectSeq(section.rtps, LAMBDA r : r.graph = graph.name)
  IN IF ours = <<>> THEN [ok |-> TRUE, graph |-> <<>>]
     ELSE [ok |-> \A i \in DOMAIN rtps : rtps[i].arg # -1 /\ rtps[i].bytes # -1,
           graph |-> <<[forever |-> graph.name = "tapa_aie_forever",
                        iterations |-> graph.iterations, rtps |-> rtps]>>]

\* The AIE metadata section, if the xclbin has one.
AieGraph(xclbin) ==
  IF xclbin.section = <<>> THEN [ok |-> TRUE, graph |-> <<>>] ELSE ParseAieGraph(xclbin.section[1])

\* AieRtp::scalar_value: the scalar its argument carries, resized.
Resize(value, bytes) == [k \in 1..bytes |-> IF k <= Len(value) THEN value[k] ELSE 0]
Words(value) ==
  [w \in 1..((Len(value) + 3) \div 4) |->
     [b \in 1..4 |-> IF 4 * (w - 1) + b <= Len(value) THEN value[4 * (w - 1) + b] ELSE 0]]
RtpWrites(rtp, values) ==
  LET words == Words(Resize(values[rtp.arg], rtp.bytes))
  IN [w \in DOMAIN words |-> <<rtp.ping + 4 * (w - 1), words[w]>>]
-----------------------------------------------------------------------------
\* validate_memory_map: an iteration register, single-buffered parameters, and
\* no register that one broadcast write would hit twice.
ValidMemoryMap(graph) ==
  /\ graph.iterations # {}
  /\ \A i \in DOMAIN graph.rtps :
       /\ graph.rtps[i].ping = graph.rtps[i].pong
       /\ graph.rtps[i].ping \notin graph.iterations
       /\ \A j \in 1..(i - 1) : graph.rtps[j].ping # graph.rtps[i].ping

IterationCount(graph) == IF graph.forever THEN <<255, 255, 255, 255>> ELSE <<1, 0, 0, 0>>

\* pl_control::start: disable on a reset, then the parameters, the iteration
\* counts, and the enable last.
StartProgram(graph, values, reset) ==
  (IF reset THEN << <<CoreControl, CoreDisable>> >> ELSE <<>>)
    \o FlattenSeq([i \in DOMAIN graph.rtps |-> RtpWrites(graph.rtps[i], values)])
    \o SetToSeq({<<a, IterationCount(graph)>> : a \in graph.iterations})
    \o << <<CoreControl, CoreEnable>> >>

\* stop and abort are the same program.
StopProgram == << <<CoreControl, CoreDisable>> >>

\* encode refuses a program that is too large, and start one whose parameters
\* are not scalars.
Startable(graph, values, reset) ==
  /\ ValidMemoryMap(graph)
  /\ \A i \in DOMAIN graph.rtps : graph.rtps[i].arg \in DOMAIN values
  /\ 2 * Len(StartProgram(graph, values, reset)) <= MaxProgramWords
=============================================================================
