--------------------------- MODULE CosimTestbench ---------------------------
(***************************************************************************)
(* The testbench of a co-simulation (frt-cosim/src/tb): the arguments of a *)
(* kernel as the two generators, for xsim and for Verilator, lay them out, *)
(* and what the rendered testbench does to start the kernel.               *)
(*                                                                         *)
(* A plan is the data a template is rendered from.  A value is a sequence  *)
(* of bytes, least significant first; a register write is <<offset, four   *)
(* bytes>>.  A port is named by the parts of its name.  Packaged names are *)
(* bare identifiers, which no back end's spelling changes.                 *)
(***************************************************************************)
EXTENDS CosimPackage

WordBytes == 4

\* read_verilog_contents
Contents(spec) == [i \in DOMAIN spec.verilog |-> spec.verilog[i].body]

\* port_declaration: the width the first file that declares the port gives it.
PortDeclaration(files, port) ==
  LET found == SelectSeq(files, LAMBDA f : port \in DOMAIN f.ports)
  IN IF found = <<>> THEN <<>> ELSE <<found[1].ports[port]>>

\* top_module_contents: the file of the DUT alone.
TopModuleContents(files, top) ==
  LET found == SelectSeq(files, LAMBDA f : f.module = top)
  IN IF found = <<>> THEN <<>> ELSE <<found[1]>>

\* direct_offset_port_name: <name>_offset, or <name>_r where only that exists.
DirectOffsetPortName(files, name) ==
  IF PortDeclaration(files, Append(name, "offset")) = <<>>
     /\ PortDeclaration(files, Append(name, "r")) # <<>>
  THEN Append(name, "r") ELSE Append(name, "offset")

\* infer_peek_name
InferPeekName(name) ==
  LET n == Len(name) base == SubSeq(name, 1, n - 1)
  IN CASE name[n] = "s" -> Append(base, "peek")
       [] name[n] \in {"0", "1", "2", "3"} -> base \o <<"peek", name[n]>>
       [] OTHER -> Append(name, "peek")

\* lookup_register_offset
LookupRegisterOffset(spec, name) ==
  LET at(key) == IF key \in DOMAIN spec.regs THEN <<spec.regs[key]>> ELSE <<>>
  IN OrElse(at(name), at(Append(name, "offset")))

\* required_register_offset
RequiredRegisterOffset(spec, name) ==
  OrElse(LookupRegisterOffset(spec, name), IF spec.mode = "hls" THEN <<0>> ELSE <<>>)

\* Mutant: every word of a value goes to the same register.
ScalarWordsMutant(offset, bytes) ==
  [w \in 1..DivCeil(Len(bytes), WordBytes) |->
     <<offset, [b \in 1..WordBytes |->
        LET k == WordBytes * (w - 1) + b IN IF k <= Len(bytes) THEN bytes[k] ELSE 0]>>]

\* scalar_words: whole words at consecutive offsets.
ScalarWords(offset, bytes) ==
  [w \in 1..DivCeil(Len(bytes), WordBytes) |->
     <<offset + WordBytes * (w - 1), [b \in 1..WordBytes |->
        LET k == WordBytes * (w - 1) + b IN IF k <= Len(bytes) THEN bytes[k] ELSE 0]>>]
-----------------------------------------------------------------------------
(* The three kinds of argument (tb/mod.rs) *)

AxiPort(name, channel) == <<"m_axi">> \o name \o <<channel>>
PortWidth(files, port) == Default(PortDeclaration(files, port), 1)

\* MmapArg as each generator fills it: xsim mirrors the widths of the DUT's
\* ports, Verilator models memory of the segment's size.
MmapArg(spec, arg, sim, bases, sizes) ==
  LET files == Contents(spec)
      lo == RequiredRegisterOffset(spec, arg.name)
  IN [name |-> arg.name, port |-> DirectOffsetPortName(files, arg.name),
      axi |-> AxiPort(arg.name, "ARADDR"), bytes |-> DivCeil(arg.width, 8),
      base |-> bases[arg.name], lo |-> lo[1], hi |-> lo[1] + WordBytes,
      size |-> IF sim = "verilator" THEN sizes[arg.name] ELSE 0,
      ids |-> IF sim = "xsim" THEN PortWidth(files, AxiPort(arg.name, "ARID")) ELSE 0,
      locks |-> IF sim = "xsim" THEN PortWidth(files, AxiPort(arg.name, "ARLOCK")) ELSE 0]

ScalarArg(spec, arg, scalars) ==
  LET raw == IF arg.id \in DOMAIN scalars THEN <<scalars[arg.id]>> ELSE <<>>
      bytes == NormalizedScalarBytes(arg.width, raw)
  IN [name |-> arg.name, port |-> arg.name, value |-> bytes,
      words |-> ScalarWords(RequiredRegisterOffset(spec, arg.name)[1], bytes)]

\* The companion peek port, when the DUT has both of its signals.
Peek(spec, arg) ==
  LET top == TopModuleContents(Contents(spec), spec.top)
      peek == InferPeekName(arg.name)
  IN IF /\ spec.mode = "hls" /\ arg.dir = "In"
        /\ PortDeclaration(top, Append(peek, "dout")) # <<>>
        /\ PortDeclaration(top, Append(peek, "empty_n")) # <<>>
     THEN <<peek>> ELSE <<>>

\* A FIFO's data port is the payload and the end-of-transaction bit.
DataPort(arg) == Append(arg.name, IF arg.dir = "In" THEN "dout" ELSE "din")
Aggregate(spec, arg) ==
  PortDeclaration(TopModuleContents(Contents(spec), spec.top), DataPort(arg))

StreamArg(spec, arg) ==
  LET bytes == DivCeil(arg.width, 8)
  IN [name |-> arg.name, axis |-> arg.axis, bytes |-> bytes, dpi |-> bytes + 1,
      bits |-> IF spec.mode = "hls" /\ ~arg.axis THEN Aggregate(spec, arg)[1] - 1 ELSE 8 * bytes,
      peek |-> Peek(spec, arg)]

\* What classify_args refuses: an argument without a register, and a FIFO
\* whose port is undeclared, too wide for the host's frame, or unlike its peek
\* port.
Classifiable(spec, arg) ==
  IF arg.kind = "Stream"
  THEN spec.mode = "hls" /\ ~arg.axis =>
         LET top == TopModuleContents(Contents(spec), spec.top)
             wide == Aggregate(spec, arg)
             peek == Peek(spec, arg)
         IN /\ wide # <<>> /\ wide[1] >= 2
            /\ wide[1] - 1 <= 8 * DivCeil(arg.width, 8)
            /\ peek # <<>> => PortDeclaration(top, Append(peek[1], "dout")) = wide
  ELSE RequiredRegisterOffset(spec, arg.name) # <<>>

\* control_addr_width: the bits of the largest offset that is programmed.
BitWidth(n) == CHOOSE w \in 0..31 : n < 2^w /\ (w > 0 => n >= 2^(w - 1))
Largest(S) == CHOOSE x \in S : \A y \in S : y <= x

ControlAddrWidth(mmaps, scalars) ==
  BitWidth(Largest({12} \cup {mmaps[i].hi : i \in DOMAIN mmaps} \cup
    UNION {{scalars[i].words[w][1] : w \in DOMAIN scalars[i].words} : i \in DOMAIN scalars}))
-----------------------------------------------------------------------------
(* render_tb of the two generators *)

\* The width of the control address port of the xsim testbench: what the DUT
\* declares, which must do, or what the offsets need.  The C++ testbench has
\* the whole address.
WholeAddress == 30
ControlPort(spec, needed) ==
  LET files == SelectSeq(Contents(spec), LAMBDA f : f.width # <<>>)
  IN IF files = <<>> THEN <<IF needed > 8 THEN needed ELSE 8>>
     ELSE IF files[1].width[1] < needed THEN <<>> ELSE files[1].width

RenderTb(spec, sim, scalars, bases, sizes) ==
  LET of(kind) == SelectSeq(spec.args, LAMBDA a : a.kind = kind)
      mmaps == LET s == of("Mmap") IN [i \in DOMAIN s |-> MmapArg(spec, s[i], sim, bases, sizes)]
      values == LET s == of("Scalar") IN [i \in DOMAIN s |-> ScalarArg(spec, s[i], scalars)]
      streams(dir) == LET s == SelectSeq(of("Stream"), LAMBDA a : a.dir = dir)
                      IN [i \in DOMAIN s |-> StreamArg(spec, s[i])]
      width == IF sim = "xsim" THEN ControlPort(spec, ControlAddrWidth(mmaps, values)) ELSE <<WholeAddress>>
  IN IF \E i \in DOMAIN spec.args : ~Classifiable(spec, spec.args[i]) THEN <<>>
     ELSE IF width = <<>> THEN <<>>
     ELSE <<[top |-> spec.top, mode |-> spec.mode, width |-> width[1], mmaps |-> mmaps,
             scalars |-> values, ins |-> streams("In"), outs |-> streams("Out")]>>

\* What the rendered testbench writes over AXI-Lite in Vitis mode: enable the
\* interrupts, program the arguments, and only then start.
One == <<1, 0, 0, 0>>

ControlProgram(plan) ==
  << <<4, One>>, <<8, One>> >>
    \o Concat([i \in DOMAIN plan.mmaps |->
         LET m == plan.mmaps[i] IN << <<m.lo, SubSeq(m.base, 1, 4)>>, <<m.hi, SubSeq(m.base, 5, 8)>> >>])
    \o Concat([i \in DOMAIN plan.scalars |-> plan.scalars[i].words])
    \o << <<0, One>> >>
=============================================================================
