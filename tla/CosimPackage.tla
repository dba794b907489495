---------------------------- MODULE CosimPackage ----------------------------
(***************************************************************************)
(* What fast co-simulation reads out of a kernel package                   *)
(* (frt-cosim/src/metadata): an archive of entries becomes a KernelSpec.   *)
(*                                                                         *)
(* A package is [ext, entries]; an entry is [kind, path, deep, file,       *)
(* body], its kind what its name ends with.  The body of a kernel.xml is   *)
(* its sequence of elements, that of tapa.json the state [ok, part, top,   *)
(* ports], and that of any other file the file itself: a Verilog file is   *)
(* [module, ports, width, ips, plain, params, comments], the last two the  *)
(* registers a control file spells as parameters and as comments.  A name  *)
(* is the sequence of its parts (a_s is <<"a", "s">>); an attribute or an  *)
(* optional value is a sequence of at most one element, -1 when it does    *)
(* not parse; a failed reading is <<>>.                                    *)
(***************************************************************************)
EXTENDS Integers, Sequences, FiniteSets, Functions, TLC

Bad == -1
OrElse(a, b) == IF a # <<>> THEN a ELSE b
Default(a, b) == OrElse(a, <<b>>)[1]
DivCeil(a, b) == (a + b - 1) \div b
\* The sequences of a sequence, one after the other.
Concat(seqs) ==
  MapThenFoldSet(LAMBDA s, rest : s \o rest, <<>>, LAMBDA i : seqs[i],
                 LAMBDA S : CHOOSE i \in S : \A j \in S : i <= j, DOMAIN seqs)

\* normalized_scalar_bytes: a value of exactly the declared width, one byte at
\* least, zero-extended or truncated.
NormalizedScalarBytes(width, raw) ==
  LET n == IF width = 0 THEN 1 ELSE DivCeil(width, 8)
  IN [k \in 1..n |-> IF raw # <<>> /\ k <= Len(raw[1]) THEN raw[1][k] ELSE 0]
-----------------------------------------------------------------------------
(* kernel.xml (kernel_xml.rs) *)

CScalarTypeBits(type) ==
  CASE type \in {"bool", "char", "uint8_t"} -> <<8>>
    [] type \in {"short", "uint16_t"} -> <<16>>
    [] type \in {"int", "unsigned", "uint32_t", "float"} -> <<32>>
    [] type \in {"long", "uint64_t", "double"} -> <<64>>
    [] OTHER -> <<>>

Bits(bytes) == [i \in DOMAIN bytes |-> 8 * bytes[i]]

\* scalar_width: the logical width before the register's footprint.
ScalarWidth(arg) ==
  OrElse(arg.dataWidth, OrElse(Bits(arg.hostSize), OrElse(CScalarTypeBits(arg.type), Bits(arg.size))))

\* stream_dir: the port's mode, or a hint in its name.
StreamDir(mode, port) ==
  CASE mode = "read_only" -> "In"
    [] mode = "write_only" -> "Out"
    [] OTHER -> IF port # <<>> /\ port[1] \in {"s_axis", "istream"} THEN "In" ELSE "Out"

ArgSpec(name, id, kind, width, depth, dir, axis) ==
  [name |-> name, id |-> id, kind |-> kind, width |-> width, depth |-> depth, dir |-> dir,
   axis |-> axis]

\* resolve_arg
ResolveArg(arg, ports) ==
  LET named == SelectSeq(ports, LAMBDA p : p.name = arg.port /\ p.name # <<>>)
      port == IF named = <<>> THEN [mode |-> "", dataWidth |-> <<>>] ELSE named[Len(named)]
      width == Default(OrElse(port.dataWidth, arg.dataWidth), 32)
  IN CASE arg.qualifier = 0 ->
            IF ScalarWidth(arg) = <<>> THEN <<>>
            ELSE <<ArgSpec(arg.name, arg.id, "Scalar", ScalarWidth(arg)[1], 0, "In", FALSE)>>
       [] arg.qualifier = 1 -> <<ArgSpec(arg.name, arg.id, "Mmap", width, 0, "In", FALSE)>>
       [] arg.qualifier = 4 ->
            <<ArgSpec(arg.name, arg.id, "Stream", width, Default(arg.depth, 16),
                      StreamDir(port.mode, arg.port), TRUE)>>
       [] OTHER -> <<>>

\* What the readers of attributes refuse: a number that does not parse, and a
\* depth of zero.
WellFormed(kernel) ==
  /\ \A i \in DOMAIN kernel.ports : kernel.ports[i].dataWidth # <<Bad>>
  /\ \A i \in DOMAIN kernel.args :
       LET a == kernel.args[i]
       IN /\ a.id # Bad /\ a.qualifier # Bad
          /\ <<Bad>> \notin {a.dataWidth, a.depth, a.hostSize, a.size}
          /\ a.depth # <<0>>

\* parse: the one kernel that is neither an AI Engine nor the PL controller,
\* its arguments resolved once all its ports are read.
ParseKernelXml(elements) ==
  LET kernels == SelectSeq(elements, LAMBDA e : e.tag = "kernel" /\ ~e.aie /\ ~e.control)
      kernel == kernels[1]
      args == [i \in DOMAIN kernel.args |-> ResolveArg(kernel.args[i], kernel.ports)]
  IN IF Len(kernels) # 1 THEN <<>>
     ELSE IF kernel.name = "" \/ ~WellFormed(kernel) THEN <<>>
     ELSE IF \E i \in DOMAIN args : args[i] = <<>> THEN <<>>
     ELSE <<[top |-> kernel.name, args |-> [i \in DOMAIN args |-> args[i][1]]]>>

\* parse_register_map: the first offset of a name, from the parameters or,
\* when there is none, from the comments.
ParseRegisterMap(control) ==
  LET rows == IF control.params # <<>> THEN control.params ELSE control.comments
      names == {rows[i][1] : i \in DOMAIN rows}
  IN [n \in names |-> SelectSeq(rows, LAMBDA r : r[1] = n)[1][2]]
-----------------------------------------------------------------------------
(* tapa.json (zip_pkg.rs) *)

\* Port::kernel_arg_names for the HLS target.
KernelArgNames(port) ==
  CASE port.cat = "scalar" -> << <<port.name>> >>
    [] port.cat \in {"istream", "ostream"} -> << <<port.name, "s">> >>
    [] port.cat \in {"istreams", "ostreams"} ->
         [c \in 1..Default(port.chans, 1) |-> <<port.name, ToString(c - 1)>>]
    [] OTHER -> IF port.chans = <<>> THEN << <<port.name>> >>
                ELSE [c \in 1..port.chans[1] |-> <<port.name, ToString(c - 1)>>]

\* The arguments of one port; their ids come with their place in the list.
PortArgs(port) ==
  LET names == KernelArgNames(port)
      kind == CASE port.cat = "scalar" -> "Scalar"
                [] port.cat \in {"mmap", "async_mmap"} -> "Mmap"
                [] OTHER -> "Stream"
      dir == IF port.cat \in {"ostream", "ostreams"} THEN "Out" ELSE "In"
  IN [c \in DOMAIN names |->
        ArgSpec(names[c], 0, kind, port.width, IF kind = "Stream" THEN Default(port.depth, 16) ELSE 0,
                dir, FALSE)]

\* spec_from_task_graph: ids are dense and in the order of declaration.
SpecFromTaskGraph(state) ==
  LET ports == state.ports
      args == Concat([i \in DOMAIN ports |-> PortArgs(ports[i])])
  IN IF \E i \in DOMAIN ports :
          \/ ports[i].cat \in {"immap", "ommap"}
          \/ ports[i].cat \in {"mmap", "async_mmap"} /\ ports[i].chans = <<0>>
     THEN <<>>
     ELSE <<[top |-> state.top, args |-> [i \in DOMAIN args |-> [args[i] EXCEPT !.id = i - 1]]]>>
-----------------------------------------------------------------------------
(* load_spec (metadata/mod.rs) *)

Of(package, kinds) == SelectSeq(package.entries, LAMBDA e : e.kind \in kinds)
Final(s) == s[Len(s)]

\* safe_extract_path, for every entry
Extractable(package) == \A i \in DOMAIN package.entries : package.entries[i].path = "inside"

\* ExtractedFiles::classify
Verilog(package) == Of(package, {"verilog", "control"})
Tcl(package) == Of(package, {"tcl"})
Xci(package) == SelectSeq(package.entries, LAMBDA e : e.kind = "xci" /\ ~e.deep)

KernelSpec(package, mode, parsed, part, regs) ==
  [top |-> parsed.top, mode |-> mode, args |-> parsed.args, part |-> part, regs |-> regs,
   verilog |-> Verilog(package), tcl |-> Tcl(package), xci |-> Xci(package)]

\* load_xo_spec: of two files of one kind the later one counts.
LoadXoSpec(package) ==
  LET xml == Of(package, {"kernel.xml"})
      states == Of(package, {"tapa.json"})
      controls == Of(package, {"control"})
      parsed == IF xml = <<>> THEN <<>> ELSE ParseKernelXml(Final(xml).body)
  IN IF parsed = <<>> \/ \E i \in DOMAIN states : ~states[i].body.ok THEN <<>>
     ELSE <<KernelSpec(package, "vitis", parsed[1],
                  IF states = <<>> THEN <<>> ELSE Final(states).body.part,
                  IF controls = <<>> THEN <<>> ELSE ParseRegisterMap(Final(controls).body))>>

LoadZipSpec(package) ==
  LET states == Of(package, {"tapa.json"})
      parsed == IF states = <<>> THEN <<>>
                ELSE IF ~Final(states).body.ok THEN <<>> ELSE SpecFromTaskGraph(Final(states).body)
  IN IF parsed = <<>> THEN <<>>
     ELSE <<KernelSpec(package, "hls", parsed[1], Final(states).body.part, <<>>)>>

\* What the archive holds, not how a .zip is named, picks the reader.
LoadSpec(package) ==
  IF ~Extractable(package) THEN <<>>
  ELSE CASE package.ext = "xo" -> LoadXoSpec(package)
         [] package.ext = "zip" ->
              IF Of(package, {"kernel.xml"}) # <<>> THEN LoadXoSpec(package)
              ELSE LoadZipSpec(package)
         [] OTHER -> <<>>
=============================================================================
