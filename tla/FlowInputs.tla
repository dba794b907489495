----------------------------- MODULE FlowInputs -----------------------------
(***************************************************************************)
(* What the steps of the tapa command line derive from their arguments and *)
(* from the task graph before they touch the work directory                *)
(* (tapa-cli/src/steps: synth/device_resolve.rs, synth/hls_sources.rs,     *)
(* pack/kernel_xml_ports.rs, pack/cosim_compat.rs, link.rs).               *)
(*                                                                         *)
(* An optional value is a set of at most one element, and a computation    *)
(* that may fail yields the set of its results: empty is the error.        *)
(***************************************************************************)
EXTENDS Naturals, FiniteSets

CONSTANTS
  SlashShells,      \* name -> [part, clock] of the SLASH shells
  VitisPlatforms,   \* name -> [part, clock] of the installed platforms
  HostParallelism   \* worker threads of the host

Some(option) == CHOOSE x \in option : TRUE
Override(given, default) == IF given # {} THEN given ELSE default

(***************************************************************************)
(* resolve_device_info: --platform, --part-num and --clock-period make a   *)
(* device.  A shell fixes its part and is for the SLASH target only.       *)
(***************************************************************************)

ShellDevice(args, target) ==
  LET shell == SlashShells[Some(args.platform)]
  IN {[part |-> shell.part, platform |-> args.platform, clock |-> c] :
        c \in {c \in Override(args.clock, {shell.clock}) :
                 target = "slash" /\ args.part \subseteq {shell.part}}}

PlatformDevice(args) ==
  LET info == VitisPlatforms[Some(args.platform)]
  IN {[part |-> p, platform |-> args.platform, clock |-> c] :
        p \in Override(args.part, {info.part}), c \in Override(args.clock, {info.clock})}

BareDevice(args) ==
  {[part |-> p, platform |-> {}, clock |-> c] : p \in args.part, c \in args.clock}

ResolveDeviceInfo(args, target) ==
  LET named(table) == args.platform # {} /\ args.platform \subseteq DOMAIN table
      devices == IF named(SlashShells) THEN ShellDevice(args, target)
                 ELSE IF target = "slash" THEN {}
                 ELSE IF named(VitisPlatforms) THEN PlatformDevice(args)
                 ELSE IF args.platform = {} THEN BareDevice(args) ELSE {}
  IN {d \in devices : d.clock # 0}

\* resolve_worker_count: no request, or a request for none, is the host's
\* parallelism, and a pool is never larger than its work.
ResolveWorkerCount(jobs, work) ==
  LET wanted == IF jobs \ {0} = {} THEN HostParallelism ELSE Some(jobs)
      cap == IF work = 0 THEN 1 ELSE work
  IN IF wanted < cap THEN wanted ELSE cap
-----------------------------------------------------------------------------
(* stage_hls_sources: every task's translation units are files of the      *)
(* rewritten tree that its manifest owns; upper tasks use no reserved name. *)

StreamCats == {"istream", "ostream", "istreams", "ostreams"}
IsMmap(cat) == cat \in {"mmap", "immap", "ommap", "async_mmap"}

ReservedPortNames == {"begin", "end", "in", "input", "out", "output", "reg", "wire"}

HlsTasks(graph) == {t \in graph.tasks : graph.synth[t] = "hls"}
AieTasks(graph) == {t \in graph.tasks : graph.synth[t] = "aie"}

Stages(graph, tree) ==
  /\ \A t \in graph.upper : {p.name : p \in graph.ports[t]} \cap ReservedPortNames = {}
  /\ \A t \in graph.tasks :
       graph.srcs[t] # {} /\ graph.srcs[t] \subseteq tree.owned \cap DOMAIN tree.files
  /\ tree.owned \subseteq DOMAIN tree.files

\* aie::pl_graph: the programmable-logic half.  Its top keeps a scalar or a
\* memory argument, to be started by, and gains the boundary streams.
PlGraph(graph) ==
  {IF AieTasks(graph) = {} THEN g
   ELSE [g EXCEPT !.tasks = @ \ AieTasks(graph), !.upper = @ \ AieTasks(graph),
                  !.ports[g.top] = @ \cup g.plio] :
     g \in {g \in {graph} : AieTasks(graph) # {} =>
             \E p \in graph.ports[graph.top] : p.cat = "scalar" \/ IsMmap(p.cat)}}

\* What HLS reads for a task: the contents of its translation units.
Sources(graph, tree, t) == [f \in graph.srcs[t] |-> tree.files[f]]

\* reuse mode of a run: fixtures over a required cache over a fresh one.
HlsReuse(args) ==
  IF args.fixtures THEN "fixtures"
  ELSE IF ~args.mtime THEN "never"
  ELSE IF args.required THEN "required" ELSE "iffresh"
-----------------------------------------------------------------------------
(* The ports of the packaged kernel, as names <<base, kind, index>>.        *)

Base(port) == <<port.name, "", 0>>
Channels(port, count) == {<<port.name, "_", i>> : i \in 0..(count - 1)}

\* kernel_arg_names: HLS names a single stream after its FIFO and expands
\* every channel count; the other targets expand the nonzero ones.
KernelArgNames(port, target) ==
  LET chan == IF target # "hls" THEN port.chan \ {0}
              ELSE CASE port.cat = "scalar" -> {}
                     [] port.cat \in {"istreams", "ostreams"} -> Override(port.chan, {1})
                     [] OTHER -> port.chan
  IN IF target = "hls" /\ port.cat \in {"istream", "ostream"} THEN {<<port.name, "_s", 0>>}
     ELSE IF chan # {} THEN Channels(port, Some(chan)) ELSE {Base(port)}

\* A memory port is its base name when the RTL declares that, else those of
\* its channels the RTL declares, else its declared names.
ProjectedPortNames(port, bases) ==
  LET names == KernelArgNames(port, "vitis")
  IN IF ~IsMmap(port.cat) THEN names
     ELSE IF Base(port) \in bases THEN {Base(port)}
     ELSE IF names \cap bases # {} THEN names \cap bases ELSE names

KernelXmlPorts(ports, bases) ==
  UNION {{[name |-> n, mmap |-> IsMmap(p.cat)] : n \in ProjectedPortNames(p, bases)} : p \in ports}

\* validate_slash_top: no host streams, and a scalar or memory to start by.
SlashTopValid(ports) ==
  /\ \A p \in ports : p.cat \notin StreamCats
  /\ \E p \in ports : p.cat = "scalar" \/ IsMmap(p.cat)

\* check_cosim_supported_categories: the test benches know no immap or ommap.
CosimSupported(ports) == \A p \in ports : p.cat \notin {"immap", "ommap"}
-----------------------------------------------------------------------------
(* plan_link: the package's own state decides the backend, and its clock    *)
(* the frequency unless one is given.                                       *)

\* target_frequency_mhz: whole MHz, rounded down, at least one (period in ps).
TargetFrequencyMhz(period) == {f \in {1000000 \div period} : f >= 1}

LinkFrequency(args, state) ==
  IF args.mhz # {} THEN args.mhz \ {0}
  ELSE UNION {TargetFrequencyMhz(d.clock) : d \in state.dev}

LinkPlan(args, state) ==
  {[backend |-> state.graph.target, mhz |-> f, sim |-> args.sim] :
     f \in {f \in LinkFrequency(args, state) :
              CASE state.graph.target = "vitis" ->
                     ~args.sim /\ \E d \in state.dev : d.platform # {}
                [] state.graph.target = "slash" -> args.connectivity
                [] OTHER -> FALSE}}
=============================================================================
