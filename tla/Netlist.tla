------------------------------- MODULE Netlist -------------------------------
(***************************************************************************)
(* The RTL of a task as code generation sees it: the modules of tapa-rtl   *)
(* (module.rs), the shells of template.rs, and what an async mmap port     *)
(* shows of itself (passes/async_mmap.rs).                                 *)
(*                                                                         *)
(* A module is [ports, zero, wires, items, kids]: a port [name, dir, id],  *)
(* zero the outputs that are tied to 0, an item [inst, drives, reads] an   *)
(* assignment or a library instance, and a kid an instance of a generated  *)
(* module.  Wires that always run together are one net: the data and valid *)
(* of a stream ("dout", "din"), the done, idle and ready of a handshake    *)
(* ("ap_done"), and the payload and valid of an AXI channel, whose id is   *)
(* the width of its AXI ID (0 elsewhere).                                  *)
(***************************************************************************)
EXTENDS TaskGraph

\* Nets a module always has.
Clk == <<"ap", "clk">>
RstN == <<"ap", "rst", "n">>
Rst == <<"ap", "rst">>
Start == <<"ap", "start">>
Done == <<"ap", "done">>
Zero == <<"0">>              \* a constant on a connection
Open == <<>>                 \* a connection left open

In(name) == [name |-> name, dir |-> "in", id |-> 0]
Out(name) == [name |-> name, dir |-> "out", id |-> 0]

HasPort(m, name) == \E p \in m.ports : p.name = name
\* add_port and add_signal refuse a name that is there; the callers go on.
AddPorts(m, ports) == [m EXCEPT !.ports = @ \cup {p \in ports : ~HasPort(m, p.name)}]
AddWires(m, wires) == [m EXCEPT !.wires = @ \cup wires]
AddItem(m, item) == [m EXCEPT !.items = Append(@, item)]
AddKid(m, kid) == [m EXCEPT !.kids = Append(@, kid)]

Whole(nets) == {[net |-> n, part |-> "all"] : n \in nets}
Item(inst, drives, reads) == [inst |-> inst, drives |-> Whole(drives), reads |-> reads]
Assign(lhs, rhs) == Item(<<>>, {lhs}, {rhs})

\* get_port_of: the first spelling of a stream signal the module has; lane 0
\* of an array may be spelled like a single stream.
Infixes == << <<"V">>, <<"r">>, <<"s">>, <<>> >>
Spelled(m, base, suffix) ==
  FirstThat([i \in DOMAIN Infixes |-> base \o Infixes[i] \o suffix], LAMBDA n : HasPort(m, n))
GetPortOf(m, name, suffix) ==
  LET direct == Spelled(m, Sanitize(name), suffix)
  IN IF direct # <<>> \/ ~HasLane(name) THEN direct
     ELSE IF name[Len(name)] = Lane[1] THEN Spelled(m, Base(name), suffix) ELSE <<>>
StreamPortName(name, suffix) == name \o <<"s">> \o suffix

IstreamSuffixes == {<<"dout">>, <<"read">>}
OstreamSuffixes == {<<"din">>, <<"full">>}
-----------------------------------------------------------------------------
(* M-AXI *)

Channels5 == {"AR", "R", "AW", "W", "B"}
Request(c) == c \in {"AR", "AW", "W"}
Reading(c) == c \in {"AR", "R"}
HasId(c) == c # "W"
MAxi(arg) == <<"m", "axi">> \o Sanitize(arg)
Payload(prefix, c) == prefix \o <<c>>
Ready(prefix, c) == prefix \o <<c, "READY">>
\* The nets the master of an interface drives, and those it reads.
MasterOut(prefix, chans) ==
  {Payload(prefix, c) : c \in {x \in chans : Request(x)}}
    \cup {Ready(prefix, c) : c \in {x \in chans : ~Request(x)}}
MasterIn(prefix, chans) ==
  {Ready(prefix, c) : c \in {x \in chans : Request(x)}}
    \cup {Payload(prefix, c) : c \in {x \in chans : ~Request(x)}}

\* build_m_axi_ports
MAxiPorts(arg, id) ==
  LET p == MAxi(arg)
      Id(n) == IF \E c \in Channels5 : HasId(c) /\ n = Payload(p, c) THEN id ELSE 0
  IN {[name |-> n, dir |-> "out", id |-> Id(n)] : n \in MasterOut(p, Channels5)}
       \cup {[name |-> n, dir |-> "in", id |-> Id(n)] : n \in MasterIn(p, Channels5)}
-----------------------------------------------------------------------------
(* The shell of a task (template.rs); Vitis HLS names the ports of a leaf  *)
(* the same way.                                                           *)

\* The read output of a peek is never connected, and left out.
IstreamPorts(name) ==
  {In(StreamPortName(name, <<"dout">>)), Out(StreamPortName(name, <<"read">>)),
   In(name \o <<"peek", "dout">>)}
OstreamPorts(name) ==
  {Out(StreamPortName(name, <<"din">>)), In(StreamPortName(name, <<"full">>)), In(name \o <<"peek">>)}
AddrOstreamPorts(name) ==
  {Out(StreamPortName(name, <<"din">>)), In(StreamPortName(name, <<"full">>)), In(name \o <<"offset">>)}
AsyncMmapPorts(name) ==
  AddrOstreamPorts(name \o <<"read", "addr">>) \cup IstreamPorts(name \o <<"read", "data">>)
    \cup AddrOstreamPorts(name \o <<"write", "addr">>) \cup OstreamPorts(name \o <<"write", "data">>)
    \cup IstreamPorts(name \o <<"write", "resp">>)

Indexed(name, n) == {name \o <<Digit[i]>> : i \in 1..n}
StreamNames(port) ==
  IF port.cat \in {"Istreams", "Ostreams"} /\ port.chans # <<>> /\ port.chans[1] > 1
  THEN Indexed(Sanitize(port.name), port.chans[1]) ELSE {Sanitize(port.name)}
MmapNames(port) ==
  IF port.chans # <<>> THEN Indexed(Sanitize(port.name), port.chans[1]) ELSE {Sanitize(port.name)}

\* render_task_template; id is the width of the AXI IDs the task issues.
PortShell(port, id) ==
  CASE port.cat = "Scalar" -> {In(Sanitize(port.name))}
    [] IsInputStream(port.cat) -> UNION {IstreamPorts(n) : n \in StreamNames(port)}
    [] IsOutputStream(port.cat) -> UNION {OstreamPorts(n) : n \in StreamNames(port)}
    [] port.cat = "AsyncMmap" -> AsyncMmapPorts(Sanitize(port.name))
    [] OTHER -> UNION {{In(n \o <<"offset">>)} \cup MAxiPorts(n, id) : n \in MmapNames(port)}
Handshake == {In(Clk), In(RstN), In(Start), Out(Done)}
Module(ports) == [ports |-> ports, zero |-> {}, wires |-> {}, items |-> <<>>, kids |-> <<>>]
TaskTemplate(task, id) ==
  Module(Handshake \cup UNION {PortShell(task.ports[i], id) : i \in DOMAIN task.ports})
-----------------------------------------------------------------------------
(* FIFO-style async mmap *)

ReadTags == {<<"read", "addr">>, <<"read", "data">>}
WriteTags == {<<"write", "addr">>, <<"write", "data">>, <<"write", "resp">>}
Tags == ReadTags \cup WriteTags
TagIn(tag) == tag \in {<<"read", "data">>, <<"write", "resp">>}
TagSuffixes(tag) == IF TagIn(tag) THEN IstreamSuffixes ELSE OstreamSuffixes
TagPort(m, port, tag, suffix) == Spelled(m, port \o tag, suffix)

ActiveTags(m, port) ==
  {tag \in Tags :
     \/ \E s \in TagSuffixes(tag) :
          TagPort(m, port, tag, s) # <<>> \/ TagPort(m, port, tag \o <<"peek">>, s) # <<>>
     \/ TagPort(m, port, tag, <<"offset">>) # <<>>}

\* enabled_axi_directions: a half is disabled only when every activity output
\* it has is tied to zero.
HalfEnabled(m, port, tags) ==
  \E tag \in tags :
    LET activity == TagPort(m, port, tag, IF TagIn(tag) THEN <<"read">> ELSE <<"din">>)
    IN activity = <<>> \/ (activity # <<>> /\ activity[1] \notin m.zero)
EnabledChannels(m, port, tags) ==
  (IF HalfEnabled(m, port, tags \cap ReadTags) THEN {"AR", "R"} ELSE {})
    \cup (IF HalfEnabled(m, port, tags \cap WriteTags) THEN {"AW", "W", "B"} ELSE {})

HasDirectMAxi(m, port) ==
  HasPort(m, port \o <<"offset">>)
    \/ \E n \in MasterOut(MAxi(port), Channels5) \cup MasterIn(MAxi(port), Channels5) : HasPort(m, n)
=============================================================================
