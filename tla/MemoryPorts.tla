----------------------------- MODULE MemoryPorts -----------------------------
(***************************************************************************)
(* Who shares which memory argument of an upper task, and how each child   *)
(* reaches it (tapa-codegen state/mmap/mod.rs and direct.rs, passes/m_axi, *)
(* the plan half of passes/axi_pipeline.rs).                               *)
(*                                                                         *)
(* A state is [graph, rtl, plan]: the data design, the module of each task *)
(* and the floorplan, if any.  A connection is [arg, slaves, geo]: slaves  *)
(* lists [child, index, port, threads, id], one per child port bound to    *)
(* the argument, and geo is [width, count, bytes].  A floorplan is         *)
(* [regions, routes]: a route [kind, ...] with its path of slots and its   *)
(* number of body registers; data widths are not modelled, ID widths are.  *)
(***************************************************************************)
EXTENDS Netlist, FiniteSetsExt

AxiIdWidth == 1
IsDirectMmap(cat) == cat \in {"Mmap", "AsyncMmap"}

RoutingIdBits(n) == CHOOSE k \in 0..32 : 2^k >= n /\ (k > 0 => 2^(k - 1) < n)

\* merge_mmap_port_metadata and validate_mmap_channel_geometry: both ports, when
\* they are declared, agree; the parent's value is used first.
MergeMmapPort(parent, child) ==
  LET both == parent # <<>> /\ child # <<>>
      Clash(a, b) == a # <<>> /\ b # <<>> /\ a # b
      Field(Of(_)) == IF parent # <<>> /\ Of(parent[1]) # <<>> THEN Of(parent[1])
                      ELSE IF child # <<>> THEN Of(child[1]) ELSE <<>>
      width == IF parent # <<>> THEN parent[1].width ELSE child[1].width
      count == Field(LAMBDA p : p.chans)
      bytes == Field(LAMBDA p : p.bytes)
      bad == \/ both /\ \/ parent[1].width # child[1].width
                        \/ Clash(parent[1].chans, child[1].chans)
                        \/ Clash(parent[1].bytes, child[1].bytes)
             \/ parent = <<>> /\ child = <<>>
  IN IF bad \/ (~bad /\ ~ValidGeometry(width, count, bytes)) THEN <<>>
     ELSE <<[width |-> width, count |-> count, bytes |-> bytes]>>

IsHmap(conn) == conn.geo.count # <<>>
ChannelCount(conn) == IF IsHmap(conn) THEN conn.geo.count[1] ELSE 1
TotalThreads(conn) == FoldLeft(LAMBDA n, s : n + s.threads, 0, conn.slaves)

\* MMapConnection::id_width
IdWidth(conn) ==
  Max({conn.slaves[i].id : i \in DOMAIN conn.slaves} \cup {1}) + RoutingIdBits(Len(conn.slaves))
SlaveIdWidth(conn) == Max({IdWidth(conn) - RoutingIdBits(Len(conn.slaves)), 1})
NeedsCrossbar(conn) == Len(conn.slaves) > 1 \/ IsHmap(conn)

ConnOf(conns, arg) == FirstThat(conns, LAMBDA c : c.arg = arg)
\* rtl_m_axi_id_widths
RtlIds(st, task, port) ==
  LET p == MAxi(port)
  IN IF task \notin DOMAIN st.rtl THEN {}
     ELSE {q.id : q \in {x \in st.rtl[task].ports : \E c \in Channels5 : HasId(c) /\ x.name = Payload(p, c)}}

\* aggregate_mmap_connections and child_mmap_summary: [error, conns].
RECURSIVE Aggregate(_, _)
Aggregate(st, name) ==
  LET task == TaskOf(st.graph, name)
      Below(child, port) ==
        IF TaskOf(st.graph, child).level = "Upper"
        THEN LET nested == Aggregate(st, child)
             IN [error |-> nested.error, conn |-> ConnOf(nested.conns, port)]
        ELSE [error |-> "", conn |-> <<>>]
      Declared(t, port) == FirstThat(t.ports, LAMBDA p : p.name = port)
      Bind(acc, inst, arg) ==
        LET below == Below(inst.child, arg.port)
            ids == RtlIds(st, inst.child, arg.port) \cup {1}
            slave == [child |-> inst.child, index |-> inst.index, port |-> arg.port,
                      threads |-> IF below.conn = <<>> THEN 1 ELSE TotalThreads(below.conn[1]),
                      id |-> Max(ids \cup IF below.conn = <<>> THEN {} ELSE {IdWidth(below.conn[1])})]
            parent == arg.src.name
            geo == MergeMmapPort(Declared(task, parent),
                                 Declared(TaskOf(st.graph, inst.child), arg.port))
            old == ConnOf(acc.conns, parent)
        IN CASE acc.error # "" \/ ~IsDirectMmap(arg.cat) -> acc
             [] acc.error = "" /\ IsDirectMmap(arg.cat) /\ below.error # "" ->
                  [acc EXCEPT !.error = below.error]
             [] OTHER ->
                  IF geo = <<>> \/ (old # <<>> /\ geo # <<>> /\ old[1].geo # geo[1])
                  THEN [acc EXCEPT !.error = "InvalidMmapConnection"]
                  ELSE IF old = <<>>
                       THEN [acc EXCEPT !.conns =
                               Append(@, [arg |-> parent, slaves |-> <<slave>>, geo |-> geo[1]])]
                       ELSE [acc EXCEPT !.conns = [i \in DOMAIN @ |->
                               IF @[i].arg = parent
                               THEN [@[i] EXCEPT !.slaves = Append(@, slave)] ELSE @[i]]]
      all == FoldLeft(LAMBDA acc, inst : FoldLeft(LAMBDA a, arg : Bind(a, inst, arg), acc, inst.args),
                      [error |-> "", conns |-> <<>>], task.insts)
      mixed == \E c \in Range(all.conns) : Len(c.slaves) = 1 /\ IsHmap(c) /\ TotalThreads(c) > 1
  IN IF all.error = "" /\ mixed THEN [all EXCEPT !.error = "InvalidMmapConnection"] ELSE all

\* The crossbar slave an instance is wired to, by argument, child and index; a
\* later slave of the same key replaces an earlier one.
SlaveOf(conns, arg, child, index) ==
  LET conn == ConnOf(conns, arg)
      hits == {i \in DOMAIN conn[1].slaves :
                 conn[1].slaves[i].child = child /\ conn[1].slaves[i].index = index}
  IN IF conn = <<>> THEN <<>>
     ELSE IF ~NeedsCrossbar(conn[1]) \/ hits = {} THEN <<>> ELSE <<Max(hits)>>
-----------------------------------------------------------------------------
(* Directly wired interfaces *)

\* validate_compact_m_axi_ports: every port is there the right way round, and
\* the ID ports have one width.
CompactPorts(m, port) ==
  LET p == MAxi(port)
      Facing(names, dir) ==
        \A n \in names : \E q \in m.ports : q.name = n /\ q.dir = dir
      ids == {q.id : q \in {x \in m.ports : \E c \in Channels5 : HasId(c) /\ x.name = Payload(p, c)}}
  IN IF Facing(MasterOut(p, Channels5), "out") /\ Facing(MasterIn(p, Channels5), "in")
          /\ Cardinality(ids) = 1
     THEN <<CHOOSE w \in ids : TRUE>> ELSE <<>>

\* direct_mmap_interface: <<[inst, port, arg, id, chans, bridge]>>, or <<>> when
\* a floorplanned design cannot have this connection.
DirectInterface(st, name, conn) ==
  LET task == TaskOf(st.graph, name)
      parent == FirstThat(task.ports, LAMBDA p : p.name = conn.arg)
      slave == conn.slaves[1]
      inst == InstanceOf(task, slave.child, slave.index)
      child == TaskOf(st.graph, slave.child)
      arg == FirstThat(inst[1].args, LAMBDA a : a.port = slave.port)
      port == FirstThat(child.ports, LAMBDA p : p.name = slave.port)
      module == st.rtl[slave.child]
      base == [inst |-> CanonicalName(inst[1]), port |-> slave.port, arg |-> conn.arg]
      tags == ActiveTags(module, slave.port)
      ok == /\ ~IsHmap(conn)
            /\ parent # <<>> /\ parent[1].cat = "Mmap"
            /\ Len(conn.slaves) = 1
            /\ inst # <<>> /\ child.level = "Lower"
            /\ port # <<>> /\ port[1].cat = arg[1].cat
            /\ slave.child \in DOMAIN st.rtl
  IN IF ~ok THEN <<>>
     ELSE IF arg[1].cat = "Mmap" \/ HasDirectMAxi(module, slave.port)
     THEN LET id == CompactPorts(module, slave.port)
          IN IF id = <<>> THEN <<>>
             ELSE <<base @@ [id |-> id[1], chans |-> Channels5, bridge |-> FALSE]>>
     ELSE IF tags = {} THEN <<>>
     ELSE <<base @@ [id |-> AxiIdWidth, chans |-> EnabledChannels(module, slave.port, tags),
                     bridge |-> TRUE]>>

\* validate_channel_route: from the child's slot to the bank's, or back.
RouteFits(route, slot, bank) ==
  LET first == route.path[1]
      final == route.path[Len(route.path)]
  IN /\ Len(route.path) >= 2
     /\ IF Request(route.chan) THEN first = slot /\ final # slot
        ELSE final = slot /\ first # slot
     /\ route.bank = bank.bank
     /\ (IF Request(route.chan) THEN final ELSE first) = bank.slot

\* A pipelined endpoint has exactly one route for every channel it drives.
ChannelsRouted(mine, iface) == {r.chan : r \in Range(mine)} = iface.chans

\* DirectAxiPipelinePlan::from_floorplan: the endpoints that are pipelined, with
\* the body registers of each channel.
AxiPipelinePlan(ifaces, plan) ==
  LET axi == SelectSeq(plan.routes, LAMBDA r : r.kind = "Axi")
      Ends(r, f) == r.inst = f.inst /\ r.port = f.port /\ r.arg = f.arg
      Mine(f) == SelectSeq(axi, LAMBDA r : Ends(r, f))
      Bank(f) == LET r == Mine(f)[1]
                 IN [bank |-> r.bank,
                     slot |-> IF Request(r.chan) THEN r.path[Len(r.path)] ELSE r.path[1]]
      known == \A r \in Range(axi) : \E f \in Range(ifaces) : Ends(r, f) /\ r.chan \in f.chans
      once == \A f \in Range(ifaces) :
                Cardinality({r.chan : r \in Range(Mine(f))}) = Len(Mine(f))
      fits == \A f \in Range(ifaces) :
                /\ f.inst \in DOMAIN plan.regions
                /\ Mine(f) # <<>> =>
                     /\ ChannelsRouted(Mine(f), f)
                     /\ \A r \in Range(Mine(f)) : RouteFits(r, plan.regions[f.inst], Bank(f))
      routed == SelectSeq(ifaces, LAMBDA f : Mine(f) # <<>>)
  IN IF ~(known /\ once /\ fits) THEN [error |-> "InvalidFloorplan", routed |-> <<>>]
     ELSE [error |-> "", routed |-> [i \in DOMAIN routed |->
             [iface |-> routed[i],
              level |-> [c \in {r.chan : r \in Range(Mine(routed[i]))} |->
                          (CHOOSE r \in Range(Mine(routed[i])) : r.chan = c).body]]]]
=============================================================================
