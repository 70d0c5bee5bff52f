----------------------------- MODULE Collector -----------------------------
(***************************************************************************)
(* The telemetry collector (INT/receive): a thread per report interface    *)
(* takes the reports of a sink switch one by one, decodes what the         *)
(* switches of the path have put into the packet, and writes points to     *)
(* InfluxDB.  Time is in quarters of a second.                             *)
(***************************************************************************)
EXTENDS Integers, Sequences, FiniteSets, SequencesExt
D == INSTANCE Deployment

CONSTANTS
  Flow,          \* flow -> [src, dst, sport, dport, dscp, paths]
  Sizes,         \* "packet sizes.json": DSCP -> bytes
  Instructions,  \* bits of the instruction mask, 0 first
  HopMetaLength, \* words per hop, an argument of tb_int_source
  ClockStart,    \* switch -> what its clock shows when those of all others start
  WriteTime,     \* longest time from the timestamp of the points to the write
  MaxPackets, LastReport, Horizon,  \* bounds on packets reported, their time, the time
  MaxOutages     \* bound on the calls InfluxDB does not answer

VARIABLES
  clock,
  wire,      \* interface -> reports sent and not yet taken
  thread,    \* interface -> [pc, r, info, at]: report r in work, decoded, and
             \* the timestamp of its points
  stop,      \* stop_sniffing
  db,        \* measurement -> points
  made,      \* packets reported, timestamps taken, calls that failed;
             \* history: late, the reports of an interface taken after Ctrl-C
  stored     \* history: what was written, [r, at]

cvars == <<clock, wire, thread, stop, db, made, stored>>

Iface == D!Edge          \* s1, s4 and s5 have an interface 100
Reporter(path) == Last(path)

-----------------------------------------------------------------------------
(* What a report carries (p4src).  The hop i of a path, as the switch      *)
(* stamps it; each switch has a clock of its own.                          *)

PortIn(f, path, i) ==
  IF i = 1 THEN D!HomePort[Flow[f].src] ELSE D!PortTo[path[i]][path[i-1]]
PortOut(path, i) ==
  IF i = Len(path) THEN CHOOSE o \in D!EdgePorts(path[i]) : TRUE
                   ELSE D!PortTo[path[i]][path[i+1]]
Stamp(f, path, i, n) ==
  LET t == ClockStart[path[i]] + 300 * i
  IN  [switch |-> path[i], in |-> PortIn(f, path, i), out |-> PortOut(path, i),
       latency |-> n + i, queue |-> 0, occupancy |-> i, ingress |-> t, egress |-> t + n + i]

(* A value in w bytes, the highest first, and back. *)
Quotients(v, w) == LET q[i \in 0 .. w] == IF i = 0 THEN v ELSE q[i-1] \div 256 IN q
Fits(v, w)  == Quotients(v, w)[w] = 0
Bytes(v, w) == LET q == Quotients(v, w) IN [i \in 1 .. w |-> q[w - i] % 256]
Value(b) == LET v[i \in 0 .. Len(b)] == IF i = 0 THEN 0 ELSE 256 * v[i-1] + b[i] IN v[Len(b)]

(* int_set_header_0 to 7, in the order of the deparser. *)
HopBytes(h) ==
  LET header == << Bytes(h.switch, 4), Bytes(h.in, 2) \o Bytes(h.out, 2),
                   Bytes(h.latency, 4), Bytes(h.queue, 1) \o Bytes(h.occupancy, 3),
                   Bytes(h.ingress, 8), Bytes(h.egress, 8),
                   Bytes(h.in, 4) \o Bytes(h.out, 4), Bytes(0, 4) >>
  IN  FlattenSeq([i \in 1 .. 8 |-> IF i - 1 \in Instructions THEN header[i] ELSE << >>])

PAYLOAD == <<255, 255, 255, 255>>

(* The last switch stamps last and is first.  The shim counts itself and   *)
(* the INT header as three words.                                          *)
IntBytes(r) ==
  FlattenSeq([i \in DOMAIN r.path |->
    LET j == Len(r.path) + 1 - i IN HopBytes(Stamp(r.flow, r.path, j, r.n))])
Packet(r) == [tuple  |-> [x \in {"src", "dst", "sport", "dport"} |-> Flow[r.flow][x]],
              dscp   |-> Flow[r.flow].dscp,
              length |-> 3 + Len(IntBytes(r)) \div 4,
              load   |-> IntBytes(r) \o PAYLOAD]

(* Every source asks for all eight words of instructions, eleven words a   *)
(* hop (tb_int_source, config/INT_Tables).                                 *)
ASSUME AllAsked == Instructions = 0 .. 7 /\ HopMetaLength = 11

(* A packet comes from a host, goes from switch to switch over links and   *)
(* leaves at one with hosts, whose interface 100 reports it (topology).    *)
ASSUME PathsTravelled ==
  \A f \in DOMAIN Flow : /\ Flow[f].src \in D!Hosts
    /\ \A path \in Flow[f].paths :
         /\ path \in Seq(D!Switches) /\ path # << >> /\ Reporter(path) \in Iface
         /\ \A i \in 1 .. Len(path) - 1 : path[i] # path[i+1]

(* The clocks and counters of a switch are as wide as the headers they are *)
(* written to.                                                             *)
ASSUME StampsFit ==
  /\ \A s \in D!Switches : ClockStart[s] \in Nat
  /\ \A f \in DOMAIN Flow : \A path \in Flow[f].paths :
       \A i \in DOMAIN path : \A n \in 1 .. MaxPackets :
         LET h == Stamp(f, path, i, n)
         IN  /\ Fits(h.latency, 4) /\ Fits(h.occupancy, 3)
             /\ Fits(h.ingress, 8) /\ Fits(h.egress, 8)

-----------------------------------------------------------------------------
(* Decoding *)

(* The reads of parse_int_metadata for a hop: name, instruction, bytes. *)
Reads == << <<"switch", 0, 4>>, <<"l1_in", 1, 2>>, <<"l1_out", 1, 2>>, <<"latency", 2, 4>>,
            <<"queue", 3, 1>>, <<"occupancy", 3, 3>>, <<"ingress", 4, 8>>,
            <<"egress", 5, 8>>, <<"l2_in", 6, 4>>, <<"l2_out", 6, 4>>, <<"tx_util", 7, 4>> >>
Asked == {i \in DOMAIN Reads : Reads[i][2] \in Instructions}
ReadHop(b) ==
  LET from[i \in DOMAIN Reads] ==
        IF i = 1 THEN 1 ELSE from[i-1] + (IF i - 1 \in Asked THEN Reads[i-1][3] ELSE 0)
      read(name) == CHOOSE i \in Asked : Reads[i][1] = name
  IN  [name \in {Reads[i][1] : i \in Asked} |->
         LET i == read(name) IN Value(SubSeq(b, from[i], from[i] + Reads[i][3] - 1))]

parse_int_metadata(p) ==
  LET words == p.length - 3
      load  == SubSeq(p.load, 1, 4 * words)
      hop(i) == SubSeq(load, 4 * HopMetaLength * (i - 1) + 1, 4 * HopMetaLength * i)
  IN  [i \in 1 .. words \div HopMetaLength |-> ReadHop(hop(i))]

flow_latency(hops) ==
  Max({hops[i].egress : i \in DOMAIN hops}) - Min({hops[i].ingress : i \in DOMAIN hops})
FlowInfo(p) == [tuple |-> p.tuple, dscp |-> p.dscp, hops |-> parse_int_metadata(p)]
PacketSize(d) == IF d \in DOMAIN Sizes THEN Sizes[d] ELSE 0

-----------------------------------------------------------------------------
(* export_influxdb: all points of a report have the same time.             *)

Point(at, tags, fields) == [time |-> at, tags |-> tags, fields |-> fields]

FlowPoints(p, hops, at) ==
  IF hops = << >> \/ flow_latency(hops) = 0 THEN << >>
  ELSE << Point(at, <<p.tuple, p.dscp>>,
            [size |-> PacketSize(p.dscp), latency |-> flow_latency(hops),
             path |-> Reverse([i \in DOMAIN hops |-> hops[i].switch])]) >>
SwitchPoints(p, hops, at) ==
  [i \in DOMAIN hops |-> Point(at, <<hops[i].switch, p.tuple, p.dscp>>,
     [latency |-> hops[i].latency, size |-> PacketSize(p.dscp)])]
QueuePoints(hops, at) ==
  [i \in DOMAIN hops |->
     Point(at, <<hops[i].switch, hops[i].queue>>, [queue |-> hops[i].occupancy])]
LinkPointsShifted(hops, at) ==      \* seeded fault: the ports of one hop
  [i \in 1 .. Len(hops) - 1 |->
     Point(at, <<hops[i+1].switch, hops[i+1].l1_in, hops[i].switch, hops[i].l1_out>>,
           [latency |-> hops[i+1].egress - hops[i].ingress])]
LinkPoints(hops, at) ==
  [i \in 1 .. Len(hops) - 1 |->
     LET between == hops[i+1].egress - hops[i].ingress IN
     Point(at, <<hops[i+1].switch, hops[i+1].l1_out, hops[i].switch, hops[i].l1_in>>,
           [latency |-> IF between < 0 THEN -between ELSE between])]

PointsOf(info, at) ==
  [flow_stats      |-> FlowPoints(info, info.hops, at),
   switch_stats    |-> SwitchPoints(info, info.hops, at),
   queue_occupancy |-> QueuePoints(info.hops, at),
   link_latency    |-> LinkPoints(info.hops, at)]

Series(x) == <<x.tags, x.time>>
WrittenFirst(points, batch) ==      \* seeded fault: a point is never overwritten
  points \cup {batch[i] : i \in {j \in DOMAIN batch :
                 \A k \in 1 .. j - 1 : Series(batch[k]) # Series(batch[j])}}
(* InfluxDB keeps one point per series and time, the last one written. *)
Written(points, batch) ==
  {x \in points : \A i \in DOMAIN batch : Series(batch[i]) # Series(x)} \cup
  {batch[i] : i \in {j \in DOMAIN batch :
                \A k \in j + 1 .. Len(batch) : Series(batch[k]) # Series(batch[j])}}

-----------------------------------------------------------------------------
Idle == [pc |-> "sniff", r |-> << >>, info |-> << >>, at |-> <<0, 0>>]
Measurements == {"flow_stats", "switch_stats", "queue_occupancy", "link_latency"}

CInit ==
  /\ clock = 0 /\ wire = [i \in Iface |-> << >>] /\ thread = [i \in Iface |-> Idle]
  /\ stop = FALSE /\ db = [m \in Measurements |-> {}]
  /\ made = [packets |-> 0, stamps |-> 0, outages |-> 0, late |-> [i \in Iface |-> 0]] /\ stored = {}

(* Time does not pass the end of a write, and a thread that sniffs takes a *)
(* report at once: what comes later than that is a report sent later.      *)
Tick ==
  /\ clock < Horizon
  /\ \A i \in Iface : /\ thread[i].pc = "write" => clock < thread[i].at[1] + WriteTime
                      /\ thread[i].pc = "sniff" => wire[i] = << >>
  /\ clock' = clock + 1
  /\ UNCHANGED <<wire, thread, stop, db, made, stored>>

(* Every copy of a packet of flow f is reported by the sink it comes to;   *)
(* a flow that has ended has no paths.                                     *)
Report(f) ==
  LET n == made.packets + 1
      at(i) == SetToSeq({path \in Flow[f].paths : Reporter(path) = i})
  IN  /\ made.packets < MaxPackets /\ clock <= LastReport /\ Flow[f].paths # {}
      /\ wire' = [i \in Iface |-> wire[i] \o
           [j \in DOMAIN at(i) |-> [flow |-> f, path |-> at(i)[j], n |-> n]]]
      /\ made' = [made EXCEPT !.packets = n]
      /\ UNCHANGED <<clock, thread, stop, db, stored>>

(* handle_pkt, up to the timestamp.  The second part of a timestamp stands *)
(* for its nanoseconds: no two are equal.                                  *)
TakeReport(i) ==
  /\ thread[i].pc = "sniff" /\ wire[i] # << >>
  /\ wire' = [wire EXCEPT ![i] = Tail(@)]
  /\ made' = [made EXCEPT !.stamps = @ + 1, !.late[i] = IF stop THEN @ + 1 ELSE @]
  /\ thread' = [thread EXCEPT ![i] =
       [pc |-> "write", r |-> <<Head(wire[i])>>, info |-> FlowInfo(Packet(Head(wire[i]))),
        at |-> <<clock, made.stamps + 1>>]]
  /\ UNCHANGED <<clock, stop, db, stored>>

(* sniff looks at its stop_filter when it is done with a packet. *)
AfterPacketNever(i) == [Idle EXCEPT !.pc = "sniff"]  \* seeded fault: no stop_filter
AfterPacket(i)      == [Idle EXCEPT !.pc = IF stop THEN "ended" ELSE "sniff"]
WritePoints(i) ==
  LET t == thread[i] IN
  /\ t.pc = "write"
  /\ db' = [m \in Measurements |-> Written(db[m], PointsOf(t.info, t.at)[m])]
  /\ stored' = stored \cup {[r |-> t.r[1], at |-> t.at]}
  /\ thread' = [thread EXCEPT ![i] = AfterPacket(i)]
  /\ UNCHANGED <<clock, wire, stop, made>>

(* An exception of write_points ends the sniffing on the interface. *)
WriteFails(i) ==
  /\ thread[i].pc = "write" /\ made.outages < MaxOutages
  /\ made' = [made EXCEPT !.outages = @ + 1]
  /\ thread' = [thread EXCEPT ![i] = [Idle EXCEPT !.pc = "ended"]]
  /\ UNCHANGED <<clock, wire, stop, db, stored>>

(* Ctrl-C sets the flag; Python then waits for the threads.  When reports  *)
(* come no more it has no effect (a bound).                                *)
KeyboardInterrupt ==
  /\ ~stop /\ clock <= LastReport /\ stop' = TRUE
  /\ UNCHANGED <<clock, wire, thread, db, made, stored>>

Handle(i) == TakeReport(i) \/ WritePoints(i) \/ WriteFails(i)
=============================================================================
