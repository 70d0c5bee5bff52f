----------------------------- MODULE Telemetry -----------------------------
(***************************************************************************)
(* Reports on their way to a reader: the collector stores them, the        *)
(* visualizer shows their paths, result processing queries them.  The      *)
(* three programs share the database and nothing else.                     *)
(***************************************************************************)
EXTENDS Collector

CONSTANTS
  NumSwitches, Colors, AnyColor, PollTimes,
  Before         \* what was stored earlier in the test, as in `stored': too
                 \* old for the visualizer, there for result processing

VARIABLE view

flowStats == db["flow_stats"]
V == INSTANCE Visualizer
Q == INSTANCE IntQueries

ASSUME TelemetryTyped ==
  /\ \A f \in DOMAIN Flow : IsFiniteSet(Flow[f].paths)
  /\ WriteTime \in Nat /\ MaxPackets \in Nat /\ PollTimes \subseteq Nat

(* Writing, waiting half a second and drawing take less than the second    *)
(* that a query goes back.                                                 *)
ASSUME PromptEnough == \A d \in PollTimes : WriteTime + d < V!SECOND

(* Earlier is more than a second ago, and one report at a time. *)
ASSUME BeforeTheRun ==
  \A x, y \in Before : x.at[1] + V!SECOND < 0 /\ (x.at[1] = y.at[1] => x = y)
PointsBefore ==
  [m \in Measurements |->
     UNION {Written({}, PointsOf(FlowInfo(Packet(x.r)), x.at)[m]) : x \in Before}]

tvars == <<clock, wire, thread, stop, db, made, stored, view>>

TInit == CInit /\ V!VInit

(* The visualizer looks as soon as it is due: redrawing takes PollTimes. *)
Time == (view.running => clock < view.due) /\ Tick /\ UNCHANGED view
Look == V!Poll /\ UNCHANGED <<clock, wire, thread, stop, db, made, stored>>
LookFails ==
  /\ made.outages < MaxOutages /\ V!PollFails
  /\ made' = [made EXCEPT !.outages = @ + 1]
  /\ UNCHANGED <<clock, wire, thread, stop, db, stored>>

TNext ==
  \/ Time \/ Look \/ LookFails
  \/ (\E f \in DOMAIN Flow : Report(f)) /\ UNCHANGED view
  \/ (\E i \in Iface : Handle(i)) /\ UNCHANGED view
  \/ KeyboardInterrupt /\ UNCHANGED view

TSpec == TInit /\ [][TNext]_tvars

-----------------------------------------------------------------------------
(* Properties.                                                             *)

StampOf(x, i) == Stamp(x.r.flow, x.r.path, i, x.r.n)
FirstVisit(x, s) == LET path == x.r.path
                    IN  CHOOSE i \in DOMAIN path :
                          path[i] = s /\ \A j \in 1 .. i - 1 : path[j] # s
LatencyAt(x, s) == StampOf(x, FirstVisit(x, s)).latency
TagsOf(x)     == LET f == Flow[x.r.flow]
                 IN  <<[y \in {"src", "dst", "sport", "dport"} |-> f[y]], f.dscp>>

(* The points tell what the switches of the path stamped, although P4      *)
(* writes what Python reads and the order of the hops is reversed twice:   *)
(* the path as it was travelled; for every switch the latency of its first *)
(* visit; for every link the two ports that it connects.  A packet that    *)
(* comes by a switch twice leaves one point for it, or none too much.      *)
PointsTellReports ==
  \A x \in stored :
    LET path == x.r.path
        At(m) == {y \in db[m] : y.time = x.at}
    IN  /\ \E y \in At("flow_stats") :
             /\ At("flow_stats") = {y} /\ y.tags = TagsOf(x) /\ y.fields.path = path
             /\ y.fields.size = PacketSize(Flow[x.r.flow].dscp)
        /\ {y.tags[1] : y \in At("switch_stats")} = ToSet(path)
        /\ Cardinality(At("switch_stats")) = Cardinality(ToSet(path))
        /\ \A y \in At("switch_stats") :
             /\ <<y.tags[2], y.tags[3]>> = TagsOf(x)
             /\ y.fields.latency = LatencyAt(x, y.tags[1])
        /\ \A y \in At("queue_occupancy") :
             y.fields.queue = StampOf(x, FirstVisit(x, y.tags[1])).occupancy

(* A link point names the two ends of a link of the topology, and every    *)
(* link of a path has one: hops are paired as they were travelled.         *)
LinkPointsAreLinks ==
  /\ \A y \in db["link_latency"] :
       /\ <<y.tags[1], y.tags[2]>> \in DOMAIN D!DeployedLink
       /\ D!DeployedLink[<<y.tags[1], y.tags[2]>>] = <<y.tags[3], y.tags[4]>>
  /\ \A x \in stored :
       {<<y.tags[1], y.tags[3]>> : y \in {z \in db["link_latency"] : z.time = x.at}}
         = ToSet(V!EdgesOf(x.r.path))

(* What result processing gets from the database when the time of the test *)
(* is over agrees with the reports stored, as far as the percentiles let   *)
(* it.  Per switch, the bytes of a DSCP are those of the reports that came *)
(* by it, but for the largest ones of all DSCPs: those above one size, and *)
(* no more than a twentieth.  The packets, counted in the points of the    *)
(* switches, lack no more than is dropped there; as those are the slowest, *)
(* the average hop is no slower than the hops stored.                      *)
Size(x) == PacketSize(Flow[x.r.flow].dscp)
BytesBut(large, reports) == SumFunction([x \in reports \ large |-> Size(x)])
QueriesTellReports ==
  LET all   == stored \cup Before
      flows == flowStats \cup PointsBefore["flow_stats"]
      hops  == db["switch_stats"] \cup PointsBefore["switch_stats"]
      above(b) == {x \in all : Size(x) > b}
      Cut(n)   == n - Q!Rank(n)
  IN
  clock = Horizon => \A d \in {Q!All} \cup {Flow[f].dscp : f \in DOMAIN Flow} :
    Q!CanProcess(flows, hops, d) =>
      LET of      == {x \in all : d \in {Q!All, Flow[x.r.flow].dscp}}
          through == [s \in 1 .. NumSwitches |-> {x \in of : s \in ToSet(x.r.path)}]
          bytes   == Q!get_byte_sum(flows, d)
          counted == Q!PacketsAt(hops, d)
          visits  == UNION {{x} \X ToSet(x.r.path) : x \in of}
          dropped == [s \in 1 .. NumSwitches |-> Cardinality(through[s]) - counted[s]]
      IN  /\ \E b \in {Size(x) : x \in all} :
               /\ Cardinality(above(b)) <= Cut(Cardinality(flows))
               /\ \A s \in 1 .. NumSwitches : bytes[s] = BytesBut(above(b), through[s])
          /\ \A s \in 1 .. NumSwitches : dropped[s] >= 0
          /\ SumFunction(dropped) <= Cut(Cardinality(hops))
          /\ ~Q!Less(Q!Frac(SumFunction([v \in visits |-> LatencyAt(v[1], v[2])]),
                            Cardinality(visits)),
                     Q!get_avg_flow_hop_latency(flows, hops, d)[2])

(* An edge is shown only in the colour of a flow that used it less than    *)
(* three seconds ago ...                                                   *)
ShownIsRecentTraffic == V!ShownIsRecentTraffic
(* ... which the README makes a tenth of a second.                         *)
FinishedNotDrawn == V!FinishedNotDrawn
(* No path falls between two looks of the visualizer at the database.      *)
EveryPathShown == V!EveryPathShown

(* Ctrl-C drops no report that a thread is working on, and a thread takes  *)
(* at most one more before it ends: it looks at the flag only when it is   *)
(* done with a report.                                                     *)
AtMostOneMore ==
  \A i \in Iface :
    /\ made.late[i] <= 1
    /\ made.late[i] = 1 /\ thread[i].pc = "ended" /\ made.outages = 0 =>
         \E x \in stored : Reporter(x.r.path) = i
=============================================================================
