-------------------------- MODULE TelemetryProofs --------------------------
(***************************************************************************)
(* Collector and visualizer, for every set of flows and paths, any number  *)
(* of reports and of failures of the database: what Ctrl-C costs, that     *)
(* the picture shows the traffic of the last seconds, and that the points  *)
(* in the database tell what the switches stamped.                         *)
(***************************************************************************)
EXTENDS Telemetry, CollectorProofs

(* What the sink with interface i may report. *)
ReportsAt(i) ==
  {y \in [flow : DOMAIN Flow, path : UNION {Flow[f].paths : f \in DOMAIN Flow},
          n : 1 .. MaxPackets] :
     y.path \in Flow[y.flow].paths /\ Reporter(y.path) = i}
Writing(i) == thread[i].pc = "write"

CollectorTyped ==
  /\ clock \in Nat /\ stop \in BOOLEAN
  /\ made \in [packets : Nat, stamps : Nat, outages : Nat, late : [Iface -> Nat]]
  /\ wire = [i \in Iface |-> wire[i]]
  /\ thread = [i \in Iface |-> thread[i]]
  /\ \A i \in Iface :
       /\ wire[i] \in Seq(ReportsAt(i))
       /\ thread[i].pc \in {"sniff", "write", "ended"}
       /\ Writing(i) => \E y \in ReportsAt(i) : thread[i].r = <<y>>

(* A thread that took a report after Ctrl-C sniffs no more. *)
LateOnce ==
  \A i \in Iface : made.late[i] = 1 => stop /\ thread[i].pc # "sniff"

(* No two points of different reports have the same time. *)
StampsDiffer ==
  /\ \A i \in Iface : Writing(i) =>
       /\ thread[i].at \in Nat \X (1 .. made.stamps)
       /\ thread[i].at[1] <= clock /\ clock <= thread[i].at[1] + WriteTime
  /\ \A i, j \in Iface : Writing(i) /\ Writing(j) /\ i # j => thread[i].at[2] # thread[j].at[2]
  /\ \A x \in flowStats :
       /\ x.time \in Nat \X (1 .. made.stamps) /\ x.time[1] <= clock
       /\ \A i \in Iface : Writing(i) => thread[i].at[2] # x.time[2]

CollectorInv ==
  CollectorTyped /\ LateOnce /\ AtMostOneMore /\ StampsDiffer /\ IsFiniteSet(flowStats)

IsView(v) ==
  v = [running |-> v.running, at |-> v.at, due |-> v.due, colors |-> v.colors,
       color |-> v.color, id |-> v.id, edge |-> v.edge, since |-> v.since, index |-> v.index]

(* The visualizer looks when it is due and not later. *)
LooksInTime ==
  /\ IsView(view) /\ view.at \in Nat /\ view.due \in Nat /\ view.at <= clock
  /\ view.running => /\ clock <= view.due
                     /\ view.due = 0 \/ \E d \in PollTimes : view.due = view.at + d

(* An edge has the colour of a flow that had just used it when the edge    *)
(* was coloured, which was no more than two seconds before the last look.  *)
ColoredByTraffic ==
  \A e \in DOMAIN view.edge :
    /\ e \in DOMAIN view.since /\ view.since[e] \in Nat
    /\ view.since[e] <= view.at /\ view.at <= view.since[e] + 8
    /\ \E x \in flowStats :
         /\ V!Uses(x, e) /\ x.time[1] > view.since[e] - 4
         /\ V!FlowOf(x) \in DOMAIN view.color /\ view.color[V!FlowOf(x)] = view.edge[e]

(* A point has been seen, and its edges have stayed for two seconds since, *)
(* or the look that will see it comes soon enough.                         *)
Seen(x, e) ==
  /\ e \in DOMAIN view.since /\ view.since[e] \in Nat
  /\ x.time[1] <= view.since[e] /\ view.since[e] <= view.at
  /\ view.at <= view.since[e] + 8 => e \in DOMAIN view.edge
SeenOrSoon ==
  view.running => \A x \in flowStats : \A e :
    V!Uses(x, e) => Seen(x, e) \/ view.due < x.time[1] + 4

ViewInv == LooksInTime /\ ColoredByTraffic /\ SeenOrSoon

-----------------------------------------------------------------------------
(* SetToSeq lists the members of a finite set. *)
LEMMA SetToSeqLists ==
  ASSUME NEW S, IsFiniteSet(S)
  PROVE  SetToSeq(S) \in [1 .. Cardinality(S) -> S]
<1>1. Cardinality(S) \in Nat
  BY FS_CardinalityType
<1>2. PICK b : b \in Bijection(1 .. Cardinality(S), S)
  BY FS_CardinalityType DEF ExistsBijection
<1>3. b \in [1 .. Cardinality(S) -> S] /\ IsInjective(b)
  BY <1>2 DEF Bijection, Injection, IsInjective
<1> QED BY <1>3 DEF SetToSeq

(* An order of a finite set in which none comes twice has them all. *)
LEMMA OrderHasAll ==
  ASSUME NEW S, IsFiniteSet(S), NEW order \in SetToSeqs(S)
  PROVE  /\ order \in [1 .. Len(order) -> S] /\ Len(order) \in Nat
         /\ \A f \in S : \E k \in 1 .. Len(order) : order[k] = f
<1> DEFINE n == Cardinality(S)
<1>1. n \in Nat
  BY FS_CardinalityType
<1>2. /\ order \in [1 .. n -> S]
      /\ \A i, j \in 1 .. n : i # j => order[i] # order[j]
  BY DEF SetToSeqs
<1>3. Len(order) = n
  BY <1>1, <1>2
<1>4. order \in Injection(1 .. n, S)
  BY <1>2 DEF Injection, IsInjective
<1>5. IsFiniteSet(1 .. n) /\ Cardinality(1 .. n) = n
  BY <1>1, FS_Interval
<1>6. order \in Surjection(1 .. n, S)
  BY <1>4, <1>5, FS_Injection
<1> QED BY <1>1, <1>2, <1>3, <1>6 DEF Surjection

-----------------------------------------------------------------------------
(* The collector: Ctrl-C, and the times of points. *)

LEMMA CollectorInit == TInit => CollectorInv
<1> SUFFICES ASSUME TInit PROVE CollectorInv
  OBVIOUS
<1>1. /\ clock = 0 /\ wire = [i \in Iface |-> << >>] /\ thread = [i \in Iface |-> Idle]
      /\ stop = FALSE /\ flowStats = {} /\ stored = {}
      /\ made = [packets |-> 0, stamps |-> 0, outages |-> 0, late |-> [i \in Iface |-> 0]]
  BY DEF TInit, CInit, flowStats, Measurements
<1>2. \A i \in Iface : thread[i].pc = "sniff" /\ made.late[i] = 0
  BY <1>1 DEF Idle
<1>3. CollectorTyped
  <2>1. made \in [packets : Nat, stamps : Nat, outages : Nat, late : [Iface -> Nat]]
    BY <1>1
  <2>2. wire = [i \in Iface |-> wire[i]] /\ \A i \in Iface : wire[i] \in Seq(ReportsAt(i))
    BY <1>1
  <2>3. thread = [i \in Iface |-> thread[i]]
    BY <1>1
  <2> QED BY <1>1, <1>2, <2>1, <2>2, <2>3 DEF CollectorTyped, Writing
<1>4. LateOnce /\ AtMostOneMore /\ StampsDiffer
  BY <1>1, <1>2 DEF LateOnce, AtMostOneMore, StampsDiffer, Writing
<1> QED BY <1>1, <1>3, <1>4, FS_EmptySet DEF CollectorInv

LEMMA CollectorTime == CollectorInv /\ Tick => CollectorInv'
<1> SUFFICES ASSUME CollectorInv, Tick PROVE CollectorInv'
  OBVIOUS
<1>1. /\ clock' = clock + 1 /\ wire' = wire /\ thread' = thread /\ stop' = stop
      /\ db' = db /\ made' = made /\ stored' = stored /\ flowStats' = flowStats
      /\ \A i \in Iface : Writing(i) => clock < thread[i].at[1] + WriteTime
  BY DEF Tick, Writing, flowStats
<1>2. CollectorTyped'
  BY <1>1 DEF CollectorInv, CollectorTyped, Writing
<1>3. LateOnce' /\ AtMostOneMore' /\ IsFiniteSet(flowStats)'
  BY <1>1 DEF CollectorInv, LateOnce, AtMostOneMore
<1>4. StampsDiffer'
  <2>1. ASSUME NEW i \in Iface, Writing(i)
        PROVE  thread[i].at[1] <= clock + 1 /\ clock + 1 <= thread[i].at[1] + WriteTime
    BY <1>1, <2>1, TelemetryTyped DEF CollectorInv, StampsDiffer, CollectorTyped
  <2>2. \A x \in flowStats : x.time[1] <= clock + 1
    BY DEF CollectorInv, StampsDiffer, CollectorTyped
  <2> QED BY <1>1, <2>1, <2>2 DEF CollectorInv, StampsDiffer, Writing
<1> QED BY <1>2, <1>3, <1>4 DEF CollectorInv

LEMMA CollectorReport ==
  ASSUME CollectorInv, NEW f \in DOMAIN Flow, Report(f)
  PROVE  CollectorInv'
<1> DEFINE n == made.packets + 1
           paths(i) == {path \in Flow[f].paths : Reporter(path) = i}
           sent(i) == [j \in DOMAIN SetToSeq(paths(i)) |->
                         [flow |-> f, path |-> SetToSeq(paths(i))[j], n |-> n]]
<1>1. /\ clock' = clock /\ thread' = thread /\ stop' = stop /\ db' = db /\ stored' = stored
      /\ flowStats' = flowStats /\ made' = [made EXCEPT !.packets = n]
  BY DEF Report, flowStats
<1>2. wire' = [i \in Iface |-> wire[i] \o sent(i)]
  BY DEF Report
<1>3. /\ made' \in [packets : Nat, stamps : Nat, outages : Nat, late : [Iface -> Nat]]
      /\ made'.stamps = made.stamps /\ made'.outages = made.outages /\ made'.late = made.late
  <2>1. n \in Nat
    BY DEF CollectorInv, CollectorTyped
  <2> HIDE DEF n
  <2> QED BY <1>1, <2>1 DEF CollectorInv, CollectorTyped
<1>4. ASSUME NEW i \in Iface
      PROVE  wire'[i] \in Seq(ReportsAt(i))
  <2>1. IsFiniteSet(paths(i))
    BY TelemetryTyped, FS_Subset
  <2>2. SetToSeq(paths(i)) \in [1 .. Cardinality(paths(i)) -> paths(i)]
        /\ Cardinality(paths(i)) \in Nat
    BY <2>1, SetToSeqLists, FS_CardinalityType
  <2>3. made.packets \in Nat /\ made.packets < MaxPackets
    BY DEF CollectorInv, CollectorTyped, Report
  <2>9. n \in 1 .. MaxPackets
    BY <2>3, TelemetryTyped
  <2> HIDE DEF n
  <2>4. ASSUME NEW path \in paths(i)
        PROVE  [flow |-> f, path |-> path, n |-> n] \in ReportsAt(i)
    BY <2>9 DEF ReportsAt
  <2>5. sent(i) \in [1 .. Cardinality(paths(i)) -> ReportsAt(i)]
    BY <2>2, <2>4
  <2>6. sent(i) \in Seq(ReportsAt(i))
    BY <2>2, <2>5, SeqDef
  <2>7. wire[i] \in Seq(ReportsAt(i))
    BY DEF CollectorInv, CollectorTyped
  <2>8. wire'[i] = wire[i] \o sent(i)
    BY <1>2
  <2> HIDE DEF sent
  <2> QED BY <2>6, <2>7, <2>8
<1>5. CollectorTyped'
  BY <1>1, <1>3, <1>4, <1>2 DEF CollectorInv, CollectorTyped, Writing, ReportsAt
<1>6. LateOnce' /\ AtMostOneMore' /\ StampsDiffer' /\ IsFiniteSet(flowStats)'
  BY <1>1, <1>3 DEF CollectorInv, LateOnce, AtMostOneMore, StampsDiffer, Writing
<1> QED BY <1>5, <1>6 DEF CollectorInv

LEMMA CollectorInterrupt == CollectorInv /\ KeyboardInterrupt => CollectorInv'
<1> SUFFICES ASSUME CollectorInv, KeyboardInterrupt PROVE CollectorInv'
  OBVIOUS
<1>1. /\ clock' = clock /\ wire' = wire /\ thread' = thread /\ stop' = TRUE
      /\ db' = db /\ made' = made /\ stored' = stored /\ flowStats' = flowStats
  BY DEF KeyboardInterrupt, flowStats
<1> QED
  BY <1>1 DEF CollectorInv, CollectorTyped, LateOnce, AtMostOneMore, StampsDiffer, Writing

LEMMA CollectorTakes ==
  ASSUME CollectorInv, NEW i \in Iface, TakeReport(i)
  PROVE  CollectorInv' /\ flowStats' = flowStats /\ clock' = clock
<1>1. /\ thread[i].pc = "sniff" /\ wire[i] # << >>
      /\ clock' = clock /\ stop' = stop /\ db' = db /\ stored' = stored
      /\ flowStats' = flowStats
      /\ wire' = [wire EXCEPT ![i] = Tail(@)]
      /\ made' = [made EXCEPT !.stamps = @ + 1, !.late[i] = IF stop THEN @ + 1 ELSE @]
      /\ thread' = [thread EXCEPT ![i] =
           [pc |-> "write", r |-> <<Head(wire[i])>>, info |-> FlowInfo(Packet(Head(wire[i]))),
            at |-> <<clock, made.stamps + 1>>]]
  BY DEF TakeReport, flowStats
<1>2. /\ made.stamps \in Nat /\ made.late \in [Iface -> Nat] /\ clock \in Nat
      /\ wire[i] \in Seq(ReportsAt(i))
      /\ thread = [j \in Iface |-> thread[j]] /\ wire = [j \in Iface |-> wire[j]]
  BY DEF CollectorInv, CollectorTyped
<1>3. /\ made' \in [packets : Nat, stamps : Nat, outages : Nat, late : [Iface -> Nat]]
      /\ made'.stamps = made.stamps + 1 /\ made'.outages = made.outages
      /\ made'.late = [made.late EXCEPT ![i] = IF stop THEN @ + 1 ELSE @]
  <2> DEFINE n == made.stamps + 1
             late == [made.late EXCEPT ![i] = IF stop THEN @ + 1 ELSE @]
  <2>1. n \in Nat /\ late \in [Iface -> Nat]
    BY <1>2
  <2>2. made' = [made EXCEPT !.stamps = n, !.late = late]
    BY <1>1
  <2> HIDE DEF n, late
  <2>3. /\ made' \in [packets : Nat, stamps : Nat, outages : Nat, late : [Iface -> Nat]]
        /\ made'.stamps = n /\ made'.outages = made.outages /\ made'.late = late
    BY <2>1, <2>2 DEF CollectorInv, CollectorTyped
  <2> QED BY <2>3 DEF n, late
<1>4. /\ thread' = [j \in Iface |-> thread'[j]]
      /\ \A j \in Iface : j # i => thread'[j] = thread[j] /\ (Writing(j)' <=> Writing(j))
      /\ thread'[i].pc = "write" /\ thread'[i].r = <<Head(wire[i])>>
      /\ thread'[i].at = <<clock, made.stamps + 1>> /\ ~ Writing(i)
  BY <1>1, <1>2 DEF Writing
<1>5. CollectorTyped'
  <2>1. Head(wire[i]) \in ReportsAt(i) /\ Tail(wire[i]) \in Seq(ReportsAt(i))
    BY <1>1, <1>2, HeadTailProperties
  <2>2. wire' = [j \in Iface |-> wire'[j]] /\ \A j \in Iface : wire'[j] \in Seq(ReportsAt(j))
    BY <1>1, <1>2, <2>1 DEF CollectorInv, CollectorTyped
  <2>3. clock' \in Nat /\ stop' \in BOOLEAN
    BY <1>1 DEF CollectorInv, CollectorTyped
  <2>4. ASSUME NEW j \in Iface
        PROVE  /\ thread'[j].pc \in {"sniff", "write", "ended"}
               /\ Writing(j)' => \E y \in ReportsAt(j) : thread'[j].r = <<y>>
    BY <1>4, <2>1 DEF CollectorInv, CollectorTyped
  <2>5. \A j \in Iface : ReportsAt(j)' = ReportsAt(j)
    BY DEF ReportsAt
  <2> QED BY <1>3, <1>4, <2>2, <2>3, <2>4, <2>5 DEF CollectorTyped
<1>6. made.late[i] <= 1 /\ (stop => made.late[i] = 0)
  <2>1. made.late[i] <= 1 /\ (stop => made.late[i] # 1)
    BY <1>1 DEF CollectorInv, LateOnce, AtMostOneMore
  <2> QED BY <1>2, <2>1
<1>7. LateOnce' /\ AtMostOneMore'
  <2>1. \A j \in Iface : j # i => made'.late[j] = made.late[j]
    BY <1>2, <1>3
  <2>2. made'.late[i] <= 1 /\ (made'.late[i] = 1 => stop)
    BY <1>2, <1>3, <1>6 DEF CollectorInv, LateOnce
  <2> QED BY <1>1, <1>3, <1>4, <2>1, <2>2 DEF CollectorInv, LateOnce, AtMostOneMore
<1>8. StampsDiffer'
  <2>1. ASSUME NEW j \in Iface, Writing(j)'
        PROVE  /\ thread'[j].at \in Nat \X (1 .. made.stamps + 1)
               /\ thread'[j].at[1] <= clock /\ clock <= thread'[j].at[1] + WriteTime
    <3>1. CASE j = i
      <4>1. <<clock, made.stamps + 1>> \in Nat \X (1 .. made.stamps + 1)
        BY <1>2
      <4>2. clock <= clock + WriteTime
        BY <1>2, TelemetryTyped
      <4> DEFINE now == <<clock, made.stamps + 1>>
      <4>3. thread'[j].at = now /\ now[1] = clock
        BY <1>4, <3>1
      <4>4. clock <= clock
        BY <1>2
      <4> HIDE DEF now
      <4> QED BY <4>1, <4>2, <4>3, <4>4 DEF now
    <3>2. CASE j # i
      <4>1. /\ thread[j].at \in Nat \X (1 .. made.stamps)
            /\ thread[j].at[1] <= clock /\ clock <= thread[j].at[1] + WriteTime
        BY <1>4, <2>1, <3>2 DEF CollectorInv, StampsDiffer
      <4> QED BY <1>2, <1>4, <3>2, <4>1
    <3> QED BY <3>1, <3>2
  <2>2. ASSUME NEW j \in Iface, Writing(j)
        PROVE  thread[j].at[2] # made.stamps + 1
    BY <1>2, <2>2 DEF CollectorInv, StampsDiffer
  <2>3. \A j, k \in Iface : Writing(j)' /\ Writing(k)' /\ j # k =>
          thread'[j].at[2] # thread'[k].at[2]
    BY <1>4, <2>2 DEF CollectorInv, StampsDiffer
  <2>4. ASSUME NEW x \in flowStats
        PROVE  /\ x.time \in Nat \X (1 .. made.stamps + 1) /\ x.time[1] <= clock
               /\ \A j \in Iface : Writing(j)' => thread'[j].at[2] # x.time[2]
    <3>1. /\ x.time \in Nat \X (1 .. made.stamps) /\ x.time[1] <= clock
          /\ \A j \in Iface : Writing(j) => thread[j].at[2] # x.time[2]
      BY DEF CollectorInv, StampsDiffer
    <3>2. x.time[2] # made.stamps + 1 /\ x.time \in Nat \X (1 .. made.stamps + 1)
      BY <1>2, <3>1
    <3> QED BY <1>4, <3>1, <3>2
  <2> QED BY <1>1, <1>3, <2>1, <2>3, <2>4 DEF StampsDiffer
<1>9. IsFiniteSet(flowStats)'
  BY <1>1 DEF CollectorInv
<1> QED BY <1>1, <1>5, <1>7, <1>8, <1>9 DEF CollectorInv

(* Nothing is overwritten: a write adds the point of its report, if any.   *)
LEMMA WriteAddsPoints ==
  ASSUME CollectorInv, NEW i \in Iface, WritePoints(i)
  PROVE  \/ flowStats' = flowStats
         \/ \E y : y.time = thread[i].at /\ flowStats' = flowStats \cup {y}
<1> DEFINE t == thread[i]
           batch == FlowPoints(t.info, t.info.hops, t.at)
<1>1. Writing(i) /\ flowStats' = Written(flowStats, batch)
  BY DEF WritePoints, PointsOf, flowStats, Measurements, Writing
<1>2. CASE batch = << >>
  BY <1>1, <1>2 DEF Written
<1>3. CASE batch # << >>
  <2>1. PICK y : batch = <<y>> /\ y.time = t.at
    <3>1. PICK tags, fields : batch = <<Point(t.at, tags, fields)>>
      BY <1>3 DEF FlowPoints
    <3> HIDE DEF batch
    <3> QED BY <3>1 DEF Point
  <2>2. \A x \in flowStats : Series(y) # Series(x)
    BY <1>1, <2>1 DEF CollectorInv, StampsDiffer, Series
  <2> HIDE DEF batch
  <2>3. Written(flowStats, batch) = flowStats \cup {y}
    BY <2>1, <2>2 DEF Written
  <2> QED BY <1>1, <2>1, <2>3
<1> QED BY <1>2, <1>3

LEMMA CollectorWrites ==
  ASSUME CollectorInv, NEW i \in Iface, WritePoints(i)
  PROVE  CollectorInv'
<1>1. /\ Writing(i) /\ clock' = clock /\ wire' = wire /\ stop' = stop /\ made' = made
      /\ thread' = [thread EXCEPT ![i] = [Idle EXCEPT !.pc = IF stop THEN "ended" ELSE "sniff"]]
      /\ stored' = stored \cup {[r |-> thread[i].r[1], at |-> thread[i].at]}
  BY DEF WritePoints, AfterPacket, Writing
<1>2. /\ thread' = [j \in Iface |-> thread'[j]]
      /\ \A j \in Iface : j # i => thread'[j] = thread[j] /\ (Writing(j)' <=> Writing(j))
      /\ thread'[i].pc = (IF stop THEN "ended" ELSE "sniff") /\ ~ Writing(i)'
  BY <1>1 DEF CollectorInv, CollectorTyped, Idle, Writing
<1>3. CollectorTyped'
  <2>1. \A j \in Iface : ReportsAt(j)' = ReportsAt(j)
    BY DEF ReportsAt
  <2>2. ASSUME NEW j \in Iface
        PROVE  /\ thread'[j].pc \in {"sniff", "write", "ended"}
               /\ Writing(j)' => \E y \in ReportsAt(j) : thread'[j].r = <<y>>
    BY <1>2 DEF CollectorInv, CollectorTyped
  <2> QED BY <1>1, <1>2, <2>1, <2>2 DEF CollectorInv, CollectorTyped
<1>4. LateOnce'
  BY <1>1, <1>2 DEF CollectorInv, LateOnce
<1>5. AtMostOneMore'
  <2>1. PICK y \in ReportsAt(i) : thread[i].r = <<y>>
    BY <1>1 DEF CollectorInv, CollectorTyped
  <2>2. thread[i].r[1] = y /\ Reporter(y.path) = i
    BY <2>1 DEF ReportsAt
  <2>3. [r |-> y, at |-> thread[i].at] \in stored'
    BY <1>1, <2>2
  <2>4. \E x \in stored' : Reporter(x.r.path) = i
    BY <2>2, <2>3
  <2>5. stored \subseteq stored'
    BY <1>1
  <2> QED BY <1>1, <1>2, <2>4, <2>5 DEF CollectorInv, AtMostOneMore
<1>6. StampsDiffer' /\ IsFiniteSet(flowStats)'
  <2>1. CASE flowStats' = flowStats
    BY <1>1, <1>2, <2>1 DEF CollectorInv, StampsDiffer
  <2>2. ASSUME NEW y, y.time = thread[i].at, flowStats' = flowStats \cup {y}
        PROVE  StampsDiffer' /\ IsFiniteSet(flowStats)'
    <3>1. /\ y.time \in Nat \X (1 .. made.stamps) /\ y.time[1] <= clock
          /\ \A j \in Iface : Writing(j)' => thread'[j].at[2] # y.time[2]
      BY <1>1, <1>2, <2>2 DEF CollectorInv, StampsDiffer
    <3>2. StampsDiffer'
      BY <1>1, <1>2, <2>2, <3>1 DEF CollectorInv, StampsDiffer
    <3> QED BY <2>2, <3>2, FS_AddElement DEF CollectorInv
  <2> QED BY <2>1, <2>2, WriteAddsPoints
<1> QED BY <1>3, <1>4, <1>5, <1>6 DEF CollectorInv

LEMMA CollectorFails ==
  ASSUME CollectorInv, NEW i \in Iface, WriteFails(i)
  PROVE  CollectorInv' /\ flowStats' = flowStats /\ clock' = clock
<1>1. /\ Writing(i) /\ clock' = clock /\ wire' = wire /\ stop' = stop
      /\ stored' = stored /\ flowStats' = flowStats
      /\ made' = [made EXCEPT !.outages = @ + 1]
      /\ thread' = [thread EXCEPT ![i] = [Idle EXCEPT !.pc = "ended"]]
  BY DEF WriteFails, Writing, flowStats
<1>2. /\ thread' = [j \in Iface |-> thread'[j]]
      /\ \A j \in Iface : j # i => thread'[j] = thread[j] /\ (Writing(j)' <=> Writing(j))
      /\ thread'[i].pc = "ended" /\ ~ Writing(i)'
  BY <1>1 DEF CollectorInv, CollectorTyped, Idle, Writing
<1>3. /\ made' \in [packets : Nat, stamps : Nat, outages : Nat, late : [Iface -> Nat]]
      /\ made'.late = made.late /\ made'.stamps = made.stamps
      /\ made'.outages # 0
  <2> DEFINE n == made.outages + 1
  <2>1. n \in Nat /\ n # 0
    BY DEF CollectorInv, CollectorTyped
  <2>2. made' = [made EXCEPT !.outages = n]
    BY <1>1
  <2> HIDE DEF n
  <2> QED BY <2>1, <2>2 DEF CollectorInv, CollectorTyped
<1>4. CollectorTyped'
  <2>1. \A j \in Iface : ReportsAt(j)' = ReportsAt(j)
    BY DEF ReportsAt
  <2>2. ASSUME NEW j \in Iface
        PROVE  /\ thread'[j].pc \in {"sniff", "write", "ended"}
               /\ Writing(j)' => \E y \in ReportsAt(j) : thread'[j].r = <<y>>
    BY <1>2 DEF CollectorInv, CollectorTyped
  <2> QED BY <1>1, <1>2, <1>3, <2>1, <2>2 DEF CollectorInv, CollectorTyped
<1>5. LateOnce' /\ AtMostOneMore'
  BY <1>1, <1>2, <1>3 DEF CollectorInv, LateOnce, AtMostOneMore
<1>6. StampsDiffer' /\ IsFiniteSet(flowStats)'
  BY <1>1, <1>2, <1>3 DEF CollectorInv, StampsDiffer
<1> QED BY <1>1, <1>4, <1>5, <1>6 DEF CollectorInv

-----------------------------------------------------------------------------
(* The visualizer. *)

(* A turn for one flow: the edges it has used get its colour and the time; *)
(* nothing else changes, and a flow keeps its colour.                      *)
LEMMA FlowUpdated ==
  \A v, points, f, random : IsView(v) =>
    LET w    == V!UpdateFlow(v, points, f, random)
        used == V!EdgesUsed(points, f)
    IN  /\ IsView(w) /\ w.running = v.running /\ w.at = v.at /\ w.due = v.due
        /\ f \in DOMAIN w.color
        /\ \A g \in DOMAIN v.color : g \in DOMAIN w.color /\ w.color[g] = v.color[g]
        /\ DOMAIN w.edge = DOMAIN v.edge \cup used
        /\ DOMAIN w.since = DOMAIN v.since \cup used
        /\ \A e \in used : w.edge[e] = w.color[f] /\ w.since[e] = clock
        /\ \A e \in DOMAIN v.edge \ used : w.edge[e] = v.edge[e]
        /\ \A e \in DOMAIN v.since \ used : w.since[e] = v.since[e]
<1> SUFFICES ASSUME NEW v, NEW points, NEW f, NEW random, IsView(v)
             PROVE  LET w    == V!UpdateFlow(v, points, f, random)
                        used == V!EdgesUsed(points, f)
                    IN  /\ IsView(w) /\ w.running = v.running /\ w.at = v.at /\ w.due = v.due
                        /\ f \in DOMAIN w.color
                        /\ \A g \in DOMAIN v.color :
                             g \in DOMAIN w.color /\ w.color[g] = v.color[g]
                        /\ DOMAIN w.edge = DOMAIN v.edge \cup used
                        /\ DOMAIN w.since = DOMAIN v.since \cup used
                        /\ \A e \in used : w.edge[e] = w.color[f] /\ w.since[e] = clock
                        /\ \A e \in DOMAIN v.edge \ used : w.edge[e] = v.edge[e]
                        /\ \A e \in DOMAIN v.since \ used : w.since[e] = v.since[e]
  OBVIOUS
<1> DEFINE c    == V!assign_color(v, f, random)
           d    == V!assign_flow_id(c, f)
           w    == V!UpdateFlow(v, points, f, random)
           used == V!EdgesUsed(points, f)
<1>1. /\ IsView(c) /\ c.running = v.running /\ c.at = v.at /\ c.due = v.due
      /\ c.edge = v.edge /\ c.since = v.since
      /\ f \in DOMAIN c.color
      /\ \A g \in DOMAIN v.color : g \in DOMAIN c.color /\ c.color[g] = v.color[g]
  BY DEF IsView, V!assign_color, V!Put
<1> HIDE DEF c
<1>2. /\ IsView(d) /\ d.running = c.running /\ d.at = c.at /\ d.due = c.due
      /\ d.edge = c.edge /\ d.since = c.since /\ d.color = c.color
  BY <1>1 DEF IsView, V!assign_flow_id
<1> HIDE DEF d
<1>3. w = [d EXCEPT !.edge  = V!Put(d.edge, used, d.color[f]),
                    !.since = V!Put(d.since, used, clock),
                    !.index = V!Put(d.index, {f}, used)]
  BY <1>2 DEF V!UpdateFlow, d, c, IsView
<1> HIDE DEF w, used
<1>4. /\ IsView(w) /\ w.running = d.running /\ w.at = d.at /\ w.due = d.due
      /\ w.color = d.color
      /\ w.edge = V!Put(d.edge, used, d.color[f])
      /\ w.since = V!Put(d.since, used, clock)
  BY <1>2, <1>3 DEF IsView
<1>5. /\ DOMAIN w.edge = DOMAIN v.edge \cup used
      /\ DOMAIN w.since = DOMAIN v.since \cup used
      /\ \A e \in used : w.edge[e] = w.color[f] /\ w.since[e] = clock
      /\ \A e \in DOMAIN v.edge \ used : w.edge[e] = v.edge[e]
      /\ \A e \in DOMAIN v.since \ used : w.since[e] = v.since[e]
  BY <1>1, <1>2, <1>4 DEF V!Put
<1> QED BY <1>1, <1>2, <1>4, <1>5 DEF w, used

(* The view after the first k of n flows, which used the edges used[1] to  *)
(* used[n]: all of them are coloured now, each by a flow that used it; the *)
(* others are as they were.                                                *)
Colored(v, points, order, k) ==
  LET used(j) == V!EdgesUsed(points, order[j])
  IN  /\ IsView(v) /\ v.running = view.running /\ v.at = view.at /\ v.due = view.due
      /\ \A g \in DOMAIN view.color : g \in DOMAIN v.color /\ v.color[g] = view.color[g]
      /\ \A j \in 1 .. k : \A e \in used(j) :
           e \in DOMAIN v.edge /\ e \in DOMAIN v.since /\ v.since[e] = clock
      /\ \A e \in DOMAIN v.edge :
           \/ e \in DOMAIN view.edge /\ v.edge[e] = view.edge[e]
              /\ \A j \in 1 .. k : e \notin used(j)
           \/ \E j \in 1 .. k : /\ e \in used(j) /\ order[j] \in DOMAIN v.color
                                /\ v.edge[e] = v.color[order[j]]
      /\ DOMAIN view.edge \subseteq DOMAIN v.edge
      /\ DOMAIN view.since \subseteq DOMAIN v.since
      /\ \A e \in DOMAIN v.since :
           (\A j \in 1 .. k : e \notin used(j)) =>
             e \in DOMAIN view.since /\ v.since[e] = view.since[e]

LEMMA ColoredNext ==
  \A points, order, random, v : \A k \in Nat \ {0} :
    Colored(v, points, order, k - 1) =>
      Colored(V!UpdateFlow(v, points, order[k], random), points, order, k)
<1> SUFFICES ASSUME NEW points, NEW order, NEW random, NEW v, NEW k \in Nat \ {0},
                    Colored(v, points, order, k - 1)
             PROVE  Colored(V!UpdateFlow(v, points, order[k], random), points, order, k)
  OBVIOUS
<1> DEFINE w       == V!UpdateFlow(v, points, order[k], random)
           used(j) == V!EdgesUsed(points, order[j])
<1>1. /\ IsView(w) /\ w.running = v.running /\ w.at = v.at /\ w.due = v.due
      /\ order[k] \in DOMAIN w.color
      /\ \A g \in DOMAIN v.color : g \in DOMAIN w.color /\ w.color[g] = v.color[g]
      /\ DOMAIN w.edge = DOMAIN v.edge \cup used(k)
      /\ DOMAIN w.since = DOMAIN v.since \cup used(k)
      /\ \A e \in used(k) : w.edge[e] = w.color[order[k]] /\ w.since[e] = clock
      /\ \A e \in DOMAIN v.edge \ used(k) : w.edge[e] = v.edge[e]
      /\ \A e \in DOMAIN v.since \ used(k) : w.since[e] = v.since[e]
  BY FlowUpdated DEF Colored
<1>2. 1 .. k = (1 .. k - 1) \cup {k}
  OBVIOUS
<1> HIDE DEF w
<1>3. /\ IsView(w) /\ w.running = view.running /\ w.at = view.at /\ w.due = view.due
      /\ \A g \in DOMAIN view.color : g \in DOMAIN w.color /\ w.color[g] = view.color[g]
      /\ DOMAIN view.edge \subseteq DOMAIN w.edge /\ DOMAIN view.since \subseteq DOMAIN w.since
  BY <1>1 DEF Colored
<1>4. ASSUME NEW j \in 1 .. k, NEW e \in used(j)
      PROVE  e \in DOMAIN w.edge /\ e \in DOMAIN w.since /\ w.since[e] = clock
  BY <1>1, <1>2 DEF Colored
<1>5. ASSUME NEW e \in DOMAIN w.edge
      PROVE  \/ e \in DOMAIN view.edge /\ w.edge[e] = view.edge[e]
                /\ \A j \in 1 .. k : e \notin used(j)
             \/ \E j \in 1 .. k : /\ e \in used(j) /\ order[j] \in DOMAIN w.color
                                  /\ w.edge[e] = w.color[order[j]]
  <2>1. CASE e \in used(k)
    BY <1>1, <1>2, <2>1
  <2>2. CASE e \notin used(k)
    <3>1. e \in DOMAIN v.edge /\ w.edge[e] = v.edge[e]
      BY <1>1, <1>5, <2>2
    <3>2. \/ e \in DOMAIN view.edge /\ v.edge[e] = view.edge[e]
             /\ \A j \in 1 .. k - 1 : e \notin used(j)
          \/ \E j \in 1 .. k - 1 : /\ e \in used(j) /\ order[j] \in DOMAIN v.color
                                   /\ v.edge[e] = v.color[order[j]]
      BY <3>1 DEF Colored
    <3> HIDE DEF used
    <3> QED BY <1>1, <1>2, <2>2, <3>1, <3>2
  <2> QED BY <2>1, <2>2
<1>6. ASSUME NEW e \in DOMAIN w.since, \A j \in 1 .. k : e \notin used(j)
      PROVE  e \in DOMAIN view.since /\ w.since[e] = view.since[e]
  <2>1. e \in DOMAIN v.since /\ w.since[e] = v.since[e] /\ \A j \in 1 .. k - 1 : e \notin used(j)
    BY <1>1, <1>2, <1>6
  <2> QED BY <2>1 DEF Colored
<1> QED BY <1>3, <1>4, <1>5, <1>6 DEF Colored, w

LEMMA GraphUpdated ==
  \A points, order, random : IsView(view) /\ Len(order) \in Nat =>
    Colored(V!update_graph(points, order, random), points, order, Len(order))
<1> SUFFICES ASSUME NEW points, NEW order, NEW random, IsView(view), Len(order) \in Nat
             PROVE  Colored(V!update_graph(points, order, random), points, order, Len(order))
  OBVIOUS
<1> DEFINE n == Len(order)
           Step(k, v) == V!UpdateFlow(v, points, order[k], random)
           after == CHOOSE g : g = [k \in 0 .. n |-> IF k = 0 THEN view ELSE Step(k, g[k-1])]
<1>1. V!update_graph(points, order, random) = after[n]
  BY DEF V!update_graph
<1> HIDE DEF Step
<1>2. \A m \in 0 .. n : \E g : g = [k \in 0 .. m |-> IF k = 0 THEN view ELSE Step(k, g[k-1])]
  <2> DEFINE Wrong == {m \in 0 .. n :
                 ~ \E g : g = [k \in 0 .. m |-> IF k = 0 THEN view ELSE Step(k, g[k-1])]}
  <2>1. SUFFICES ASSUME Wrong # {} PROVE FALSE
    OBVIOUS
  <2>2. Wrong \subseteq Nat
    OBVIOUS
  <2>3. PICK m \in Wrong : \A k \in Wrong : m <= k
    BY <2>1, <2>2, LeastNatural
  <2>4. CASE m = 0
    <3> DEFINE g == [k \in 0 .. 0 |-> view]
    <3>1. g = [k \in 0 .. 0 |-> IF k = 0 THEN view ELSE Step(k, g[k-1])]
      OBVIOUS
    <3> QED BY <2>3, <2>4, <3>1
  <2>5. CASE m # 0
    <3>1. m \in 1 .. n /\ m - 1 \in 0 .. n /\ m - 1 \notin Wrong
      <4>1. m \in 0 .. n
        OBVIOUS
      <4> HIDE DEF Wrong
      <4> QED BY <2>3, <2>5, <4>1
    <3>2. PICK g : g = [k \in 0 .. m - 1 |-> IF k = 0 THEN view ELSE Step(k, g[k-1])]
      BY <3>1
    <3> DEFINE h == [k \in 0 .. m |-> IF k = m THEN Step(m, g[m-1]) ELSE g[k]]
    <3>3. ASSUME NEW k \in 0 .. m
          PROVE  h[k] = IF k = 0 THEN view ELSE Step(k, h[k-1])
      <4>1. CASE k = m
        BY <3>1, <4>1
      <4>2. CASE k # m
        <5>1. k \in 0 .. m - 1 /\ h[k] = g[k] /\ (k # 0 => h[k-1] = g[k-1])
          BY <3>1, <4>2
        <5>2. g[k] = IF k = 0 THEN view ELSE Step(k, g[k-1])
          BY <3>2, <5>1
        <5> QED BY <5>1, <5>2
      <4> QED BY <4>1, <4>2
    <3> HIDE DEF h
    <3>4. h = [k \in 0 .. m |-> IF k = 0 THEN view ELSE Step(k, h[k-1])]
      <4>1. h = [k \in 0 .. m |-> h[k]]
        BY DEF h
      <4> QED BY <3>3, <4>1
    <3> QED BY <2>3, <3>4
  <2> QED BY <2>4, <2>5
<1>3. after = [k \in 0 .. n |-> IF k = 0 THEN view ELSE Step(k, after[k-1])]
  <2>1. \E g : g = [k \in 0 .. n |-> IF k = 0 THEN view ELSE Step(k, g[k-1])]
    BY <1>2
  <2> QED BY <2>1
<1> HIDE DEF after
<1>4. after[0] = view /\ \A k \in 1 .. n : after[k] = Step(k, after[k-1])
  BY <1>3
<1>5. \A k \in 0 .. n : Colored(after[k], points, order, k)
  <2> DEFINE Wrong == {k \in 0 .. n : ~ Colored(after[k], points, order, k)}
  <2>1. SUFFICES ASSUME Wrong # {} PROVE FALSE
    OBVIOUS
  <2>2. Wrong \subseteq Nat
    OBVIOUS
  <2>3. PICK m \in Wrong : \A k \in Wrong : m <= k
    BY <2>1, <2>2, LeastNatural
  <2>4. m # 0
    <3>1. Colored(view, points, order, 0)
      BY DEF Colored
    <3> QED BY <1>4, <3>1
  <2>5. m \in Nat \ {0} /\ m \in 1 .. n /\ m - 1 \in 0 .. n /\ m - 1 \notin Wrong
    BY <2>3, <2>4
  <2>6. Colored(after[m-1], points, order, m - 1)
    BY <2>5
  <2>7. Colored(Step(m, after[m-1]), points, order, m)
    BY <2>5, <2>6, ColoredNext DEF Step
  <2> QED BY <1>4, <2>5, <2>7
<1> QED BY <1>1, <1>5

LEMMA ViewInit == TInit => ViewInv
<1> SUFFICES ASSUME TInit PROVE ViewInv
  OBVIOUS
<1>1. clock = 0 /\ flowStats = {}
  BY DEF TInit, CInit, flowStats, Measurements
<1>2. /\ IsView(view) /\ view.at = 0 /\ view.due = 0 /\ view.edge = << >>
  BY DEF TInit, V!VInit, IsView
<1> QED BY <1>1, <1>2 DEF ViewInv, LooksInTime, ColoredByTraffic, SeenOrSoon

LEMMA ViewTime == CollectorInv /\ ViewInv /\ Time => ViewInv'
<1> SUFFICES ASSUME CollectorInv, ViewInv, Time PROVE ViewInv'
  OBVIOUS
<1>1. /\ view' = view /\ flowStats' = flowStats /\ clock' = clock + 1 /\ clock \in Nat
      /\ view.running => clock < view.due
  BY DEF Time, Tick, flowStats, CollectorInv, CollectorTyped
<1>2. LooksInTime'
  BY <1>1 DEF ViewInv, LooksInTime, IsView
<1> QED
  BY <1>1, <1>2 DEF ViewInv, ColoredByTraffic, SeenOrSoon, Seen, V!Uses, V!EdgesOf, V!FlowOf

LEMMA ViewUntouched ==
  ViewInv /\ view' = view /\ clock' = clock /\ flowStats' = flowStats => ViewInv'
BY DEF ViewInv, LooksInTime, IsView, ColoredByTraffic, SeenOrSoon, Seen, V!Uses, V!EdgesOf, V!FlowOf

LEMMA ViewWrites ==
  ASSUME CollectorInv, ViewInv, NEW i \in Iface, WritePoints(i), view' = view
  PROVE  ViewInv'
<1>1. clock' = clock
  BY DEF WritePoints
<1>2. CASE flowStats' = flowStats
  BY <1>1, <1>2, ViewUntouched
<1>3. ASSUME NEW y, y.time = thread[i].at, flowStats' = flowStats \cup {y}
      PROVE  ViewInv'
  <2>1. /\ y.time[1] \in Nat /\ clock <= y.time[1] + WriteTime
    BY <1>3 DEF WritePoints, CollectorInv, StampsDiffer, Writing
  <2>2. view.running => view.due < y.time[1] + 4
    <3>1. clock \in Nat /\ WriteTime \in Nat /\ PollTimes \subseteq Nat
          /\ \A d \in PollTimes : WriteTime + d < 4
      BY TelemetryTyped, PromptEnough DEF CollectorInv, CollectorTyped, V!SECOND
    <3> QED BY <2>1, <3>1 DEF ViewInv, LooksInTime
  <2>3. LooksInTime'
    BY <1>1 DEF ViewInv, LooksInTime, IsView
  <2>4. ColoredByTraffic'
    BY <1>3 DEF ViewInv, ColoredByTraffic, V!Uses, V!EdgesOf, V!FlowOf
  <2>5. SeenOrSoon'
    BY <1>3, <2>2 DEF ViewInv, SeenOrSoon, Seen, V!Uses, V!EdgesOf
  <2> QED BY <2>3, <2>4, <2>5 DEF ViewInv
<1> QED BY <1>2, <1>3, WriteAddsPoints

LEMMA ViewLooks ==
  ASSUME CollectorInv, ViewInv, Look
  PROVE  ViewInv'
<1> DEFINE points == V!LastSecond
           flows  == {V!FlowOf(x) : x \in points}
<1>1. PICK order \in V!SetToSeqs(flows), random \in AnyColor, d \in PollTimes :
        view' = [V!RemoveStale(V!update_graph(points, order, random))
                   EXCEPT !.at = clock, !.due = clock + d]
  <2>1. V!Poll
    BY DEF Look
  <2> QED BY <2>1 DEF V!Poll
<1> DEFINE w == V!update_graph(points, order, random)
           n == Len(order)
<1>2. /\ view.running /\ clock' = clock /\ flowStats' = flowStats
      /\ clock \in Nat /\ d \in Nat /\ IsView(view)
  BY TelemetryTyped
     DEF Look, V!Poll, flowStats, CollectorInv, CollectorTyped, ViewInv, LooksInTime
<1>3. /\ points \subseteq flowStats
      /\ \A x \in flowStats : x \in points <=> x.time[1] > clock - 4
  BY DEF V!LastSecond, V!SECOND
<1> HIDE DEF points
<1>4. IsFiniteSet(flows)
  <2> DEFINE g == [x \in points |-> V!FlowOf(x)]
  <2>1. g \in Surjection(points, flows)
    BY DEF Surjection
  <2>2. IsFiniteSet(points)
    BY <1>3, FS_Subset DEF CollectorInv
  <2> QED BY <2>1, <2>2, FS_Surjection
<1>5. n \in Nat /\ \A f \in flows : \E j \in 1 .. n : order[j] = f
  <2>1. order \in SetToSeqs(flows)
    <3>1. V!Cardinality(flows) = Cardinality(flows)
      BY DEF Cardinality, V!Cardinality
    <3> QED BY <3>1 DEF SetToSeqs, V!SetToSeqs
  <2> QED BY <1>4, <2>1, OrderHasAll
<1>6. Colored(w, points, order, n)
  BY <1>2, <1>5, GraphUpdated
<1>7. \A f : \A e : e \in V!EdgesUsed(points, f) <=>
                    \E x \in points : V!FlowOf(x) = f /\ V!Uses(x, e)
  BY DEF V!EdgesUsed, V!Uses
<1> HIDE DEF w, flows
<1>8. /\ IsView(view') /\ view'.at = clock /\ view'.due = clock + d /\ view'.running
      /\ view'.color = w.color /\ view'.since = w.since
      /\ view'.edge = V!Restrict(w.edge, DOMAIN w.edge \ V!Stale(w))
  <2> DEFINE u == V!RemoveStale(w)
  <2>1. /\ IsView(w) /\ w.running
    BY <1>2, <1>6 DEF Colored
  <2>2. /\ IsView(u) /\ u.running /\ u.color = w.color /\ u.since = w.since
        /\ u.edge = V!Restrict(w.edge, DOMAIN w.edge \ V!Stale(w))
    <3> DEFINE edge  == V!Restrict(w.edge, DOMAIN w.edge \ V!Stale(w))
               index == V!Restrict(w.index, {f \in DOMAIN w.index :
                                               w.index[f] \cap V!Stale(w) = {}})
    <3>1. u = [w EXCEPT !.edge = edge, !.index = index]
      BY <2>1 DEF V!RemoveStale, IsView
    <3> HIDE DEF u, edge, index
    <3>2. IsView(u) /\ u.running /\ u.color = w.color /\ u.since = w.since /\ u.edge = edge
      BY <2>1, <3>1 DEF IsView
    <3> QED BY <3>2 DEF edge
  <2>3. view' = [u EXCEPT !.at = clock, !.due = clock + d]
    BY <1>1 DEF w
  <2> HIDE DEF u
  <2> QED BY <2>2, <2>3 DEF IsView
<1>9. /\ DOMAIN view'.edge = DOMAIN w.edge \ V!Stale(w)
      /\ \A e \in DOMAIN view'.edge : view'.edge[e] = w.edge[e]
  BY <1>8 DEF V!Restrict
<1>10. \A e \in DOMAIN w.since : e \in V!Stale(w) <=> clock - w.since[e] > 8
  BY DEF V!Stale, V!SECOND
<1>11. LooksInTime'
  BY <1>2, <1>8 DEF LooksInTime
<1>12. ColoredByTraffic'
  <2> SUFFICES ASSUME NEW e \in DOMAIN view'.edge
               PROVE  /\ e \in DOMAIN view'.since /\ view'.since[e] \in Nat
                      /\ view'.since[e] <= view'.at /\ view'.at <= view'.since[e] + 8
                      /\ \E x \in flowStats :
                           /\ V!Uses(x, e) /\ x.time[1] > view'.since[e] - 4
                           /\ V!FlowOf(x) \in DOMAIN view'.color
                           /\ view'.color[V!FlowOf(x)] = view'.edge[e]
    BY <1>2 DEF ColoredByTraffic, V!Uses, V!EdgesOf, V!FlowOf
  <2>1. e \in DOMAIN w.edge /\ e \notin V!Stale(w) /\ view'.edge[e] = w.edge[e]
    BY <1>9
  <2>2. CASE e \in DOMAIN view.edge /\ w.edge[e] = view.edge[e]
             /\ \A j \in 1 .. n : e \notin V!EdgesUsed(points, order[j])
    <3>1. /\ e \in DOMAIN view.since /\ view.since[e] \in Nat
          /\ view.since[e] <= view.at /\ view.at <= clock /\ view.at \in Nat
      BY <2>2 DEF ViewInv, ColoredByTraffic, LooksInTime
    <3>2. e \in DOMAIN w.since /\ w.since[e] = view.since[e]
      BY <1>6, <2>2, <3>1 DEF Colored
    <3>3. clock <= w.since[e] + 8
      BY <1>2, <1>10, <2>1, <3>1, <3>2
    <3>4. PICK x \in flowStats :
            /\ V!Uses(x, e) /\ x.time[1] > view.since[e] - 4
            /\ V!FlowOf(x) \in DOMAIN view.color /\ view.color[V!FlowOf(x)] = view.edge[e]
      BY <2>2 DEF ViewInv, ColoredByTraffic
    <3>5. V!FlowOf(x) \in DOMAIN w.color /\ w.color[V!FlowOf(x)] = view.edge[e]
      BY <1>6, <3>4 DEF Colored
    <3> QED BY <1>2, <1>8, <2>1, <2>2, <3>1, <3>2, <3>3, <3>4, <3>5
  <2>3. CASE \E j \in 1 .. n : /\ e \in V!EdgesUsed(points, order[j])
                               /\ order[j] \in DOMAIN w.color
                               /\ w.edge[e] = w.color[order[j]]
    <3>1. PICK j \in 1 .. n : /\ e \in V!EdgesUsed(points, order[j])
                              /\ order[j] \in DOMAIN w.color
                              /\ w.edge[e] = w.color[order[j]]
      BY <2>3
    <3>2. PICK x \in points : V!FlowOf(x) = order[j] /\ V!Uses(x, e)
      BY <1>7, <3>1
    <3>3. e \in DOMAIN w.since /\ w.since[e] = clock
      BY <1>6, <3>1 DEF Colored
    <3>4. x \in flowStats /\ x.time[1] > clock - 4
      BY <1>3, <3>2
    <3> QED BY <1>2, <1>8, <2>1, <3>1, <3>2, <3>3, <3>4
  <2> QED BY <1>6, <2>1, <2>2, <2>3 DEF Colored
<1>13. SeenOrSoon'
  <2> SUFFICES ASSUME NEW x \in flowStats, NEW e, V!Uses(x, e)
               PROVE  /\ e \in DOMAIN view'.since /\ view'.since[e] \in Nat
                      /\ x.time[1] <= view'.since[e] /\ view'.since[e] <= view'.at
                      /\ view'.at <= view'.since[e] + 8 => e \in DOMAIN view'.edge
    BY <1>2 DEF SeenOrSoon, Seen, V!Uses, V!EdgesOf
  <2>1. x.time[1] \in Nat /\ x.time[1] <= clock
    BY DEF CollectorInv, StampsDiffer
  <2>2. CASE \E j \in 1 .. n : e \in V!EdgesUsed(points, order[j])
    <3>1. e \in DOMAIN w.edge /\ e \in DOMAIN w.since /\ w.since[e] = clock
      BY <1>6, <2>2 DEF Colored
    <3>2. e \notin V!Stale(w)
      BY <1>2, <1>10, <3>1
    <3> QED BY <1>2, <1>8, <1>9, <2>1, <3>1, <3>2
  <2>3. CASE \A j \in 1 .. n : e \notin V!EdgesUsed(points, order[j])
    <3>1. x \notin points
      BY <1>5, <1>7, <2>3 DEF flows
    <3>2. Seen(x, e)
      <4>1. x.time[1] <= clock - 4
        BY <1>2, <1>3, <2>1, <3>1
      <4>2. view.due \in Nat /\ clock <= view.due
        BY <1>2 DEF ViewInv, LooksInTime
      <4>3. Seen(x, e) \/ view.due < x.time[1] + 4
        BY <1>2 DEF ViewInv, SeenOrSoon
      <4> QED BY <1>2, <2>1, <4>1, <4>2, <4>3
    <3>3. /\ e \in DOMAIN view.since /\ view.since[e] \in Nat /\ x.time[1] <= view.since[e]
          /\ view.since[e] <= view.at /\ view.at <= clock /\ view.at \in Nat
          /\ view.at <= view.since[e] + 8 => e \in DOMAIN view.edge
      BY <3>2 DEF Seen, ViewInv, LooksInTime
    <3>4. e \in DOMAIN w.since /\ w.since[e] = view.since[e]
      BY <1>6, <2>3, <3>3 DEF Colored
    <3>5. ASSUME clock <= w.since[e] + 8
          PROVE  e \in DOMAIN w.edge /\ e \notin V!Stale(w)
      <4>1. e \in DOMAIN view.edge
        BY <1>2, <3>3, <3>4, <3>5
      <4>2. ~ (clock - w.since[e] > 8)
        BY <1>2, <3>3, <3>4, <3>5
      <4> QED BY <1>6, <1>10, <3>4, <4>1, <4>2 DEF Colored
    <3> QED BY <1>2, <1>8, <1>9, <3>3, <3>4, <3>5
  <2> QED BY <2>2, <2>3
<1> QED BY <1>11, <1>12, <1>13 DEF ViewInv

LEMMA ViewFails ==
  ASSUME ViewInv, LookFails
  PROVE  ViewInv'
<1>1. /\ clock' = clock /\ flowStats' = flowStats /\ view' = [view EXCEPT !.running = FALSE]
  BY DEF LookFails, V!PollFails, flowStats
<1>2. /\ IsView(view)' /\ ~ view'.running /\ view'.at = view.at /\ view'.due = view.due
      /\ view'.color = view.color /\ view'.edge = view.edge /\ view'.since = view.since
  BY <1>1 DEF ViewInv, LooksInTime, IsView
<1> QED
  BY <1>1, <1>2 DEF ViewInv, LooksInTime, ColoredByTraffic, SeenOrSoon, V!Uses, V!EdgesOf, V!FlowOf

-----------------------------------------------------------------------------
(* Every step keeps both. *)

TelemetryInv == CollectorInv /\ ViewInv

LEMMA TelemetryStep == TelemetryInv /\ [TNext]_tvars => TelemetryInv'
<1> SUFFICES ASSUME TelemetryInv, [TNext]_tvars PROVE TelemetryInv'
  OBVIOUS
<1>1. CollectorInv /\ ViewInv
  BY DEF TelemetryInv
<1>2. CASE Time
  <2>1. Tick
    BY <1>2 DEF Time
  <2> QED BY <1>1, <1>2, <2>1, CollectorTime, ViewTime DEF TelemetryInv
<1>3. CASE Look
  <2>1. CollectorInv'
    BY <1>1, <1>3 DEF Look, CollectorInv, CollectorTyped, LateOnce, AtMostOneMore,
                      StampsDiffer, Writing, ReportsAt, flowStats
  <2> QED BY <1>1, <1>3, <2>1, ViewLooks DEF TelemetryInv
<1>4. CASE LookFails
  <2>1. /\ clock' = clock /\ wire' = wire /\ thread' = thread /\ stop' = stop
        /\ stored' = stored /\ flowStats' = flowStats
        /\ made' = [made EXCEPT !.outages = @ + 1]
    BY <1>4 DEF LookFails, flowStats
  <2>2. /\ made' \in [packets : Nat, stamps : Nat, outages : Nat, late : [Iface -> Nat]]
        /\ made'.late = made.late /\ made'.stamps = made.stamps /\ made'.outages # 0
    <3> DEFINE n == made.outages + 1
    <3>1. n \in Nat /\ n # 0
      BY <1>1 DEF CollectorInv, CollectorTyped
    <3>2. made' = [made EXCEPT !.outages = n]
      BY <2>1
    <3> HIDE DEF n
    <3> QED BY <1>1, <3>1, <3>2 DEF CollectorInv, CollectorTyped
  <2>3. CollectorInv'
    BY <1>1, <2>1, <2>2 DEF CollectorInv, CollectorTyped, LateOnce, AtMostOneMore,
                            StampsDiffer, Writing, ReportsAt
  <2> QED BY <1>1, <1>4, <2>3, ViewFails DEF TelemetryInv
<1>5. ASSUME NEW f \in DOMAIN Flow, Report(f), view' = view
      PROVE  TelemetryInv'
  <2>1. clock' = clock /\ flowStats' = flowStats
    BY <1>5 DEF Report, flowStats
  <2> QED BY <1>1, <1>5, <2>1, CollectorReport, ViewUntouched DEF TelemetryInv
<1>6. ASSUME NEW i \in Iface, TakeReport(i), view' = view
      PROVE  TelemetryInv'
  BY <1>1, <1>6, CollectorTakes, ViewUntouched DEF TelemetryInv
<1>7. ASSUME NEW i \in Iface, WritePoints(i), view' = view
      PROVE  TelemetryInv'
  BY <1>1, <1>7, CollectorWrites, ViewWrites DEF TelemetryInv
<1>8. ASSUME NEW i \in Iface, WriteFails(i), view' = view
      PROVE  TelemetryInv'
  BY <1>1, <1>8, CollectorFails, ViewUntouched DEF TelemetryInv
<1>9. CASE KeyboardInterrupt /\ view' = view
  <2>1. clock' = clock /\ flowStats' = flowStats
    BY <1>9 DEF KeyboardInterrupt, flowStats
  <2> QED BY <1>1, <1>9, <2>1, CollectorInterrupt, ViewUntouched DEF TelemetryInv
<1>10. CASE UNCHANGED tvars
  <2>1. CollectorInv'
    BY <1>1, <1>10 DEF tvars, CollectorInv, CollectorTyped, LateOnce, AtMostOneMore,
                       StampsDiffer, Writing, ReportsAt, flowStats
  <2>2. view' = view /\ clock' = clock /\ flowStats' = flowStats
    BY <1>10 DEF tvars, flowStats
  <2> QED BY <1>1, <2>1, <2>2, ViewUntouched DEF TelemetryInv
<1> QED BY <1>2, <1>3, <1>4, <1>5, <1>6, <1>7, <1>8, <1>9, <1>10 DEF TNext, Handle

LEMMA TelemetryInvariant == TSpec => []TelemetryInv
<1>1. TInit => TelemetryInv
  BY CollectorInit, ViewInit DEF TelemetryInv
<1> QED BY <1>1, TelemetryStep, PTL DEF TSpec

(* Ctrl-C loses no report that is in work, and costs each thread one more  *)
(* at most (receive/collector: sniff_interface looks at its flag only      *)
(* after a packet).                                                        *)
THEOREM CtrlCCostsOneReport == TSpec => []AtMostOneMore
<1>1. TelemetryInv => AtMostOneMore
  BY DEF TelemetryInv, CollectorInv
<1> QED BY <1>1, TelemetryInvariant, PTL

(* However the flows of a look are ordered and however many looks fail to  *)
(* come, an edge is shown in the colour of a flow that used it in the last *)
(* three seconds (visualizer: update_graph and the expiry in main).        *)
THEOREM PictureIsRecent == TSpec => []ShownIsRecentTraffic
<1>1. TelemetryInv => ShownIsRecentTraffic
  <2> SUFFICES ASSUME TelemetryInv, NEW e \in DOMAIN view.edge
               PROVE  \E x \in flowStats :
                        /\ V!Uses(x, e) /\ x.time[1] > view.at - 12
                        /\ V!FlowOf(x) \in DOMAIN view.color
                        /\ view.color[V!FlowOf(x)] = view.edge[e]
    BY DEF ShownIsRecentTraffic, V!ShownIsRecentTraffic, V!SECOND
  <2>1. /\ view.since[e] \in Nat /\ view.at \in Nat /\ view.at <= view.since[e] + 8
    BY DEF TelemetryInv, ViewInv, ColoredByTraffic, LooksInTime
  <2>2. PICK x \in flowStats :
          /\ V!Uses(x, e) /\ x.time[1] > view.since[e] - 4
          /\ V!FlowOf(x) \in DOMAIN view.color /\ view.color[V!FlowOf(x)] = view.edge[e]
    BY DEF TelemetryInv, ViewInv, ColoredByTraffic
  <2>3. x.time[1] \in Nat
    BY DEF TelemetryInv, CollectorInv, StampsDiffer
  <2>4. x.time[1] > view.at - 12
    BY <2>1, <2>2, <2>3
  <2> QED BY <2>2, <2>4
<1> QED BY <1>1, TelemetryInvariant, PTL

(* No path falls between two looks: with the pauses of the program, every  *)
(* edge of every point written is on the picture for two seconds.          *)
THEOREM EveryPathIsShown == TSpec => []EveryPathShown
<1>1. TelemetryInv => EveryPathShown
  <2> SUFFICES ASSUME TelemetryInv, view.running, NEW x \in flowStats, NEW e,
                      V!Uses(x, e), view.at \in x.time[1] + 4 .. x.time[1] + 8
               PROVE  e \in DOMAIN view.edge
    BY DEF EveryPathShown, V!EveryPathShown, V!SECOND
  <2>1. /\ x.time[1] \in Nat /\ view.at \in Nat /\ view.due \in Nat /\ clock \in Nat
        /\ view.at <= clock /\ clock <= view.due
    BY DEF TelemetryInv, CollectorInv, CollectorTyped, StampsDiffer, ViewInv, LooksInTime
  <2>2. Seen(x, e) \/ view.due < x.time[1] + 4
    BY DEF TelemetryInv, ViewInv, SeenOrSoon
  <2>3. Seen(x, e)
    BY <2>1, <2>2
  <2>4. view.since[e] \in Nat /\ x.time[1] <= view.since[e]
        /\ (view.at <= view.since[e] + 8 => e \in DOMAIN view.edge)
    BY <2>3 DEF Seen
  <2> QED BY <2>1, <2>4
<1> QED BY <1>1, TelemetryInvariant, PTL

-----------------------------------------------------------------------------
(* What is stored tells what was reported.                                 *)

(* The points of a report are those that InfluxDB would keep of its batch  *)
(* alone, and every point is of a report that was stored.                  *)
Batch(x) == PointsOf(FlowInfo(Packet(x.r)), x.at)
DbTells ==
  /\ db = [m \in Measurements |-> db[m]]
  /\ \A i \in Iface : Writing(i) => thread[i].info = FlowInfo(Packet(thread[i].r[1]))
  /\ \A x \in stored :
       /\ Reported(x.r) /\ x.at \in Nat \X (1 .. made.stamps)
       /\ \A i \in Iface : Writing(i) => thread[i].at[2] # x.at[2]
       /\ \A m \in Measurements : {y \in db[m] : y.time = x.at} = Written({}, Batch(x)[m])
  /\ \A m \in Measurements : \A y \in db[m] : \E x \in stored : y.time = x.at

LEMMA AtSinkReported ==
  ASSUME NEW i, NEW r \in ReportsAt(i)
  PROVE  Reported(r)
<1>1. r.flow \in DOMAIN Flow /\ r.path \in Flow[r.flow].paths /\ r.n \in 1 .. MaxPackets
  BY DEF ReportsAt
<1>2. r.n \in Nat \ {0}
  BY <1>1, TelemetryTyped
<1> QED BY <1>1, <1>2 DEF Reported

LEMMA DbInit == TInit => DbTells
<1> SUFFICES ASSUME TInit PROVE DbTells
  OBVIOUS
<1>1. /\ thread = [i \in Iface |-> Idle] /\ stored = {} /\ db = [m \in Measurements |-> {}]
  BY DEF TInit, CInit
<1>2. \A i \in Iface : ~ Writing(i)
  BY <1>1 DEF Writing, Idle
<1> QED BY <1>1, <1>2 DEF DbTells

(* Nothing written, nothing taken. *)
LEMMA DbUntouched ==
  ASSUME DbTells, db' = db, stored' = stored, made'.stamps = made.stamps,
         \A i \in Iface : Writing(i)' => Writing(i) /\ thread'[i] = thread[i]
  PROVE  DbTells'
BY DEF DbTells, Batch

LEMMA DbTakes ==
  ASSUME CollectorInv, DbTells, NEW i \in Iface, TakeReport(i)
  PROVE  DbTells'
<1>1. /\ db' = db /\ stored' = stored /\ wire[i] # << >>
      /\ made' = [made EXCEPT !.stamps = @ + 1, !.late[i] = IF stop THEN @ + 1 ELSE @]
      /\ thread' = [thread EXCEPT ![i] =
           [pc |-> "write", r |-> <<Head(wire[i])>>, info |-> FlowInfo(Packet(Head(wire[i]))),
            at |-> <<clock, made.stamps + 1>>]]
  BY DEF TakeReport
<1>2. made.stamps \in Nat /\ made'.stamps = made.stamps + 1
  BY <1>1 DEF CollectorInv, CollectorTyped
<1>3. /\ \A j \in Iface : j # i => thread'[j] = thread[j] /\ (Writing(j)' <=> Writing(j))
      /\ thread'[i].info = FlowInfo(Packet(thread'[i].r[1]))
      /\ thread'[i].at[2] = made.stamps + 1
  BY <1>1 DEF CollectorInv, CollectorTyped, Writing
<1>4. ASSUME NEW x \in stored
      PROVE  /\ x.at \in Nat \X (1 .. made.stamps + 1)
             /\ \A j \in Iface : Writing(j)' => thread'[j].at[2] # x.at[2]
  <2>1. /\ x.at \in Nat \X (1 .. made.stamps)
        /\ \A j \in Iface : Writing(j) => thread[j].at[2] # x.at[2]
    BY DEF DbTells
  <2>2. x.at[2] # made.stamps + 1 /\ x.at \in Nat \X (1 .. made.stamps + 1)
    BY <1>2, <2>1
  <2> QED BY <1>3, <2>1, <2>2
<1>5. \A j \in Iface : Writing(j)' => thread'[j].info = FlowInfo(Packet(thread'[j].r[1]))
  BY <1>3 DEF DbTells
<1> QED BY <1>1, <1>2, <1>4, <1>5 DEF DbTells, Batch

LEMMA DbWrites ==
  ASSUME CollectorInv, DbTells, NEW i \in Iface, WritePoints(i)
  PROVE  DbTells'
<1> DEFINE t == thread[i]
           new == [r |-> t.r[1], at |-> t.at]
<1>1. /\ Writing(i) /\ made' = made /\ stored' = stored \cup {new}
      /\ thread' = [thread EXCEPT ![i] = [Idle EXCEPT !.pc = IF stop THEN "ended" ELSE "sniff"]]
      /\ db' = [m \in Measurements |-> Written(db[m], PointsOf(t.info, t.at)[m])]
  BY DEF WritePoints, AfterPacket, Writing
<1>2. /\ \A j \in Iface : j # i => thread'[j] = thread[j] /\ (Writing(j)' <=> Writing(j))
      /\ ~ Writing(i)'
  BY <1>1 DEF CollectorInv, CollectorTyped, Idle, Writing
<1>3. new.r = t.r[1] /\ new.at = t.at /\ Reported(new.r)
  <2>1. PICK y \in ReportsAt(i) : t.r = <<y>>
    BY <1>1 DEF CollectorInv, CollectorTyped
  <2> QED BY <2>1, AtSinkReported
<1>4. /\ t.at \in Nat \X (1 .. made.stamps)
      /\ \A j \in Iface : Writing(j)' => thread'[j].at[2] # t.at[2]
  BY <1>1, <1>2 DEF CollectorInv, StampsDiffer
<1>5. \A m : PointsOf(t.info, t.at)[m] = Batch(new)[m]
  BY <1>1, <1>3 DEF DbTells, Batch
<1> HIDE DEF new
<1>6. ASSUME NEW m \in Measurements, NEW y \in db[m]
      PROVE  y.time # t.at
  <2>1. PICK x \in stored : y.time = x.at
    BY DEF DbTells
  <2>2. t.at[2] # x.at[2]
    BY <1>1 DEF DbTells
  <2> QED BY <2>1, <2>2
<1>7. ASSUME NEW m \in Measurements
      PROVE  /\ db'[m] = db[m] \cup Written({}, Batch(new)[m])
             /\ \A y \in Written({}, Batch(new)[m]) : y.time = t.at
  <2> DEFINE batch == PointsOf(t.info, t.at)[m]
  <2>1. /\ \A k \in DOMAIN batch : batch[k].time = t.at
        /\ \A y \in Written({}, batch) : y.time = t.at
    BY BatchTimes
  <2>2. db'[m] = Written(db[m], batch)
    BY <1>1
  <2>3. batch = Batch(new)[m]
    BY <1>5
  <2> HIDE DEF batch
  <2>4. Written(db[m], batch) = db[m] \cup Written({}, batch)
    BY <1>6, <2>1, WrittenApart
  <2> QED BY <2>1, <2>2, <2>3, <2>4
<1>8. db' = [m \in Measurements |-> db'[m]]
  BY <1>1
<1>9. \A j \in Iface : Writing(j)' => thread'[j].info = FlowInfo(Packet(thread'[j].r[1]))
  BY <1>2 DEF DbTells
<1>10. ASSUME NEW x \in stored'
       PROVE  /\ Reported(x.r) /\ x.at \in Nat \X (1 .. made.stamps)
              /\ \A j \in Iface : Writing(j)' => thread'[j].at[2] # x.at[2]
              /\ \A m \in Measurements :
                   {y \in db'[m] : y.time = x.at} = Written({}, Batch(x)[m])
  <2>1. CASE x = new
    <3>1. \A m \in Measurements : {y \in db'[m] : y.time = x.at} = Written({}, Batch(x)[m])
      BY <1>3, <1>6, <1>7, <2>1
    <3> QED BY <1>3, <1>4, <2>1, <3>1
  <2>2. CASE x \in stored
    <3>1. /\ Reported(x.r) /\ x.at \in Nat \X (1 .. made.stamps) /\ t.at[2] # x.at[2]
          /\ \A j \in Iface : Writing(j) => thread[j].at[2] # x.at[2]
          /\ \A m \in Measurements : {y \in db[m] : y.time = x.at} = Written({}, Batch(x)[m])
      BY <1>1, <2>2 DEF DbTells
    <3>2. t.at # x.at
      BY <3>1
    <3>3. \A m \in Measurements : {y \in db'[m] : y.time = x.at} = {y \in db[m] : y.time = x.at}
      BY <1>7, <3>2
    <3> QED BY <1>2, <3>1, <3>3
  <2> QED BY <1>1, <2>1, <2>2
<1>11. ASSUME NEW m \in Measurements, NEW y \in db'[m]
       PROVE  \E x \in stored' : y.time = x.at
  <2>1. CASE y \in db[m]
    BY <1>1, <2>1 DEF DbTells
  <2>2. CASE y \in Written({}, Batch(new)[m])
    BY <1>1, <1>3, <1>7, <2>2
  <2> QED BY <1>7, <2>1, <2>2
<1> QED BY <1>1, <1>8, <1>9, <1>10, <1>11 DEF DbTells, Batch

LEMMA DbStep == TelemetryInv /\ DbTells /\ [TNext]_tvars => DbTells'
<1> SUFFICES ASSUME TelemetryInv, DbTells, [TNext]_tvars PROVE DbTells'
  OBVIOUS
<1>1. CollectorInv
  BY DEF TelemetryInv
<1>2. CASE db' = db /\ stored' = stored /\ made'.stamps = made.stamps /\ thread' = thread
  <2>1. \A i \in Iface : Writing(i)' => Writing(i) /\ thread'[i] = thread[i]
    BY <1>2 DEF Writing
  <2> QED BY <1>2, <2>1, DbUntouched
<1>3. CASE Time
  BY <1>2, <1>3 DEF Time, Tick
<1>4. CASE Look
  BY <1>2, <1>4 DEF Look
<1>5. CASE LookFails
  <2>1. /\ db' = db /\ stored' = stored /\ thread' = thread
        /\ made' = [made EXCEPT !.outages = @ + 1]
    BY <1>5 DEF LookFails
  <2>2. made'.stamps = made.stamps
    BY <1>1, <2>1 DEF CollectorInv, CollectorTyped
  <2> QED BY <1>2, <2>1, <2>2
<1>6. ASSUME NEW f \in DOMAIN Flow, Report(f) PROVE DbTells'
  <2>1. /\ db' = db /\ stored' = stored /\ thread' = thread
        /\ made' = [made EXCEPT !.packets = made.packets + 1]
    BY <1>6 DEF Report
  <2>2. made'.stamps = made.stamps
    BY <1>1, <2>1 DEF CollectorInv, CollectorTyped
  <2> QED BY <1>2, <2>1, <2>2
<1>7. ASSUME NEW i \in Iface, WriteFails(i) PROVE DbTells'
  <2>1. /\ db' = db /\ stored' = stored /\ made' = [made EXCEPT !.outages = @ + 1]
        /\ thread' = [thread EXCEPT ![i] = [Idle EXCEPT !.pc = "ended"]]
    BY <1>7 DEF WriteFails
  <2>2. made'.stamps = made.stamps
    BY <1>1, <2>1 DEF CollectorInv, CollectorTyped
  <2>3. \A j \in Iface : Writing(j)' => Writing(j) /\ thread'[j] = thread[j]
    BY <1>1, <2>1 DEF CollectorInv, CollectorTyped, Idle, Writing
  <2> QED BY <2>1, <2>2, <2>3, DbUntouched
<1>8. CASE KeyboardInterrupt
  BY <1>2, <1>8 DEF KeyboardInterrupt
<1>9. CASE UNCHANGED tvars
  BY <1>2, <1>9 DEF tvars
<1> QED
  BY <1>1, <1>3, <1>4, <1>5, <1>6, <1>7, <1>8, <1>9, DbTakes, DbWrites DEF TNext, Handle

LEMMA DbInvariant == TSpec => []DbTells
<1>1. TInit => TelemetryInv /\ DbTells
  BY CollectorInit, ViewInit, DbInit DEF TelemetryInv
<1>2. (TelemetryInv /\ DbTells) /\ [TNext]_tvars => (TelemetryInv /\ DbTells)'
  BY TelemetryStep, DbStep
<1> QED BY <1>1, <1>2, PTL DEF TSpec

LEMMA FirstVisitIs ==
  ASSUME NEW x, Reported(x.r), NEW i \in 1 .. Len(x.r.path), Firstly(x.r.path, i)
  PROVE  LatencyAt(x, x.r.path[i]) = Stamped(x.r, i).latency
         /\ StampOf(x, FirstVisit(x, x.r.path[i])) = Stamped(x.r, i)
<1> DEFINE path == x.r.path
           s == path[i]
           P(j) == path[j] = s /\ \A k \in 1 .. j - 1 : path[k] # s
           c == CHOOSE j \in DOMAIN path : P(j)
<1>1. DOMAIN path = 1 .. Len(path) /\ Len(path) \in Nat
  BY PathIs
<1>2. P(i)
  BY DEF Firstly
<1>3. \A j \in DOMAIN path : P(j) => j = i
  <2> SUFFICES ASSUME NEW j \in DOMAIN path, P(j) PROVE j = i
    OBVIOUS
  <2>1. ~ (j < i) /\ ~ (i < j)
    BY <1>1, <1>2
  <2> QED BY <1>1, <2>1
<1> HIDE DEF P
<1>4. c = i
  BY <1>1, <1>2, <1>3
<1>5. FirstVisit(x, s) = c
  BY Zenon DEF FirstVisit, P
<1> QED BY <1>4, <1>5 DEF LatencyAt, StampOf, Stamped

LEMMA TagsAre ==
  ASSUME NEW x
  PROVE  LET info == FlowInfo(Packet(x.r))
         IN  info.dscp = Flow[x.r.flow].dscp /\ TagsOf(x) = <<info.tuple, info.dscp>>
BY DEF TagsOf, FlowInfo, Packet

LEMMA FlowPointTells ==
  ASSUME DbTells, NEW x \in stored
  PROVE  \E y \in {z \in db["flow_stats"] : z.time = x.at} :
           /\ {z \in db["flow_stats"] : z.time = x.at} = {y} /\ y.tags = TagsOf(x)
           /\ y.fields.path = x.r.path /\ y.fields.size = PacketSize(Flow[x.r.flow].dscp)
<1> DEFINE info == FlowInfo(Packet(x.r))
<1>1. Reported(x.r) /\ "flow_stats" \in Measurements
  BY DEF DbTells, Measurements
<1>2. {z \in db["flow_stats"] : z.time = x.at} = Written({}, Batch(x)["flow_stats"])
  BY <1>1 DEF DbTells
<1>3. Batch(x)["flow_stats"] = FlowPoints(info, info.hops, x.at)
  BY DEF Batch, PointsOf
<1>4. HopsTell(x.r, info.hops)
  BY <1>1, HopsAre
<1>5. info.dscp = Flow[x.r.flow].dscp /\ TagsOf(x) = <<info.tuple, info.dscp>>
  BY TagsAre
<1> HIDE DEF info
<1>6. PICK y : /\ Written({}, FlowPoints(info, info.hops, x.at)) = {y}
               /\ y.tags = <<info.tuple, info.dscp>> /\ y.fields.path = x.r.path
               /\ y.fields.size = PacketSize(info.dscp)
  BY <1>1, <1>4, FlowPointIs
<1> QED BY <1>2, <1>3, <1>5, <1>6

LEMMA SwitchPointsTell ==
  ASSUME DbTells, NEW x \in stored
  PROVE  LET W == {z \in db["switch_stats"] : z.time = x.at} IN
         /\ {y.tags[1] : y \in W} = ToSet(x.r.path)
         /\ Cardinality(W) = Cardinality(ToSet(x.r.path))
         /\ \A y \in W : /\ <<y.tags[2], y.tags[3]>> = TagsOf(x)
                         /\ y.fields.latency = LatencyAt(x, y.tags[1])
<1> DEFINE info == FlowInfo(Packet(x.r))
           n == Len(x.r.path)
           W == {z \in db["switch_stats"] : z.time = x.at}
           switches == ToSet(x.r.path)
<1>1. Reported(x.r) /\ "switch_stats" \in Measurements
  BY DEF DbTells, Measurements
<1>2. W = Written({}, Batch(x)["switch_stats"])
  BY <1>1 DEF DbTells
<1>3. Batch(x)["switch_stats"] = SwitchPoints(info, info.hops, x.at)
  BY DEF Batch, PointsOf
<1>4. HopsTell(x.r, info.hops)
  BY <1>1, HopsAre
<1>5. TagsOf(x) = <<info.tuple, info.dscp>>
  BY TagsAre
<1> HIDE DEF info, W
<1>6. /\ \A y \in W : \E i \in 1 .. n :
           /\ Firstly(x.r.path, i) /\ y.tags = <<x.r.path[i], info.tuple, info.dscp>>
           /\ y.fields.latency = Stamped(x.r, i).latency
      /\ \A i \in 1 .. n : \E y \in W : y.tags[1] = x.r.path[i]
      /\ \A y, z \in W : y.tags[1] = z.tags[1] => y = z
  <2>1. OnePerSwitch(x.r, info, x.at, W)
    BY <1>1, <1>2, <1>3, <1>4, SwitchPointsAre
  <2> QED BY <2>1 DEF OnePerSwitch
<1>7. n \in Nat /\ switches = {x.r.path[i] : i \in 1 .. n}
  BY <1>1, PathIs DEF ToSet
<1> HIDE DEF switches
<1>8. ASSUME NEW y \in W
      PROVE  /\ y.tags[1] \in switches /\ <<y.tags[2], y.tags[3]>> = TagsOf(x)
             /\ y.fields.latency = LatencyAt(x, y.tags[1])
  <2>1. PICK i \in 1 .. n :
          /\ Firstly(x.r.path, i) /\ y.tags = <<x.r.path[i], info.tuple, info.dscp>>
          /\ y.fields.latency = Stamped(x.r, i).latency
    BY <1>6
  <2>2. y.fields.latency = LatencyAt(x, x.r.path[i])
    BY <1>1, <2>1, FirstVisitIs
  <2> QED BY <1>5, <1>7, <2>1, <2>2
<1>9. {y.tags[1] : y \in W} = switches
  BY <1>6, <1>7, <1>8
<1>10. Cardinality(W) = Cardinality(switches)
  <2> DEFINE f == [y \in W |-> y.tags[1]]
             g == [i \in 1 .. n |-> x.r.path[i]]
  <2>1. f \in Injection(W, switches)
    BY <1>6, <1>8 DEF Injection, IsInjective
  <2>2. f \in Surjection(W, switches)
    BY <1>9 DEF Surjection
  <2>3. f \in Bijection(W, switches)
    BY <2>1, <2>2 DEF Bijection
  <2>4. ExistsBijection(W, switches)
    BY <2>3 DEF ExistsBijection
  <2>5. IsFiniteSet(switches)
    <3>1. g \in Surjection(1 .. n, switches)
      BY <1>7 DEF Surjection
    <3>2. IsFiniteSet(1 .. n)
      BY <1>7, FS_Interval
    <3> QED BY <3>1, <3>2, FS_Surjection
  <2>6. IsFiniteSet(W)
    BY <2>1, <2>5, FS_Injection
  <2> QED BY <2>4, <2>6, FS_Bijection
<1> QED BY <1>8, <1>9, <1>10 DEF W, switches

LEMMA QueuePointsTell ==
  ASSUME DbTells, NEW x \in stored, NEW y \in db["queue_occupancy"], y.time = x.at
  PROVE  y.fields.queue = StampOf(x, FirstVisit(x, y.tags[1])).occupancy
<1> DEFINE info == FlowInfo(Packet(x.r))
<1>1. Reported(x.r) /\ "queue_occupancy" \in Measurements
  BY DEF DbTells, Measurements
<1>2. {z \in db["queue_occupancy"] : z.time = x.at} = Written({}, Batch(x)["queue_occupancy"])
  BY <1>1 DEF DbTells
<1>3. Batch(x)["queue_occupancy"] = QueuePoints(info.hops, x.at)
  BY DEF Batch, PointsOf
<1>4. HopsTell(x.r, info.hops)
  BY <1>1, HopsAre
<1> HIDE DEF info
<1>5. y \in Written({}, QueuePoints(info.hops, x.at))
  BY <1>2, <1>3
<1>6. PICK i \in 1 .. Len(x.r.path) :
        /\ Firstly(x.r.path, i) /\ y.tags[1] = x.r.path[i]
        /\ y.fields.queue = Stamped(x.r, i).occupancy
  BY <1>1, <1>4, <1>5, QueuePointsAre
<1> QED BY <1>1, <1>6, FirstVisitIs

LEMMA LinkPointsTell ==
  ASSUME DbTells, NEW x \in stored
  PROVE  LET W == {z \in db["link_latency"] : z.time = x.at} IN
         /\ \A y \in W : \E i \in 1 .. Len(x.r.path) - 1 : y.tags = Ends(x.r.path, i)
         /\ \A i \in 1 .. Len(x.r.path) - 1 : \E y \in W : y.tags = Ends(x.r.path, i)
<1> DEFINE info == FlowInfo(Packet(x.r))
<1>1. Reported(x.r) /\ "link_latency" \in Measurements
  BY DEF DbTells, Measurements
<1>2. {z \in db["link_latency"] : z.time = x.at} = Written({}, Batch(x)["link_latency"])
  BY <1>1 DEF DbTells
<1>3. Batch(x)["link_latency"] = LinkPoints(info.hops, x.at)
  BY DEF Batch, PointsOf
<1>4. HopsTell(x.r, info.hops)
  BY <1>1, HopsAre
<1> HIDE DEF info
<1> QED BY <1>1, <1>2, <1>3, <1>4, LinkPointsAre

(* Whatever path packets take, with whatever loops, and however reports of *)
(* the sinks interleave: the database holds for each report the path as it *)
(* was travelled and for every switch of it what that switch had stamped   *)
(* at the first visit.  Eleven words a hop are read as they were written,  *)
(* and no write touches the points of another report (receive/collector:   *)
(* parse_int_metadata, export_influxdb; p4src: the deparser).              *)
THEOREM DatabaseTellsReports == TSpec => []PointsTellReports
<1>1. DbTells => PointsTellReports
  BY FlowPointTells, SwitchPointsTell, QueuePointsTell DEF PointsTellReports
<1> QED BY <1>1, DbInvariant, PTL

(* The ports of a link point are the two ends of a link of the topology:   *)
(* the hops are paired as they were travelled, although the last comes     *)
(* first in the packet (receive/collector: the link_latency points).       *)
THEOREM LinkPointsTellTopology == TSpec => []LinkPointsAreLinks
<1>1. ASSUME DbTells, NEW y \in db["link_latency"]
      PROVE  /\ <<y.tags[1], y.tags[2]>> \in DOMAIN D!DeployedLink
             /\ D!DeployedLink[<<y.tags[1], y.tags[2]>>] = <<y.tags[3], y.tags[4]>>
  <2>1. "link_latency" \in Measurements
    BY DEF Measurements
  <2>2. PICK x \in stored : y.time = x.at
    BY <1>1, <2>1 DEF DbTells
  <2>3. PICK i \in 1 .. Len(x.r.path) - 1 : y.tags = Ends(x.r.path, i)
    BY <1>1, <2>2, LinkPointsTell
  <2> DEFINE n == Len(x.r.path)
  <2>4. n \in Nat /\ Reported(x.r)
    BY <1>1, PathIs DEF DbTells
  <2>5. /\ x.r.path[i] \in D!Switches /\ x.r.path[i+1] \in D!Switches
        /\ x.r.path[i] # x.r.path[i+1]
    <3>1. i \in 1 .. n /\ i + 1 \in 1 .. n
      BY <2>4
    <3> QED BY <2>4, <3>1, PathIs
  <2>6. PICK s \in D!Switches, t \in D!Switches :
          s # t /\ y.tags = <<s, D!PortTo[s][t], t, D!PortTo[t][s]>>
    BY <2>3, <2>5 DEF Ends
  <2>7. /\ y.tags[1] = s /\ y.tags[2] = D!PortTo[s][t]
        /\ y.tags[3] = t /\ y.tags[4] = D!PortTo[t][s]
    BY <2>6
  <2> QED BY <2>6, <2>7, LinkEnds
<1>2. ASSUME DbTells, NEW x \in stored
      PROVE  {<<y.tags[1], y.tags[3]>> : y \in {z \in db["link_latency"] : z.time = x.at}}
               = ToSet(V!EdgesOf(x.r.path))
  <2> DEFINE n == Len(x.r.path)
             W == {z \in db["link_latency"] : z.time = x.at}
  <2>1. \A i \in 1 .. n - 1 : /\ Ends(x.r.path, i)[1] = x.r.path[i]
                              /\ Ends(x.r.path, i)[3] = x.r.path[i+1]
    BY DEF Ends
  <2>2. ToSet(V!EdgesOf(x.r.path)) = {<<x.r.path[i], x.r.path[i+1]>> : i \in 1 .. n - 1}
    BY DEF ToSet, V!EdgesOf
  <2>3. /\ \A y \in W : \E i \in 1 .. n - 1 : y.tags = Ends(x.r.path, i)
        /\ \A i \in 1 .. n - 1 : \E y \in W : y.tags = Ends(x.r.path, i)
    BY <1>2, LinkPointsTell
  <2> HIDE DEF W
  <2>4. {<<y.tags[1], y.tags[3]>> : y \in W} = {<<x.r.path[i], x.r.path[i+1]>> : i \in 1 .. n - 1}
    <3>1. ASSUME NEW y \in W
          PROVE  \E i \in 1 .. n - 1 : <<y.tags[1], y.tags[3]>> = <<x.r.path[i], x.r.path[i+1]>>
      BY <2>1, <2>3
    <3>2. ASSUME NEW i \in 1 .. n - 1
          PROVE  \E y \in W : <<y.tags[1], y.tags[3]>> = <<x.r.path[i], x.r.path[i+1]>>
      <4>1. PICK y \in W : y.tags = Ends(x.r.path, i)
        BY <2>3
      <4> QED BY <2>1, <4>1
    <3> HIDE DEF n
    <3> QED BY <3>1, <3>2
  <2> QED BY <2>2, <2>4 DEF W
<1>3. DbTells => LinkPointsAreLinks
  BY <1>1, <1>2 DEF LinkPointsAreLinks
<1> QED BY <1>3, DbInvariant, PTL
=============================================================================
