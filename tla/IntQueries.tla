----------------------------- MODULE IntQueries -----------------------------
(***************************************************************************)
(* The queries of result processing to the telemetry database              *)
(* (INT/process_results/configure.py), over the points `flows' and         *)
(* `hops' of the time of a test, and what is worked out from the answers.  *)
(***************************************************************************)
EXTENDS Integers, Sequences, FiniteSets, SequencesExt, Functions, Fractions

CONSTANT NumSwitches

All == -1

(* InfluxDB's PERCENTILE(v, 95): the value of the nearest rank.  It looks  *)
(* at the flows of all DSCPs where the query does not name one.            *)
Rank(n) == (190 * n + 100) \div 200
Percentile(points, field) ==
  LET rank == Rank(Cardinality(points))
  IN  CHOOSE v \in {x.fields[field] : x \in points} :
        /\ Cardinality({x \in points : x.fields[field] < v}) < rank
        /\ Cardinality({x \in points : x.fields[field] <= v}) >= rank

FlowDscp == 2       \* the tag that holds the DSCP
HopDscp  == 3
OfDscp(points, tag, d) == {x \in points : d \in {All, x.tags[tag]}}
AtMost(points, field, p) == {x \in points : x.fields[field] <= p}
MeanOf(points, field) ==
  Frac(SumFunction([x \in points |-> x.fields[field]]), Cardinality(points))

get_avg_flow_hop_latency(flows, hops, d) ==
  LET f == OfDscp(flows, FlowDscp, d)
      h == OfDscp(hops, HopDscp, d)
  IN  <<MeanOf(AtMost(f, "latency", Percentile(f, "latency")), "latency"),
        MeanOf(AtMost(h, "latency", Percentile(h, "latency")), "latency")>>

get_byte_sumTransit(flows, d) ==     \* seeded fault: the last switch does not match
  LET kept == AtMost(OfDscp(flows, FlowDscp, d), "size", Percentile(flows, "size"))
      through(s) == {x \in kept : s \in ToSet(Front(x.fields.path))}
  IN  [s \in 1 .. NumSwitches |->
         SumFunction([x \in through(s) |-> x.fields.size])]
get_byte_sum(flows, d) ==
  LET kept == AtMost(OfDscp(flows, FlowDscp, d), "size", Percentile(flows, "size"))
      through(s) == {x \in kept : s \in ToSet(x.fields.path)}
  IN  [s \in 1 .. NumSwitches |->
         SumFunction([x \in through(s) |-> x.fields.size])]

(* calculate_percentages divides these two: packets of a switch counted in *)
(* one measurement and all packets in the other, each without its own      *)
(* slowest ones.                                                           *)
PacketsAt(hops, d) ==
  LET kept == AtMost(OfDscp(hops, HopDscp, d), "latency", Percentile(hops, "latency"))
  IN  [s \in 1 .. NumSwitches |-> Cardinality({x \in kept : x.tags[1] = s})]
PacketsInAll(flows, d) ==
  Cardinality(AtMost(OfDscp(flows, FlowDscp, d), "latency", Percentile(flows, "latency")))
(* There is something to average, its deviation is no null and there are   *)
(* packets to divide by: else the program ends.                            *)
Answered(points) == Cardinality(AtMost(points, "latency", Percentile(points, "latency"))) > 1
CanProcess(flows, hops, d) ==
  /\ OfDscp(flows, FlowDscp, d) # {} /\ Answered(OfDscp(flows, FlowDscp, d))
  /\ OfDscp(hops, HopDscp, d) # {}   /\ Answered(OfDscp(hops, HopDscp, d))
  /\ PacketsInAll(flows, d) > 0 /\ \E s \in 1 .. NumSwitches : PacketsAt(hops, d)[s] > 0
=============================================================================
