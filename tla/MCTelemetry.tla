---------------------------- MODULE MCTelemetry ----------------------------
(***************************************************************************)
(* Two flows of the deployed network: u (DSCP 15) is sent back over s1 and *)
(* has no entry in "packet sizes.json"; m (DSCP 51) is multicast at s3 and *)
(* reported by the sinks s1 and s4 (the copy to s5 is left out).  Their    *)
(* paths are those that SfcNetwork gives them; they share two edges.       *)
(* Flows a (DSCP 2) and b (DSCP 10) are over: nine packets of the one     *)
(* were reported and one of the other, larger than all others, which the   *)
(* percentile of the sizes drops as soon as one more report is stored.     *)
(***************************************************************************)
EXTENDS Telemetry

MCFlowOf(src, dst, port, dscp, paths) ==
  [src |-> src, dst |-> dst, sport |-> port, dport |-> 443, dscp |-> dscp, paths |-> paths]
MCFlow ==
  [u |-> MCFlowOf("h1", "h3", 5000, 15, {<<1, 2, 3, 1, 5>>}),
   m |-> MCFlowOf("h2", "h1", 5001, 51, {<<4, 2, 3, 1>>, <<4, 2, 3, 4>>}),
   a |-> MCFlowOf("h3", "h2", 5002, 2, {}),
   b |-> MCFlowOf("h2", "h3", 5003, 10, {})]
MCReport(f, path, n) == [r |-> [flow |-> f, path |-> path, n |-> n], at |-> <<-100 + n, n>>]
MCBefore == {MCReport("a", <<5, 2, 4>>, n) : n \in 1 .. 9} \cup {MCReport("b", <<4, 2, 3, 5>>, 10)}
MCSizes == [d \in {0, 2, 10, 51} |->
              CASE d = 0 -> 262 [] d = 2 -> 420 [] d = 10 -> 1250 [] d = 51 -> 100]
MCInstructions == 0 .. 7
MCClockStart == <<5000, 70000, 100, 0, 900>>
MCColors == <<"red">>
=============================================================================
