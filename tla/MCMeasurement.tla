--------------------------- MODULE MCMeasurement ---------------------------
(***************************************************************************)
(* An emergency flow m (DSCP 51) from h2 to h1 in every iteration of the   *)
(* test, with a receiver on each.  Earlier tests, with a flow u of DSCP 0  *)
(* and more receivers, left files of two iterations, the first with its    *)
(* rows in every order (but for the first row) or with one of them missing.*)
(***************************************************************************)
EXTENDS Measurement
D == INSTANCE Deployment

MCMembers == [m |-> {"h1"}]
MCSentTo  == [m |-> "h1"]
MCSeenAt  == [m |-> D!DscpToGroup(3)[51].ip]    \* what s3 rewrites it to
MCDscp    == [m |-> 51]
MCCount   == [m |-> 2]

(* multicast_DSCP.json, with the names that Deployment gives the groups. *)
MCDscpIps == [d \in {40, 51, 52} |-> IF d = 51 THEN "g1" ELSE "g2"]
MCScenarioDscps == <<-1, 0, 51>>

Sender1(i, f, n, t) ==
  [is |-> "sender", it |-> i, host |-> f, flow |-> f,
   dst |-> IF f = "u" THEN "h3" ELSE "h1", dscp |-> IF f = "u" THEN 0 ELSE 51,
   num |-> n, time |-> t, ooo |-> 0, jit |-> 0]
Receiver1(i, h, f, n, t, o, j) ==
  [is |-> "receiver", it |-> i, host |-> h, flow |-> f,
   dst |-> IF f = "u" THEN "h3" ELSE "g1", dscp |-> IF f = "u" THEN 0 ELSE 51,
   num |-> n, time |-> t, ooo |-> o, jit |-> j]

FirstRow == Sender1(1, "u", 4, 0)
First == {Receiver1(1, "h3", "u", 2, 3, 1, 5), Sender1(1, "m", 6, 1),
          Receiver1(1, "h1", "m", 5, 2, 0, 4), Receiver1(1, "h2", "m", 3, 4, 1, 8),
          Receiver1(1, "h3", "m", 1, 6, 2, 3)}
Second == <<Sender1(2, "m", 6, 9), Sender1(2, "u", 4, 9), Receiver1(2, "h2", "m", 6, 12, 0, 2),
            Receiver1(2, "h3", "u", 3, 10, 0, 1), Receiver1(2, "h1", "m", 4, 11, 1, 7)>>
MCFile(rows) == [exists |-> TRUE, rows |-> <<HEADER>> \o rows \o Second]
MCEarlier ==
  {MCFile(<<FirstRow>> \o s) : s \in SetToSeqs(First)} \cup
  {MCFile(SelectSeq(<<FirstRow>> \o SetToSeq(First), LAMBDA w : w # x))
     : x \in First \cup {FirstRow}}
MCBaseline == <<HEADER>> \o Second \o <<FirstRow>> \o SetToSeq(First)
=============================================================================
