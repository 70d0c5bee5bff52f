---------------------------- MODULE Measurement ----------------------------
(***************************************************************************)
(* Load tests and the processing of what they leave: the CSV file that the *)
(* tools of the last test wrote together, and that of an earlier test of   *)
(* the other algorithm.                                                    *)
(***************************************************************************)
EXTENDS LoadTest

CONSTANTS DscpIps, ScenarioDscps, NumSwitches,
          Baseline                  \* the file of the other algorithm

VARIABLES stage, results, book, spread, comparison, plots, unanswered

Files == <<file.rows, Baseline>>
R == INSTANCE Results WITH csv <- Files

processing == <<stage, results, book, spread, comparison, plots, unanswered>>
mvars == <<vars, processing>>

(* The address that the packets a row counts arrive with.                  *)
Arrived(w) ==
  IF w.is = "sender" /\ w.dscp \in DOMAIN DscpIps THEN DscpIps[w.dscp] ELSE w.dst

(* The files are those of tests: below the header a row per line, and the  *)
(* packets of a flow in an iteration arrive with one address.              *)
(* multicast_DSCP.json has the groups that the multicasters rewrite to.    *)
RowsOfTests(rows) ==
  /\ rows # << >> /\ rows \in Seq(Elements(rows))
  /\ \A i \in 2 .. Len(rows) :
       /\ rows[i].is \in {"sender", "receiver"}
       /\ {rows[i].num, rows[i].time, rows[i].ooo, rows[i].jit} \subseteq Int
  /\ \A i, j \in 2 .. Len(rows) :
       rows[i].it = rows[j].it /\ rows[i].flow = rows[j].flow =>
         Arrived(rows[i]) = Arrived(rows[j])
ASSUME FilesOfTests == \A rows \in {Baseline} \cup {f.rows : f \in Earlier} : RowsOfTests(rows)
ASSUME GroupsKnown ==
  \A f \in Flow : SeenAt[f] = IF Dscp[f] \in DOMAIN DscpIps THEN DscpIps[Dscp[f]] ELSE SentTo[f]
ASSUME SheetsTyped == ScenarioDscps \in Seq(Int) /\ NumSwitches \in Nat

MInit == Init /\ R!InitResults

(* Processing is asked for when the test is over and comes last: no test   *)
(* follows it (a bound).                                                   *)
Testing == stage = "idle" /\ Next /\ UNCHANGED processing
Processing ==
  /\ test.pc = "menu" /\ file.exists
  /\ R!Process /\ UNCHANGED vars

MNext == Testing \/ Processing
MSpec == MInit /\ [][MNext]_mvars /\ WF_mvars(Testing)

(* The properties of Results, of the files of the tests: merging does not  *)
(* depend on the order of the rows ...                                     *)
MergedInAnyOrder == R!MergedInAnyOrder
(* ... loss and delay are those of the flow they stand beside ...          *)
LossOfItsFlow == R!LossOfItsFlow
(* ... late and lost packets and jitter are the averages of the files ...  *)
AveragesTellFiles == R!AveragesTellFiles
(* ... the comparison takes its numbers from the block of its scenario ... *)
ComparisonInItsBlock == R!ComparisonInItsBlock
(* ... the plots show the same numbers ...                                 *)
PlotsShowWhatIsAveraged == R!PlotsShowWhatIsAveraged
(* ... and processing gives up only on a flow without data, or an answer.  *)
FailsOnlyWithoutData == R!FailsOnlyWithoutData
=============================================================================
