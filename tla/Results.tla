------------------------------- MODULE Results -------------------------------
(***************************************************************************)
(* Result processing (INT/process_results): the CSV files of the tests,    *)
(* one per algorithm, become one workbook: a sheet per file with the rows  *)
(* of each flow in pairs, loss and delay beside them, a block of averages  *)
(* per DSCP below; a sheet that compares the algorithms and one of plots.  *)
(*                                                                         *)
(* Layout is left out.  Cells filled from the telemetry database hold      *)
(* FromDb (module IntQueries has the queries), formulas hold Formula.      *)
(***************************************************************************)
EXTENDS Integers, Sequences, FiniteSets, SequencesExt, Fractions

CONSTANTS
  DscpIps,        \* multicast_DSCP.json: group address of a DSCP
  ScenarioDscps,  \* DSCP_per_scenario: a sequence that begins with All
  NumSwitches

VARIABLES
  csv,        \* the files: sequences of rows, the header first
  stage,      \* the next step of main, or "idle", "failed", "done"
  results,    \* the file being read: [it, flows], in order of appearance
  book,       \* the sheets of the workbook, one per file: [lines, last]
  spread,     \* per file and DSCP: the spread of the jitters
  comparison, \* cell each line of the comparison sheet refers to
  plots,      \* data of each plot
  unanswered  \* whether the database left a query without a value

All == -1
None     == <<0, 0>>      \* no number: an empty cell
FromDb   == <<1, 1>>
Formula  == <<1, 1>>

-----------------------------------------------------------------------------
(* np.percentile(v, 95), interpolated, and the values it keeps. *)
Percentile(v) ==
  LET s == SortSeq(v, Less)
      p == 95 * (Len(s) - 1)
      i == p \div 100 + 1
  IN  IF i = Len(s) THEN s[i]
      ELSE Plus(s[i], Times(Frac(p % 100, 100), Minus(s[i + 1], s[i])))
AtMost(v, p) == SelectSeq(v, LAMBDA x : ~Less(p, x))
KeptIfMany(v) ==        \* seeded fault: only if more than two are left
  LET k == AtMost(v, Percentile(v)) IN IF Len(k) > 2 THEN k ELSE v
Kept(v) == AtMost(v, Percentile(v))

-----------------------------------------------------------------------------
(* read_raw_results: rows of a flow in an iteration come together, however *)
(* they are ordered.  A packet of an emergency flow reaches the receivers  *)
(* with a group address; the row of its sender is given the same one.      *)

KeyAsSent(w) == <<w.flow, w.dst>>    \* seeded fault: the address as it was sent
Key(w) ==
  <<w.flow, IF w.is = "sender" /\ w.dscp \in DOMAIN DscpIps THEN DscpIps[w.dscp] ELSE w.dst>>

Fields(w) ==
  IF w.is = "sender"
  THEN [H |-> Whole(w.num), I |-> Whole(w.time)]
  ELSE [H |-> Whole(w.num), I |-> Whole(w.time), J |-> Whole(w.ooo), L |-> Whole(w.jit)]

(* The mean of a field over the receivers, one receiver at a time. *)
AveragedTwice(old, hosts, x) == Over(Plus(old, x), Whole(2)) \* seeded fault: as for two
Averaged(old, hosts, x) == Over(Plus(Times(old, Whole(hosts)), x), Whole(hosts + 1))

Merged(entry, w) ==
  IF w.is = "sender" \/ entry.receiver = << >>
  THEN [entry EXCEPT ![w.is] = <<[hosts |-> 1, c |-> Fields(w)]>>]
  ELSE [entry EXCEPT !.receiver = LET r == @[1] IN
          <<[hosts |-> r.hosts + 1,
             c |-> [f \in DOMAIN r.c |-> Averaged(r.c[f], r.hosts, Fields(w)[f])]]>>]

WithRow(flows, w) ==
  LET i == SelectInSeq(flows, LAMBDA f : f.key = Key(w))
      new == [key |-> Key(w), dscp |-> w.dscp, sender |-> << >>, receiver |-> << >>]
  IN  IF i = 0 THEN Append(flows, Merged(new, w)) ELSE [flows EXCEPT ![i] = Merged(@, w)]

ReadRow(res, w) ==
  LET i == SelectInSeq(res, LAMBDA x : x.it = w.it)
  IN  IF i = 0 THEN Append(res, [it |-> w.it, flows |-> WithRow(<< >>, w)])
               ELSE [res EXCEPT ![i].flows = WithRow(@, w)]

File == Len(book) + 1       \* the one being read
FlowsOf(res) == FlattenSeq([i \in DOMAIN res |-> res[i].flows])

(* main, when the files are there: the workbook of the time before goes.   *)
Start ==
  /\ stage = "idle"
  /\ stage' = "read" /\ book' = << >>
  /\ UNCHANGED <<results, spread, comparison, plots, unanswered>>

ReadCsvFiles ==
  /\ stage = "read"
  /\ results' = FoldLeft(ReadRow, << >>, Tail(csv[File]))
  /\ stage' = "jitter"
  /\ UNCHANGED <<book, spread, comparison, plots, unanswered>>

-----------------------------------------------------------------------------
(* calulate_std_jitter_per_dscp: the variance stands for its root.  It     *)
(* takes what the percentile keeps only if that is more than two values,   *)
(* and fails on a flow that no receiver has heard.                         *)

Variance(v) ==
  LET k == Kept(v)
  IN  Spread(IF Len(k) > 2 THEN k ELSE v)

Unheard(res) == \E i \in DOMAIN FlowsOf(res) : FlowsOf(res)[i].receiver = << >>

StdJitter ==
  LET flows == FlowsOf(results)
      Jitters(d) == LET s == SelectSeq(flows, LAMBDA f : d \in {All, f.dscp})
                    IN  [i \in DOMAIN s |-> s[i].receiver[1].c.L]
  IN  /\ stage = "jitter" /\ ~Unheard(results)
      /\ spread' = Append(spread, [d \in {All} \cup {flows[i].dscp : i \in DOMAIN flows}
                                     |-> Variance(Jitters(d))])
      /\ stage' = "export"
      /\ UNCHANGED <<results, book, comparison, plots, unanswered>>

(* A line of a sheet: column A, the flow it is about, column E, the other  *)
(* columns.                                                                *)
Line(a, e, c) == [a |-> a, flow |-> << >>, is |-> "", e |-> e, c |-> c]
Blank == Line("", << >>, << >>)
Cell(l, col) == IF col \in DOMAIN l.c THEN l.c[col] ELSE None

(* export_raw_results: the sender's line first; an empty one if missing.   *)
FlowLines(f) ==
  LET Of(is) == IF f[is] = << >> THEN Blank
                ELSE [a |-> "address", flow |-> f.key, is |-> is, e |-> <<f.dscp>>,
                      c |-> f[is][1].c]
  IN  <<Of("sender"), Of("receiver")>>

RawLines(res) ==
  <<Line("Flow src", << >>, << >>)>> \o
  FlattenSeq([i \in DOMAIN res |->
    <<Blank, Line("Iteration", << >>, << >>)>> \o
    FlattenSeq([j \in DOMAIN res[i].flows |-> FlowLines(res[i].flows[j])])])

ExportRawResults ==
  /\ stage = "export"
  /\ book' = Append(book, [lines |-> RawLines(results), last |-> Len(RawLines(results))])
  /\ stage' = IF Len(book') < Len(csv) THEN "read" ELSE "loss"
  /\ UNCHANGED <<results, spread, comparison, plots, unanswered>>

-----------------------------------------------------------------------------
(* set_pkt_loss, set_fist_pkt_delay: a flag `skip' tells the lines of a    *)
(* pair apart; whatever is not a flow sets it again.                       *)

SecondsShifted(sh) ==          \* seeded fault: the flag is not set by other lines
  {i \in 2 .. sh.last : /\ sh.lines[i].a = "address"
                        /\ Cardinality({j \in 1 .. i : sh.lines[j].a = "address"}) % 2 = 1
                        /\ sh.lines[i - 1].a = "address"}
Seconds(sh) ==
  LET skip[i \in 1 .. sh.last] == sh.lines[i].a = "address" => (i > 1 /\ ~skip[i - 1])
  IN  {i \in 2 .. sh.last : sh.lines[i].a = "address" /\ ~skip[i - 1]}

Filled(l, cells) ==
  [l EXCEPT !.c = [x \in DOMAIN l.c \cup DOMAIN cells |->
                     IF x \in DOMAIN l.c THEN l.c[x] ELSE cells[x]]]
With(sh, cols) ==
  [sh EXCEPT !.lines = [i \in DOMAIN sh.lines |->
     IF i \in DOMAIN cols THEN Filled(sh.lines[i], cols[i]) ELSE sh.lines[i]]]

PktLoss(sh) ==
  LET H(i) == sh.lines[i].c.H
  IN  With(sh, [i \in Seconds(sh) |-> LET lost == Minus(H(i - 1), H(i)) IN
                  [M |-> lost, N |-> Times(Over(lost, H(i)), Whole(100))]])
FirstPktDelay(sh) ==
  With(sh, [i \in Seconds(sh) |-> [O |-> Minus(sh.lines[i].c.I, sh.lines[i - 1].c.I)]])

SetPktLoss ==
  /\ stage = "loss" /\ stage' = "delay"
  /\ book' = [k \in DOMAIN book |-> PktLoss(book[k])]
  /\ UNCHANGED <<results, spread, comparison, plots, unanswered>>

SetFirstPktDelay ==
  /\ stage = "delay" /\ stage' = "calculate"
  /\ book' = [k \in DOMAIN book |-> FirstPktDelay(book[k])]
  /\ UNCHANGED <<results, spread, comparison, plots, unanswered>>

-----------------------------------------------------------------------------
(* The calculations, per DSCP *)

headers_lines ==
  <<"AVG Out of Order Packets", "AVG Packet Loss", "AVG Packet Loss (%)",
    "AVG 1st Packet Delay", "AVG Flow Jitter", "STD Flow Jitter",
    "AVG Flows Latency", "STD Flows Latency", "AVG Hop Latency", "STD Hop Latency",
    "AVG of packets to each switch", "Standard Deviation of packets to each switch",
    "AVG of processed Bytes", "Standard Deviation of processed Bytes",
    "Variation of the AVG 1st Packet Delay", "Variation of the AVG Flow Delay">>

Column(sh, col, d) ==
  LET s == SelectSeq(SubSeq(sh.lines, 2, sh.last),
             LAMBDA l : /\ l.e # << >> /\ l.e[1] \in ToSet(ScenarioDscps)
                        /\ Cell(l, col) # None /\ d \in {All, l.e[1]})
  IN  [i \in DOMAIN s |-> Cell(s[i], col)]

(* What the first five lines of a block average.  The time stamps stand in *)
(* for the delays (I, where O was meant).                                  *)
Averages == <<"J", "M", "N", "I", "L">>
NoValues(sh) ==
  \E n \in DOMAIN Averages : \E d \in ToSet(ScenarioDscps) :
    Column(sh, Averages[n], d) = << >>

CalculationLines(k, d) ==
  <<Blank, Blank, Blank, Line("Calculations", << >>, << >>)>> \o
  [n \in 1 .. 5 |->
     Line(headers_lines[n], <<d>>, [B |-> Mean(Kept(Column(book[k], Averages[n], d)))])] \o
  <<Line(headers_lines[6], <<d>>, [B |-> spread[k][d]])>>
IntResultLines(d) == [n \in 7 .. 10 |-> Line(headers_lines[n], <<d>>, [B |-> FromDb])]
SwitchLines(d) ==
  LET cells == [B |-> FromDb, C |-> FromDb]
  IN  <<Blank, Line("Switch ID", << >>, << >>)>> \o
      [n \in 1 .. NumSwitches |-> Line("switch", <<d>>, cells)] \o
      <<Line("Mean", <<d>>, cells), Line("Standard Deviation", <<d>>, cells)>>

Block(k, d) ==
  CalculationLines(k, d) \o [n \in 1 .. 4 |-> IntResultLines(d)[n + 6]] \o SwitchLines(d)

(* Every file and DSCP takes a round of queries: this is how the step ends *)
(* if the database has a value for each of them (IntQueries!CanProcess).   *)
SetCalculations ==
  /\ stage = "calculate" /\ \A k \in DOMAIN book : ~NoValues(book[k])
  /\ book' = [k \in DOMAIN book |-> [book[k] EXCEPT !.lines =
       @ \o FlattenSeq([n \in DOMAIN ScenarioDscps |-> Block(k, ScenarioDscps[n])])]]
  /\ stage' = "variation"
  /\ UNCHANGED <<results, spread, comparison, plots, unanswered>>

(* A flow no receiver heard ends the program, and so does a DSCP without   *)
(* values, and a query that the database does not answer, or answers with  *)
(* no point or no number: of the rows' flows, of the calculations or of    *)
(* the plots.  Each stage saves at its end: the workbook stays as it was.  *)
Fail ==
  /\ \/ stage = "jitter" /\ Unheard(results) /\ UNCHANGED unanswered
     \/ /\ stage = "calculate" /\ \E k \in DOMAIN book : NoValues(book[k])
        /\ UNCHANGED unanswered
     \/ stage \in {"read", "calculate", "graphs"} /\ unanswered' = TRUE
  /\ stage' = "failed"
  /\ UNCHANGED <<results, book, spread, comparison, plots>>

SetVariation ==
  /\ stage = "variation" /\ stage' = "compare"
  /\ book' = [k \in DOMAIN book |-> [book[k] EXCEPT !.lines = @ \o
       <<Blank, Blank, Blank, Blank, Blank, Line("Flows Types", << >>, << >>),
         Line(headers_lines[4], <<All>>, [x \in {"B", "C", "D"} |-> Formula]),
         Line("AVG Flow Delay", <<All>>, [x \in {"B", "C", "D"} |-> Formula])>>]]
  /\ UNCHANGED <<results, spread, comparison, plots, unanswered>>

-----------------------------------------------------------------------------
(* The comparison sheet: each of its lines refers to a cell that is looked *)
(* for by name in column A and DSCP in column E.                           *)

Lowest(s) == IF s = {} THEN 0 ELSE Min(s)
CopyFromFirst(sh, n, d) ==     \* seeded fault: the first line of that name
  LET At(name) == {i \in sh.last + 1 .. Len(sh.lines) :
                     sh.lines[i].a = name /\ sh.lines[i].e = <<d>>}
  IN  CASE n <= 9        -> <<Lowest(At(headers_lines[n + 1])), "B">>
        [] n \in {10, 12} -> <<Lowest(At("Mean")), IF n = 10 THEN "B" ELSE "C">>
        [] n \in {11, 13} -> <<Lowest(At("Standard Deviation")), IF n = 11 THEN "B" ELSE "C">>
        [] n = 14        -> <<Lowest(At(headers_lines[4])), "D">>
        [] n = 15        -> <<Lowest(At("AVG Flow Delay")), "D">>
(* get_line_column_to_copy_from; variable 14 is in the second line of its  *)
(* name.                                                                   *)
CopyFrom(sh, n, d) ==
  LET At(name) == {i \in sh.last + 1 .. Len(sh.lines) :
                     sh.lines[i].a = name /\ sh.lines[i].e = <<d>>}
      delays == At(headers_lines[4])
  IN  CASE n <= 9        -> <<Lowest(At(headers_lines[n + 1])), "B">>
        [] n \in {10, 12} -> <<Lowest(At("Mean")), IF n = 10 THEN "B" ELSE "C">>
        [] n \in {11, 13} -> <<Lowest(At("Standard Deviation")), IF n = 11 THEN "B" ELSE "C">>
        [] n = 14        -> <<Lowest(delays \ {Lowest(delays)}), "D">>
        [] n = 15        -> <<Lowest(At("AVG Flow Delay")), "D">>

(* comparasion_area: a line per variable for a DSCP, a column per file. *)
Area(d) == {d} \X (0 .. 13) \X DOMAIN book
(* set_Non_to_Emergency_Data_Flows_Comparasion, if the scenario has both. *)
NonToEmergency ==
  IF \E d \in ToSet(ScenarioDscps) : d >= 40 THEN {All} \X {14, 15} \X DOMAIN book ELSE {}
SetComparisonSheet ==
  /\ stage = "compare" /\ stage' = "graphs"
  /\ comparison' = [x \in UNION {Area(d) : d \in ToSet(ScenarioDscps)} \cup NonToEmergency
                      |-> CopyFrom(book[x[3]], x[2], x[1])]
  /\ UNCHANGED <<results, book, spread, plots, unanswered>>

(* from_excel_data: the whole of a column of the sheet. *)
PlotColumns == {"J", "L", "M", "N", "O"}
PlotEverything(sh, col) ==     \* seeded fault: no percentile
  LET s == SelectSeq(Tail(sh.lines), LAMBDA l : Cell(l, col) # None)
  IN  [i \in DOMAIN s |-> Cell(s[i], col)]
PlotData(sh, col) ==
  LET s == SelectSeq(Tail(sh.lines), LAMBDA l : Cell(l, col) # None)
  IN  Kept([i \in DOMAIN s |-> Cell(s[i], col)])
CreateGraphs ==
  /\ stage = "graphs" /\ stage' = "done"
  /\ plots' = [k \in DOMAIN book |-> [col \in PlotColumns |-> PlotData(book[k], col)]]
  /\ UNCHANGED <<results, book, spread, comparison, unanswered>>

InitResults ==
  /\ stage = "idle" /\ results = << >> /\ book = << >> /\ spread = << >>
  /\ comparison = << >> /\ plots = << >> /\ unanswered = FALSE

Process ==
  \/ Start \/ ReadCsvFiles \/ StdJitter \/ ExportRawResults
  \/ SetPktLoss \/ SetFirstPktDelay \/ SetCalculations \/ Fail
  \/ SetVariation \/ SetComparisonSheet \/ CreateGraphs

-----------------------------------------------------------------------------
(* Properties, against the rows themselves.                                *)

RowsFor(k, x, is) == SelectSeq(Tail(csv[k]), LAMBDA w : <<w.it, w.flow, w.is>> = x \o <<is>>)
MeanOf(rows, F(_)) == Mean([i \in DOMAIN rows |-> Whole(F(rows[i]))])
FlowsIn(k)   == {<<csv[k][i].it, csv[k][i].flow>> : i \in 2 .. Len(csv[k])}
DscpOf(k, x) == LET w == CHOOSE y \in ToSet(Tail(csv[k])) : <<y.it, y.flow>> = x IN w.dscp
Has(k, is)   ==
  \A x \in FlowsIn(k) : \E i \in 2 .. Len(csv[k]) :
    <<csv[k][i].it, csv[k][i].flow, csv[k][i].is>> = x \o <<is>>

(* Whatever the order in which the processes of a test wrote their rows,   *)
(* the flows read are those of the file, each once in its iteration; a     *)
(* flow has the count of its sender and the mean of its receivers.         *)
MergedInAnyOrder ==
  stage = "jitter" =>
    /\ \A i, j \in DOMAIN results : results[i].it = results[j].it => i = j
    /\ UNION {{<<results[i].it, f.key[1]>> : f \in ToSet(results[i].flows)}
                 : i \in DOMAIN results} = FlowsIn(File)
    /\ \A i \in DOMAIN results : \A j \in DOMAIN results[i].flows :
         LET f == results[i].flows[j]
             s == RowsFor(File, <<results[i].it, f.key[1]>>, "sender")
             r == RowsFor(File, <<results[i].it, f.key[1]>>, "receiver")
         IN  /\ \A l \in DOMAIN results[i].flows :
                  results[i].flows[l].key[1] = f.key[1] => l = j
             /\ f.sender = << >> <=> s = << >>
             /\ s # << >> => f.sender[1].c.H = Whole(Last(s).num)
             /\ f.receiver = << >> <=> r = << >>
             /\ r # << >> => LET c == f.receiver[1].c IN
                  /\ c.H = MeanOf(r, LAMBDA w : w.num)  /\ c.I = MeanOf(r, LAMBDA w : w.time)
                  /\ c.J = MeanOf(r, LAMBDA w : w.ooo)  /\ c.L = MeanOf(r, LAMBDA w : w.jit)

(* In a file in which no flow lacks its sender, loss and delay are worked  *)
(* out between the two lines of one flow, the sender's and the receivers', *)
(* in every iteration and for all of them.  Column N is left out: it is    *)
(* the loss over what arrived, where its title says a share of what was    *)
(* sent (README).                                                          *)
LossOfItsFlow ==
  stage \in {"calculate", "variation", "compare", "graphs", "done"} =>
    \A k \in DOMAIN book : Has(k, "sender") =>
      LET l == book[k].lines IN
      \A i \in 2 .. book[k].last :
        /\ Cell(l[i], "M") # None <=> l[i].is = "receiver"
        /\ l[i].is = "receiver" =>
             /\ l[i - 1].flow = l[i].flow /\ l[i - 1].is = "sender"
             /\ l[i].c.M = Minus(l[i - 1].c.H, l[i].c.H)
             /\ l[i].c.O = Minus(l[i].c.I, l[i - 1].c.I)

(* The average without the worst value, if one is worse than all others:   *)
(* for up to 20 values that is what the 95th percentile drops.             *)
WithoutWorst(v) ==
  LET worst == {i \in DOMAIN v : \A j \in DOMAIN v : i # j => Less(v[j], v[i])}
  IN  IF Len(v) = 1 \/ worst = {} THEN Mean(v) ELSE Mean(RemoveAt(v, CHOOSE i \in worst : TRUE))

Shown(d, n, k) == LET c == comparison[<<d, n, k>>] IN Cell(book[k].lines[c[1]], c[2])

(* End to end: the averages of late packets, of lost packets and of jitter *)
(* that the comparison sheet shows for a DSCP are those of the flows of    *)
(* that DSCP in the file of that algorithm.  Of two others that cannot be  *)
(* said: the loss in percent is taken over what arrived, and the 1st       *)
(* packet delay averages time stamps, column I, where its title says       *)
(* delays, column O (README).                                              *)
AveragesTellFiles ==
  stage = "done" =>
    \A k \in DOMAIN csv : Has(k, "sender") => \A d \in ToSet(ScenarioDscps) :
      LET flows == SetToSeq({x \in FlowsIn(k) : d \in {All, DscpOf(k, x)}})
          R(i) == RowsFor(k, flows[i], "receiver")
          S(i) == RowsFor(k, flows[i], "sender")
          Of(V(_)) == WithoutWorst([i \in DOMAIN flows |-> V(i)])
          Lost(i) == Minus(Whole(S(i)[1].num), MeanOf(R(i), LAMBDA w : w.num))
      IN  /\ Shown(d, 0, k) = Of(LAMBDA i : MeanOf(R(i), LAMBDA w : w.ooo))
          /\ Shown(d, 1, k) = Of(Lost)
          /\ Shown(d, 4, k) = Of(LAMBDA i : MeanOf(R(i), LAMBDA w : w.jit))

(* A line of the comparison sheet refers to a filled cell of the block it  *)
(* is about, although names of lines and DSCPs occur more than once.       *)
ComparisonInItsBlock ==
  stage = "done" =>
    \A x \in DOMAIN comparison :
      LET l == book[x[3]].lines
          c == comparison[x]
          titles == {i \in 1 .. c[1] : l[i].a \in {"Calculations", "Switch ID", "Flows Types"}}
          nth(name) == Cardinality({i \in titles : l[i].a = name})
          title == l[CHOOSE i \in titles : \A j \in titles : j <= i].a
      IN  /\ c[1] > book[x[3]].last /\ Cell(l[c[1]], c[2]) # None
          /\ title = (CASE x[2] <= 9 -> "Calculations" [] x[2] <= 13 -> "Switch ID"
                        [] OTHER -> "Flows Types")
          /\ x[2] <= 13 => ScenarioDscps[nth(title)] = x[1]

(* The curves of a plot and the averages of all flows are about the same   *)
(* values, although one code path reads whole columns and the other lines. *)
PlotsShowWhatIsAveraged ==
  stage = "done" =>
    \A k \in DOMAIN plots :
      /\ Mean(plots[k]["J"]) = Shown(All, 0, k) /\ Mean(plots[k]["M"]) = Shown(All, 1, k)
      /\ Mean(plots[k]["N"]) = Shown(All, 2, k) /\ Mean(plots[k]["L"]) = Shown(All, 4, k)

(* As long as the database answers, processing gives up only if a flow has *)
(* no sender, was heard by nobody or a DSCP of the scenario had no         *)
(* traffic; if it ends there is a sheet for every file and every flow was  *)
(* heard.                                                                  *)
FailsOnlyWithoutData ==
  LET Seen(k) == \A d \in ToSet(ScenarioDscps) \ {All} :
                   \E x \in FlowsIn(k) : DscpOf(k, x) = d
  IN  /\ stage = "failed" /\ ~unanswered =>
           \E k \in DOMAIN csv : ~(Has(k, "sender") /\ Has(k, "receiver") /\ Seen(k))
      /\ stage = "done" =>
           Len(book) = Len(csv) /\ \A k \in DOMAIN csv : Has(k, "receiver") /\ Seen(k)
=============================================================================
