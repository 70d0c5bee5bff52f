------------------------- MODULE MeasurementProofs -------------------------
(***************************************************************************)
(* The load test: its result file, its timing and what its tools count,    *)
(* for every number of hosts, flows, packets and iterations, and every     *)
(* time within the margins of interface.py.  And what result processing    *)
(* makes of the files of tests, whatever they hold and in whatever order   *)
(* their rows were written.                                                *)
(***************************************************************************)
EXTENDS Measurement, FiniteSetTheorems, SequenceTheorems, WellFoundedInduction, TLAPS

Number  == [flow: Flow, seq: Nat]
Metrics == [flow: Flow, num: Nat, seqs: Seq(Nat)]
TestState == [pc: {"menu", "start", "gap", "sleep"}, it: Nat, wake: Nat, runs: Nat]
SenderState ==
  [pc: {"off", "launched", "busy", "lock", "write", "done"}, since: Nat,
   n: Nat, failed: Nat, new: BOOLEAN]
ReceiverState ==
  [pc: {"off", "launched", "busy", "join", "lock", "write", "done"}, since: Nat,
   queue: Seq(Number), flows: Seq(Metrics), new: BOOLEAN, heard: Seq(Number)]

TypeOK ==
  /\ now \in Nat
  /\ test \in TestState
  /\ snd \in [Sender -> SenderState] /\ rcv \in [Receiver -> ReceiverState]
  /\ net \subseteq [it: Iteration, flow: Flow, seq: Nat, to: Host, by: Nat]
  /\ file \in [exists: BOOLEAN, rows: Seq(Elements(file.rows))]
  /\ lock \in Process \cup {Nobody}

(* Who writes has the lock, and has found the file as it still is. *)
OneWriter == \A x \in Process : Pc(x).pc = "write" <=> lock = x
FileAsFound ==
  /\ HeaderFirst(file.rows)
  /\ ~file.exists => file.rows = << >>
  /\ file.exists /\ lock = Nobody => file.rows # << >>
  /\ \A x \in Process : Pc(x).pc = "write" =>
       file.exists /\ (Pc(x).new <=> file.rows = << >>)

(* Where everything stands that an iteration begun at time b has started.  *)
Began == test.wake - SenderReceiverGap - (IF test.pc = "gap" THEN 0 ELSE IterationSleep)
ReceiverInTime(r, b) ==
  IF r[1] # test.it THEN ~Waiting(rcv[r])
  ELSE /\ rcv[r].pc = "launched" => rcv[r].since = b /\ now <= b + StartUp
       /\ rcv[r].pc = "busy" =>
            /\ b <= rcv[r].since /\ rcv[r].since <= b + StartUp
            /\ now <= rcv[r].since + ReceiverTimeout
       /\ rcv[r].pc \in {"join", "lock", "write"} =>
            /\ rcv[r].since <= b + StartUp
            /\ now <= rcv[r].since + ReceiverTimeout + ExportTime
       /\ rcv[r].pc \notin {"launched", "busy"} => b + ReceiverTimeout <= now
SenderInTime(s, b) ==
  IF s[1] # test.it \/ test.pc = "gap" THEN ~Waiting(snd[s])
  ELSE /\ snd[s].pc = "launched" =>
            snd[s].since = b + SenderReceiverGap /\ now <= snd[s].since + StartUp
       /\ snd[s].pc \in {"busy", "lock", "write"} =>
            /\ snd[s].since <= b + SenderReceiverGap + StartUp
            /\ now <= snd[s].since + Duration + (IF snd[s].pc = "busy" THEN 0 ELSE ExportTime)
CopyInTime(c, b) ==
  /\ c.it = test.it /\ now <= c.by
  /\ c.by <= b + SenderReceiverGap + StartUp + Duration + Transit

InTime ==
  /\ test.pc \in {"menu", "start"} => Ended /\ net = {}
  /\ test.pc \in {"gap", "sleep"} =>
       /\ now <= test.wake
       /\ Began + (IF test.pc = "gap" THEN 0 ELSE SenderReceiverGap) <= now
       /\ test.pc = "gap" => net = {}
       /\ \A r \in Receiver : ReceiverInTime(r, Began)
       /\ \A s \in Sender : SenderInTime(s, Began)
       /\ \A c \in net : CopyInTime(c, Began)

IInv == TypeOK /\ OneWriter /\ FileAsFound /\ InTime

(* What a thread has worked off.  b numbers the packets of flow f among    *)
(* the first k of h, in order: their sequence numbers are seqs.            *)
Lists(b, h, k, f, seqs) ==
  /\ \A i, j \in 1 .. Len(seqs) : i < j => b[i] < b[j]
  /\ \A i \in 1 .. Len(seqs) : h[b[i]].flow = f /\ h[b[i]].seq = seqs[i]
  /\ \A p \in 1 .. k : h[p].flow = f => \E i \in 1 .. Len(seqs) : b[i] = p
(* The metrics m are those of the first k packets of h. *)
Tells(m, h, k) ==
  /\ \A x, y \in 1 .. Len(m) : m[x].flow = m[y].flow => x = y
  /\ \A p \in 1 .. k : \E x \in 1 .. Len(m) : m[x].flow = h[p].flow
  /\ \A x \in 1 .. Len(m) :
       /\ m[x].num = Len(m[x].seqs) /\ m[x].num > 0
       /\ \E b \in [1 .. Len(m[x].seqs) -> 1 .. k] : Lists(b, h, k, m[x].flow, m[x].seqs)

(* The queue holds the last packets heard, the metrics those before.       *)
ThreadBehind(v) ==
  /\ Len(v.queue) <= Len(v.heard)
  /\ \A j \in 1 .. Len(v.queue) : v.queue[j] = v.heard[Len(v.heard) - Len(v.queue) + j]
  /\ v.pc \in {"lock", "write", "done"} => v.queue = << >>
  /\ Tells(v.flows, v.heard, Len(v.heard) - Len(v.queue))

(* The receivers of later iterations are still off; who is done has its    *)
(* rows in the file, one after the other, and nobody else has any.         *)
LaterOff ==
  /\ test.pc # "menu" => test.it > 0
  /\ \A r \in Receiver : r[1] > test.it \/ (test.pc = "start" /\ r[1] = test.it) =>
       rcv[r].pc = "off"
HasItsRows(r) ==
  \E m \in 0 .. Len(file.rows) :
    /\ m + Len(rcv[r].flows) <= Len(file.rows)
    /\ RowsOf(r) = m + 1 .. m + Len(rcv[r].flows)
    /\ \A i \in 1 .. Len(rcv[r].flows) : file.rows[m+i] = ReceiverRows(r)[i]
RowsInPlace ==
  test.it > 0 => \A r \in Receiver :
    IF rcv[r].pc = "done" THEN HasItsRows(r) ELSE RowsOf(r) = {}

RowsInv == (\A r \in Receiver : ThreadBehind(rcv[r])) /\ LaterOff /\ RowsInPlace

-----------------------------------------------------------------------------
(* Numbers and names. *)

LEMMA Margins ==
  /\ ReceiverTimeout \in Nat /\ IterationSleep \in Nat
  /\ Duration <= ReceiverTimeout
  /\ StartUp < SenderReceiverGap
  /\ SenderReceiverGap + StartUp + Duration + Transit < ReceiverTimeout
  /\ StartUp + ReceiverTimeout + ExportTime < SenderReceiverGap + IterationSleep
<1>1. /\ Duration \in Nat /\ SenderReceiverGap \in Nat /\ ExportResultsGap \in Nat
      /\ StartUp \in Nat /\ Transit \in Nat /\ ExportTime \in Nat
  BY TestParameters
<1>2. \A n \in Nat : (n * 105) \div 100 = n + (n * 5) \div 100
                     /\ (n * 5) \div 100 \in Nat
  OBVIOUS
<1>3. ReceiverTimeout = Duration + (Duration * 5) \div 100 + SenderReceiverGap
      /\ ReceiverTimeout \in Nat
  BY <1>1, <1>2 DEF ReceiverTimeout
<1>4. IterationSleep = ReceiverTimeout + (ReceiverTimeout * 5) \div 100 + ExportResultsGap
      /\ (ReceiverTimeout * 5) \div 100 \in Nat
  BY <1>1, <1>2, <1>3 DEF IterationSleep
<1>5. StartUp + ExportTime
        < SenderReceiverGap + ExportResultsGap + (ReceiverTimeout * 5) \div 100
  BY WithinMargins DEF ReceiverTimeout
<1>6. StartUp < SenderReceiverGap /\ StartUp + Transit < (Duration * 5) \div 100
  BY WithinMargins
<1>. QED  BY <1>1, <1>2, <1>3, <1>4, <1>5, <1>6

LEMMA ProcessesDiffer ==
  /\ Nobody \notin Process
  /\ \A x \in Receiver : x \notin Sender
BY TestParameters DEF Nobody, Process, Sender, Receiver, Iteration

LEMMA ElementsOfSeq ==
  ASSUME NEW A, NEW s \in Seq(A)
  PROVE  s \in Seq(Elements(s))
BY DEF Elements

LEMMA AppendedRows ==
  ASSUME NEW A, NEW B, NEW s \in Seq(A), NEW t \in Seq(B)
  PROVE  /\ s \o t \in Seq(Elements(s \o t))
         /\ Len(s \o t) = Len(s) + Len(t)
         /\ \A i \in 1 .. Len(s) : (s \o t)[i] = s[i]
         /\ \A i \in Len(s) + 1 .. Len(s) + Len(t) : (s \o t)[i] = t[i - Len(s)]
<1>1. s \in Seq(A \cup B) /\ t \in Seq(A \cup B)
  OBVIOUS
<1>2. s \o t \in Seq(A \cup B)
  BY <1>1
<1>3. s \o t \in Seq(Elements(s \o t))
  BY <1>2, ElementsOfSeq
<1>4. Len(s \o t) = Len(s) + Len(t)
  OBVIOUS
<1>5. \A i \in 1 .. Len(s) : (s \o t)[i] = s[i]
  OBVIOUS
<1>6. \A i \in Len(s) + 1 .. Len(s) + Len(t) : (s \o t)[i] = t[i - Len(s)]
  OBVIOUS
<1>. QED  BY <1>3, <1>4, <1>5, <1>6

-----------------------------------------------------------------------------
(* Every state is well typed. *)

LEMMA SenderTyped ==
  ASSUME TypeOK, NEW s \in Sender
  PROVE  snd[s] \in SenderState /\ s[1] \in Iteration /\ s[2] \in Flow
BY DEF TypeOK, Sender

LEMMA ReceiverTyped ==
  ASSUME TypeOK, NEW r \in Receiver
  PROVE  rcv[r] \in ReceiverState /\ r[1] \in Iteration /\ r[2] \in Host
BY DEF TypeOK, Receiver

LEMMA NewTyped == NewSender \in SenderState /\ NewReceiver \in ReceiverState
BY DEF NewSender, NewReceiver, SenderState, ReceiverState

LEMMA CountedTyped ==
  ASSUME NEW m \in Seq(Metrics), NEW p \in Number
  PROVE  Counted(m, p) \in Seq(Metrics)
<1>1. p.flow \in Flow /\ p.seq \in Nat /\ <<p.seq>> \in Seq(Nat)
  BY DEF Number
<1>. DEFINE i == {x \in DOMAIN m : m[x].flow = p.flow}
            new == [flow |-> p.flow, num |-> 1, seqs |-> <<p.seq>>]
            Changed(x) == [m[x] EXCEPT !.num = @ + 1, !.seqs = Append(@, p.seq)]
<1>2. new \in Metrics
  BY <1>1 DEF Metrics
<1>3. \A x \in DOMAIN m : m[x] \in Metrics
  OBVIOUS
<1>4. ASSUME NEW y \in Metrics
      PROVE  [y EXCEPT !.num = @ + 1, !.seqs = Append(@, p.seq)] \in Metrics
  <2>1. y.num + 1 \in Nat /\ Append(y.seqs, p.seq) \in Seq(Nat)
    BY <1>1 DEF Metrics
  <2>. QED  BY <2>1 DEF Metrics
<1>5. \A x \in DOMAIN m : Changed(x) \in Metrics
  BY <1>3, <1>4
<1>6. Counted(m, p) = IF i = {} THEN Append(m, new)
                      ELSE [x \in DOMAIN m |-> IF x \in i THEN Changed(x) ELSE m[x]]
  BY DEF Counted
<1>. HIDE DEF new, Changed, i
<1>7. Append(m, new) \in Seq(Metrics)
  BY <1>2
<1>8. [x \in DOMAIN m |-> IF x \in i THEN Changed(x) ELSE m[x]] \in Seq(Metrics)
  BY <1>3, <1>5
<1>. QED  BY <1>6, <1>7, <1>8

(* What a process appends is a sequence of rows, none of them a header.    *)
LEMMA RowsTyped ==
  ASSUME TypeOK, NEW x \in Process
  PROVE  /\ Rows(x) \in Seq(Elements(Rows(x)))
         /\ \A i \in DOMAIN Rows(x) : Rows(x)[i] # HEADER
         /\ x \in Sender => Rows(x) # << >>
<1>1. CASE x \in Sender
  <2>1. Rows(x) = SenderRows(x)
    BY <1>1 DEF Rows
  <2>. DEFINE row == [is |-> "sender", it |-> x[1], host |-> x[2], flow |-> x[2],
                      dst |-> SentTo[x[2]], dscp |-> Dscp[x[2]],
                      num |-> Count[x[2]] - snd[x].failed, time |-> 0, ooo |-> 0, jit |-> 0]
  <2>2. SenderRows(x) = <<row>>
    BY DEF SenderRows
  <2>3. row # HEADER
    BY DEF HEADER
  <2>. HIDE DEF row
  <2>4. <<row>> \in Seq({row})
    OBVIOUS
  <2>5. <<row>> \in Seq(Elements(<<row>>))
    BY <2>4, ElementsOfSeq
  <2>6. DOMAIN <<row>> = {1} /\ <<row>>[1] = row /\ <<row>> # << >>
    OBVIOUS
  <2>. QED  BY <2>1, <2>2, <2>3, <2>5, <2>6
<1>2. CASE x \in Receiver
  <2>1. Rows(x) = ReceiverRows(x) /\ x \notin Sender
    BY <1>2, ProcessesDiffer DEF Rows
  <2>. DEFINE Row(i) ==
         LET m == rcv[x].flows[i]
         IN  [is |-> "receiver", it |-> x[1], host |-> x[2], flow |-> m.flow,
              dst |-> SeenAt[m.flow], dscp |-> Dscp[m.flow], num |-> m.num,
              time |-> 1, ooo |-> Cardinality(OutOfOrder(m.seqs)), jit |-> 0]
  <2>2. ReceiverRows(x) = [i \in DOMAIN rcv[x].flows |-> Row(i)]
    BY DEF ReceiverRows
  <2>3. \A i \in DOMAIN rcv[x].flows : Row(i) # HEADER
    BY DEF HEADER
  <2>4. rcv[x].flows \in Seq(Metrics)
    BY <1>2, ReceiverTyped DEF ReceiverState
  <2>. HIDE DEF Row
  <2>5. ReceiverRows(x) \in Seq({Row(i) : i \in DOMAIN rcv[x].flows})
    BY <2>2, <2>4
  <2>. QED  BY <2>1, <2>2, <2>3, <2>5, ElementsOfSeq
<1>. QED  BY <1>1, <1>2 DEF Process

LEMMA MoveTyped ==
  ASSUME TypeOK, NEW x \in Process,
         NEW pc \in {"write", "done"}, NEW since \in Nat, NEW new \in BOOLEAN,
         Move(x, [Pc(x) EXCEPT !.pc = pc, !.since = since, !.new = new])
  PROVE  /\ snd' \in [Sender -> SenderState] /\ rcv' \in [Receiver -> ReceiverState]
         /\ Pc(x)'.pc = pc /\ Pc(x)'.new = new /\ Pc(x)'.since = since
         /\ \A y \in Process : y # x => Pc(y)' = Pc(y)
<1>1. CASE x \in Sender
  <2>1. /\ snd' = [snd EXCEPT ![x] = [snd[x] EXCEPT !.pc = pc, !.since = since, !.new = new]]
        /\ rcv' = rcv
    BY <1>1 DEF Move, SetSnd, Pc
  <2>2. snd[x] \in SenderState /\ snd \in [Sender -> SenderState]
    BY <1>1, SenderTyped DEF TypeOK
  <2>3. [snd[x] EXCEPT !.pc = pc, !.since = since, !.new = new] \in SenderState
    BY <2>2 DEF SenderState
  <2>4. snd' \in [Sender -> SenderState] /\ rcv' \in [Receiver -> ReceiverState]
    BY <2>1, <2>2, <2>3 DEF TypeOK
  <2>5. snd'[x].pc = pc /\ snd'[x].new = new /\ snd'[x].since = since
    BY <1>1, <2>1, <2>2 DEF SenderState
  <2>6. \A y \in Sender : y # x => snd'[y] = snd[y]
    BY <2>1, <2>2
  <2>. QED  BY <1>1, <2>1, <2>4, <2>5, <2>6 DEF Pc
<1>2. CASE x \in Receiver
  <2>1. /\ rcv' = [rcv EXCEPT ![x] = [rcv[x] EXCEPT !.pc = pc, !.since = since, !.new = new]]
        /\ snd' = snd /\ x \notin Sender
    BY <1>2, ProcessesDiffer DEF Move, SetRcv, Pc
  <2>2. rcv[x] \in ReceiverState /\ rcv \in [Receiver -> ReceiverState]
    BY <1>2, ReceiverTyped DEF TypeOK
  <2>3. [rcv[x] EXCEPT !.pc = pc, !.since = since, !.new = new] \in ReceiverState
    BY <2>2 DEF ReceiverState
  <2>4. snd' \in [Sender -> SenderState] /\ rcv' \in [Receiver -> ReceiverState]
    BY <2>1, <2>2, <2>3 DEF TypeOK
  <2>5. rcv'[x].pc = pc /\ rcv'[x].new = new /\ rcv'[x].since = since
    BY <1>2, <2>1, <2>2 DEF ReceiverState
  <2>6. \A y \in Receiver : y # x => rcv'[y] = rcv[y]
    BY <2>1, <2>2
  <2>. QED  BY <1>2, <2>1, <2>4, <2>5, <2>6 DEF Pc, Process
<1>. QED  BY <1>1, <1>2 DEF Process

LEMMA ProcessTyped ==
  ASSUME TypeOK, NEW x \in Process
  PROVE  /\ Pc(x) \in SenderState \cup ReceiverState
         /\ Pc(x).since \in Nat /\ Pc(x).new \in BOOLEAN
BY SenderTyped, ReceiverTyped DEF Pc, Process, SenderState, ReceiverState

LEMMA OpenMoves ==
  ASSUME TypeOK, NEW x \in Process, Open(x)
  PROVE  /\ snd' \in [Sender -> SenderState] /\ rcv' \in [Receiver -> ReceiverState]
         /\ Pc(x)'.pc = "write" /\ Pc(x)'.new = ~file.exists
         /\ Pc(x)'.since = Pc(x).since
         /\ \A y \in Process : y # x => Pc(y)' = Pc(y)
<1>1. file.exists \in BOOLEAN /\ Pc(x).since \in Nat
  BY ProcessTyped DEF TypeOK
<1>2. [Pc(x) EXCEPT !.pc = "write", !.new = ~file.exists]
        = [Pc(x) EXCEPT !.pc = "write", !.since = Pc(x).since, !.new = ~file.exists]
  BY ProcessTyped DEF SenderState, ReceiverState
<1>3. Move(x, [Pc(x) EXCEPT !.pc = "write", !.since = Pc(x).since, !.new = ~file.exists])
  BY <1>2 DEF Open
<1>. QED  BY <1>1, <1>3, MoveTyped

LEMMA CloseMoves ==
  ASSUME TypeOK, NEW x \in Process, Close(x)
  PROVE  /\ snd' \in [Sender -> SenderState] /\ rcv' \in [Receiver -> ReceiverState]
         /\ Pc(x)'.pc = "done"
         /\ \A y \in Process : y # x => Pc(y)' = Pc(y)
<1>1. Pc(x).new \in BOOLEAN
  BY ProcessTyped
<1>2. [Pc(x) EXCEPT !.pc = "done", !.since = 0]
        = [Pc(x) EXCEPT !.pc = "done", !.since = 0, !.new = Pc(x).new]
  BY ProcessTyped DEF SenderState, ReceiverState
<1>3. Move(x, [Pc(x) EXCEPT !.pc = "done", !.since = 0, !.new = Pc(x).new])
  BY <1>2 DEF Close
<1>. QED  BY <1>1, <1>3, MoveTyped

(* A header is put on top of an empty file only, and rows below it. *)
LEMMA HeaderOnTop ==
  ASSUME NEW old, old \in Seq(Elements(old)), HeaderFirst(old),
         NEW b \in BOOLEAN, b <=> old = << >>
  PROVE  LET top == old \o (IF b THEN <<HEADER>> ELSE << >>)
         IN  top \in Seq(Elements(top)) /\ HeaderFirst(top) /\ top # << >>
<1>1. CASE b
  <2>1. old \o <<HEADER>> = <<HEADER>>
    BY <1>1
  <2>2. <<HEADER>> \in Seq({HEADER})
    OBVIOUS
  <2>3. <<HEADER>> \in Seq(Elements(<<HEADER>>))
    BY <2>2, ElementsOfSeq
  <2>4. HeaderFirst(<<HEADER>>) /\ <<HEADER>> # << >>
    BY DEF HeaderFirst
  <2>. QED  BY <1>1, <2>1, <2>3, <2>4
<1>2. CASE ~b
  <2>1. old \o << >> = old /\ old # << >>
    BY <1>2
  <2>. QED  BY <1>2, <2>1
<1>. QED  BY <1>1, <1>2

LEMMA RowsBelow ==
  ASSUME NEW all, all \in Seq(Elements(all)), HeaderFirst(all), all # << >>,
         NEW new, new \in Seq(Elements(new)), \A i \in DOMAIN new : new[i] # HEADER
  PROVE  /\ all \o new \in Seq(Elements(all \o new))
         /\ HeaderFirst(all \o new) /\ all \o new # << >>
<1>1. /\ all \o new \in Seq(Elements(all \o new)) /\ Len(all \o new) = Len(all) + Len(new)
      /\ \A i \in 1 .. Len(all) : (all \o new)[i] = all[i]
      /\ \A i \in Len(all) + 1 .. Len(all) + Len(new) : (all \o new)[i] = new[i - Len(all)]
  BY AppendedRows
<1>2. Len(all) \in Nat \ {0} /\ Len(new) \in Nat /\ DOMAIN new = 1 .. Len(new)
      /\ DOMAIN all = 1 .. Len(all)
  OBVIOUS
<1>3. HeaderFirst(all \o new)
  <2>1. ASSUME NEW i \in 1 .. Len(all)
        PROVE  (all \o new)[i] = HEADER <=> i = 1
    BY <1>1, <1>2 DEF HeaderFirst
  <2>2. ASSUME NEW i \in Len(all) + 1 .. Len(all) + Len(new)
        PROVE  (all \o new)[i] # HEADER /\ i # 1
    <3>1. i - Len(all) \in 1 .. Len(new) /\ i # 1
      BY <1>2
    <3>2. (all \o new)[i] = new[i - Len(all)]
      BY <1>1
    <3>. QED  BY <1>2, <3>1, <3>2
  <2>3. DOMAIN (all \o new) = 1 .. Len(all) + Len(new)
    BY <1>1
  <2>4. \A i \in 1 .. Len(all) + Len(new) :
          i \in 1 .. Len(all) \/ i \in Len(all) + 1 .. Len(all) + Len(new)
    BY <1>2
  <2>. QED  BY <2>1, <2>2, <2>3, <2>4 DEF HeaderFirst
<1>4. all \o new # << >>
  BY <1>1, <1>2
<1>. QED  BY <1>1, <1>3, <1>4

LEMMA WrittenTyped ==
  ASSUME TypeOK, FileAsFound, NEW x \in Process, Pc(x).pc = "write"
  PROVE  /\ Written(x) \in [exists: {TRUE}, rows: Seq(Elements(Written(x).rows))]
         /\ HeaderFirst(Written(x).rows) /\ Written(x).rows # << >>
<1>1. /\ file.exists = TRUE /\ Pc(x).new \in BOOLEAN /\ (Pc(x).new <=> file.rows = << >>)
      /\ file.rows \in Seq(Elements(file.rows)) /\ HeaderFirst(file.rows)
  BY ProcessTyped DEF TypeOK, FileAsFound
<1>2. Rows(x) \in Seq(Elements(Rows(x))) /\ \A i \in DOMAIN Rows(x) : Rows(x)[i] # HEADER
  BY RowsTyped
<1>. DEFINE top == file.rows \o (IF Pc(x).new THEN <<HEADER>> ELSE << >>)
            all == top \o Rows(x)
<1>3. top \in Seq(Elements(top)) /\ HeaderFirst(top) /\ top # << >>
  BY <1>1, HeaderOnTop
<1>4. Written(x) = [file EXCEPT !.rows = all]
  BY DEF Written
<1>. HIDE DEF top
<1>5. all \in Seq(Elements(all)) /\ HeaderFirst(all) /\ all # << >>
  BY <1>2, <1>3, RowsBelow
<1>. HIDE DEF all
<1>6. Written(x) \in [exists: {TRUE}, rows: {all}]
  BY <1>1, <1>4 DEF TypeOK
<1>. QED  BY <1>5, <1>6

LEMMA InitTyped == Init => TypeOK
<1>. SUFFICES ASSUME Init PROVE TypeOK
  OBVIOUS
<1>1. file \in [exists: BOOLEAN, rows: Seq(Elements(file.rows))]
  <2>1. CASE file \in Earlier
    <3>1. file = [exists |-> TRUE, rows |-> file.rows] /\ file.rows \in Seq(Elements(file.rows))
      BY <2>1, EarlierFilesComplete
    <3>. DEFINE rr == file.rows
    <3>2. [exists |-> TRUE, rows |-> rr] \in [exists: BOOLEAN, rows: Seq(Elements(rr))]
      BY <3>1
    <3>. HIDE DEF rr
    <3>. QED  BY <3>1, <3>2 DEF rr
  <2>2. CASE file = Absent
    BY <2>2 DEF Absent
  <2>. QED  BY <2>1, <2>2 DEF Init
<1>. QED  BY <1>1, NewTyped DEF Init, TypeOK, TestState

LEMMA TestTyped ==
  ASSUME TypeOK, StartTest \/ StartIteration \/ StartFlows \/ EndIteration
  PROVE  TypeOK'
<1>1. IterationSleep \in Nat /\ SenderReceiverGap \in Nat /\ test \in TestState /\ now \in Nat
  BY Margins, TestParameters DEF TypeOK
<1>2. CASE StartTest
  <2>1. file' \in [exists: BOOLEAN, rows: Seq(Elements(file'.rows))]
    BY <1>2 DEF StartTest, Absent
  <2>2. test' \in TestState
    BY <1>1, <1>2 DEF StartTest, TestState
  <2>. QED  BY <1>2, <2>1, <2>2, NewTyped DEF StartTest, TypeOK
<1>3. CASE StartIteration
  <2>1. [NewReceiver EXCEPT !.pc = "launched", !.since = now] \in ReceiverState
    BY NewTyped DEF TypeOK, ReceiverState
  <2>2. rcv' \in [Receiver -> ReceiverState]
    BY <1>3, <2>1 DEF StartIteration, LaunchReceivers, TypeOK
  <2>3. test' \in TestState
    <3>1. test' = [test EXCEPT !.pc = "gap", !.wake = now + SenderReceiverGap]
      BY <1>3 DEF StartIteration
    <3>2. now + SenderReceiverGap \in Nat
      BY <1>1
    <3>. QED  BY <1>1, <3>1, <3>2 DEF TestState
  <2>. QED  BY <1>3, <2>2, <2>3 DEF StartIteration, TypeOK
<1>4. CASE StartFlows
  <2>1. [NewSender EXCEPT !.pc = "launched", !.since = now] \in SenderState
    BY NewTyped DEF TypeOK, SenderState
  <2>2. snd' \in [Sender -> SenderState]
    BY <1>4, <2>1 DEF StartFlows, TypeOK
  <2>3. test' \in TestState
    <3>1. test' = [test EXCEPT !.pc = "sleep", !.wake = now + IterationSleep]
      BY <1>4 DEF StartFlows
    <3>2. now + IterationSleep \in Nat
      BY <1>1
    <3>. QED  BY <1>1, <3>1, <3>2 DEF TestState
  <2>. QED  BY <1>4, <2>2, <2>3 DEF StartFlows, TypeOK
<1>5. CASE EndIteration
  <2>1. test' \in TestState
    <3>1. \/ test' = [test EXCEPT !.pc = "start", !.it = test.it + 1]
          \/ test' = [test EXCEPT !.pc = "menu"]
      BY <1>5 DEF EndIteration
    <3>2. test.it + 1 \in Nat
      BY <1>1 DEF TestState
    <3>. QED  BY <1>1, <3>1, <3>2 DEF TestState
  <2>. QED  BY <1>5, <2>1 DEF EndIteration, TypeOK
<1>. QED  BY <1>2, <1>3, <1>4, <1>5

(* Deadlines are numbers; time jumps to one of them.                       *)
LEMMA DeadlineOf ==
  ASSUME TypeOK
  PROVE  /\ \A s \in Sender : DueAt(snd[s], Duration) \in Nat
         /\ \A r \in Receiver : DueAt(rcv[r], ReceiverTimeout) \in Nat
         /\ Deadlines \subseteq Nat
<1>1. /\ Duration \in Nat /\ StartUp \in Nat /\ ExportTime \in Nat
      /\ ReceiverTimeout \in Nat
  BY Margins, TestParameters
<1>2. \A s \in Sender : DueAt(snd[s], Duration) \in Nat
  <2>1. \A s \in Sender : snd[s].since \in Nat
    BY SenderTyped DEF SenderState
  <2>. QED  BY <1>1, <2>1 DEF DueAt
<1>3. \A r \in Receiver : DueAt(rcv[r], ReceiverTimeout) \in Nat
  <2>1. \A r \in Receiver : rcv[r].since \in Nat
    BY ReceiverTyped DEF ReceiverState
  <2>. QED  BY <1>1, <2>1 DEF DueAt
<1>4. (\A c \in net : c.by \in Nat) /\ test.wake \in Nat
  BY DEF TypeOK, TestState
<1>. QED  BY <1>2, <1>3, <1>4 DEF Deadlines

LEMMA SenderActionsTyped ==
  ASSUME TypeOK, NEW s \in Sender, SendStarts(s) \/ SendPacket(s) \/ SendEnds(s)
  PROVE  TypeOK'
<1>1. snd[s] \in SenderState /\ s[1] \in Iteration /\ s[2] \in Flow
      /\ snd \in [Sender -> SenderState] /\ now \in Nat
  BY SenderTyped DEF TypeOK
<1>2. CASE SendStarts(s)
  <2>1. [snd[s] EXCEPT !.pc = "busy", !.since = now] \in SenderState
    BY <1>1 DEF SenderState
  <2>2. snd' \in [Sender -> SenderState]
    BY <1>1, <1>2, <2>1 DEF SendStarts, SetSnd
  <2>. QED  BY <1>2, <2>2 DEF SendStarts, TypeOK
<1>3. CASE SendEnds(s)
  <2>1. [snd[s] EXCEPT !.pc = "lock"] \in SenderState
    BY <1>1 DEF SenderState
  <2>2. snd' \in [Sender -> SenderState]
    BY <1>1, <1>3, <2>1 DEF SendEnds, SetSnd
  <2>. QED  BY <1>3, <2>2 DEF SendEnds, TypeOK
<1>4. CASE SendPacket(s)
  <2>. DEFINE n == snd[s].n + 1
  <2>1. n \in Nat /\ snd[s].failed + 1 \in Nat /\ snd[s].since + Duration + Transit \in Nat
    BY <1>1, TestParameters DEF SenderState
  <2>2. /\ [snd[s] EXCEPT !.n = n] \in SenderState
        /\ [snd[s] EXCEPT !.n = n, !.failed = @ + 1] \in SenderState
    BY <1>1, <2>1 DEF SenderState
  <2>3. snd' \in [Sender -> SenderState]
    BY <1>1, <1>4, <2>2 DEF SendPacket, SetSnd
  <2>4. \A hs \in SUBSET Members[s[2]] :
          Copies(s, n, hs) \subseteq [it: Iteration, flow: Flow, seq: Nat, to: Host, by: Nat]
    BY <1>1, <2>1, TestParameters DEF Copies
  <2>. HIDE DEF n
  <2>5. net' \subseteq [it: Iteration, flow: Flow, seq: Nat, to: Host, by: Nat]
    BY <1>4, <2>4 DEF SendPacket, TypeOK, n
  <2>. QED  BY <1>4, <2>3, <2>5 DEF SendPacket, TypeOK
<1>. QED  BY <1>2, <1>3, <1>4

LEMMA ReceiverActionsTyped ==
  ASSUME TypeOK, NEW r \in Receiver,
         ReceiveStarts(r) \/ ProcessPacket(r) \/ SniffEnds(r) \/ Join(r)
  PROVE  TypeOK'
<1>1. rcv[r] \in ReceiverState /\ rcv \in [Receiver -> ReceiverState] /\ now \in Nat
  BY ReceiverTyped DEF TypeOK
<1>. DEFINE p == rcv[r]
<1>2. ASSUME NEW q \in ReceiverState, SetRcv(r, q), UNCHANGED <<now, test, snd, net, file, lock>>
      PROVE  TypeOK'
  BY <1>1, <1>2 DEF SetRcv, TypeOK
<1>3. CASE ReceiveStarts(r)
  <2>1. [p EXCEPT !.pc = "busy", !.since = now] \in ReceiverState
    BY <1>1 DEF ReceiverState
  <2>. QED  BY <1>2, <1>3, <2>1 DEF ReceiveStarts
<1>4. CASE SniffEnds(r)
  <2>1. [p EXCEPT !.pc = "join"] \in ReceiverState
    BY <1>1 DEF ReceiverState
  <2>. QED  BY <1>2, <1>4, <2>1 DEF SniffEnds
<1>5. CASE Join(r)
  <2>1. [p EXCEPT !.pc = "lock"] \in ReceiverState
    BY <1>1 DEF ReceiverState
  <2>. QED  BY <1>2, <1>5, <2>1 DEF Join
<1>6. CASE ProcessPacket(r)
  <2>1. p.queue \in Seq(Number) /\ p.queue # << >> /\ p.flows \in Seq(Metrics)
    BY <1>1, <1>6 DEF ProcessPacket, ReceiverState
  <2>2. Tail(p.queue) \in Seq(Number) /\ Head(p.queue) \in Number
    BY <2>1
  <2>3. Counted(p.flows, Head(p.queue)) \in Seq(Metrics)
    BY <2>1, <2>2, CountedTyped
  <2>4. [p EXCEPT !.queue = Tail(@), !.flows = Counted(@, Head(p.queue))] \in ReceiverState
    BY <1>1, <2>2, <2>3 DEF ReceiverState
  <2>. QED  BY <1>2, <1>6, <2>4 DEF ProcessPacket
<1>. QED  BY <1>3, <1>4, <1>5, <1>6

LEMMA ExportTyped ==
  ASSUME TypeOK, FileAsFound, NEW x \in Process, Export(x)
  PROVE  TypeOK'
<1>1. CASE Open(x)
  <2>1. snd' \in [Sender -> SenderState] /\ rcv' \in [Receiver -> ReceiverState]
    BY <1>1, OpenMoves
  <2>2. file' = [file EXCEPT !.exists = TRUE]
    BY <1>1 DEF Open
  <2>3. file' \in [exists: BOOLEAN, rows: Seq(Elements(file'.rows))]
    BY <2>2 DEF TypeOK
  <2>. QED  BY <1>1, <2>1, <2>3 DEF Open, TypeOK
<1>2. CASE Close(x)
  <2>1. snd' \in [Sender -> SenderState] /\ rcv' \in [Receiver -> ReceiverState]
    BY <1>2, CloseMoves
  <2>2. file' \in [exists: {TRUE}, rows: Seq(Elements(file'.rows))]
    BY <1>2, WrittenTyped DEF Close
  <2>. QED  BY <1>2, <2>1, <2>2 DEF Close, TypeOK
<1>. QED  BY <1>1, <1>2 DEF Export

LEMMA NextTyped == TypeOK /\ FileAsFound /\ [Next]_vars => TypeOK'
<1>. SUFFICES ASSUME TypeOK, FileAsFound, [Next]_vars PROVE TypeOK'
  OBVIOUS
<1>1. CASE Tick
  <2>1. now' \in Nat
    BY <1>1, DeadlineOf DEF Tick
  <2>. QED  BY <1>1, <2>1 DEF Tick, TypeOK
<1>2. CASE StartTest \/ StartIteration \/ StartFlows \/ EndIteration
  BY <1>2, TestTyped
<1>3. CASE \E s \in Sender : SendStarts(s) \/ SendPacket(s) \/ SendEnds(s)
  BY <1>3, SenderActionsTyped
<1>4. ASSUME NEW c \in net, Deliver(c)
      PROVE  TypeOK'
  <2>1. c \in [it: Iteration, flow: Flow, seq: Nat, to: Host, by: Nat]
    BY DEF TypeOK
  <2>. DEFINE n == [flow |-> c.flow, seq |-> c.seq]
  <2>2. n \in Number
    BY <2>1 DEF Number
  <2>. HIDE DEF n
  <2>3. ASSUME NEW q \in ReceiverState
        PROVE  [q EXCEPT !.queue = Append(@, n), !.heard = Append(@, n)] \in ReceiverState
    <3>1. Append(q.queue, n) \in Seq(Number) /\ Append(q.heard, n) \in Seq(Number)
      BY <2>2 DEF ReceiverState
    <3>. QED  BY <3>1 DEF ReceiverState
  <2>4. rcv' = [r \in Receiver |->
                  IF r[2] = c.to /\ rcv[r].pc = "busy"
                  THEN [rcv[r] EXCEPT !.queue = Append(@, n), !.heard = Append(@, n)]
                  ELSE rcv[r]]
    BY <1>4 DEF Deliver, n
  <2>5. rcv' \in [Receiver -> ReceiverState]
    BY <2>3, <2>4, ReceiverTyped
  <2>. QED  BY <1>4, <2>5 DEF Deliver, TypeOK
<1>5. CASE \E r \in Receiver : ReceiveStarts(r) \/ ProcessPacket(r) \/ SniffEnds(r) \/ Join(r)
  BY <1>5, ReceiverActionsTyped
<1>6. CASE \E x \in Process : Export(x)
  BY <1>6, ExportTyped
<1>7. CASE UNCHANGED vars
  BY <1>7 DEF vars, TypeOK
<1>. QED  BY <1>1, <1>2, <1>3, <1>4, <1>5, <1>6, <1>7 DEF Next

-----------------------------------------------------------------------------
(* One process at a time writes, and writes a header only into a new file. *)

LEMMA WritersStay ==
  ASSUME TypeOK, OneWriter, FileAsFound, UNCHANGED <<file, lock>>,
         \A x \in Process : /\ Pc(x)'.pc = "write" <=> Pc(x).pc = "write"
                            /\ Pc(x).pc = "write" => Pc(x)'.new = Pc(x).new
  PROVE  OneWriter' /\ FileAsFound'
BY DEF OneWriter, FileAsFound

LEMMA OpenKeepsFile ==
  ASSUME TypeOK, OneWriter, FileAsFound, NEW x \in Process, Open(x)
  PROVE  OneWriter' /\ FileAsFound'
<1>1. /\ Pc(x)'.pc = "write" /\ Pc(x)'.new = ~file.exists
      /\ \A y \in Process : y # x => Pc(y)' = Pc(y)
  BY OpenMoves
<1>2. lock = Nobody /\ lock' = x /\ file' = [file EXCEPT !.exists = TRUE]
      /\ file \in [exists: BOOLEAN, rows: Seq(Elements(file.rows))]
  BY DEF Open, TypeOK
<1>3. file'.exists = TRUE /\ file'.rows = file.rows
  BY <1>2
<1>4. \A y \in Process : Pc(y).pc # "write"
  BY <1>2, ProcessesDiffer DEF OneWriter
<1>5. OneWriter'
  BY <1>1, <1>2, <1>4 DEF OneWriter
<1>6. ~file.exists <=> file.rows = << >>
  BY <1>2 DEF FileAsFound
<1>. QED  BY <1>1, <1>2, <1>3, <1>4, <1>5, <1>6, ProcessesDiffer DEF FileAsFound

LEMMA CloseKeepsFile ==
  ASSUME TypeOK, OneWriter, FileAsFound, NEW x \in Process, Close(x)
  PROVE  OneWriter' /\ FileAsFound'
<1>1. Pc(x)'.pc = "done" /\ \A y \in Process : y # x => Pc(y)' = Pc(y)
  BY CloseMoves
<1>2. Pc(x).pc = "write" /\ lock' = Nobody /\ file' = Written(x)
  BY DEF Close
<1>3. file'.exists = TRUE /\ HeaderFirst(file'.rows) /\ file'.rows # << >>
  BY <1>2, WrittenTyped
<1>4. \A y \in Process : y # x => Pc(y).pc # "write"
  BY <1>2 DEF OneWriter
<1>5. \A y \in Process : Pc(y)'.pc # "write"
  BY <1>1, <1>4
<1>6. OneWriter'
  BY <1>2, <1>5, ProcessesDiffer DEF OneWriter
<1>. QED  BY <1>2, <1>3, <1>5, <1>6 DEF FileAsFound

LEMMA TestKeepsFile ==
  ASSUME IInv, StartTest \/ StartIteration \/ StartFlows \/ EndIteration
  PROVE  OneWriter' /\ FileAsFound'
<1>1. TypeOK /\ OneWriter /\ FileAsFound /\ InTime
  BY DEF IInv
<1>2. test.pc \in {"menu", "start"} => \A x \in Process : Pc(x).pc \in {"off", "done"}
  BY <1>1 DEF InTime, Ended, Waiting
<1>3. CASE StartTest
  <2>1. \A x \in Process : Pc(x)'.pc = "off"
    BY <1>3, ProcessesDiffer DEF StartTest, Pc, Process, NewSender, NewReceiver
  <2>2. lock = Nobody /\ lock' = lock /\ file' = Absent
    BY <1>1, <1>2, <1>3 DEF StartTest, OneWriter, TypeOK
  <2>. QED  BY <2>1, <2>2, ProcessesDiffer DEF OneWriter, FileAsFound, Absent, HeaderFirst
<1>4. CASE StartIteration
  <2>1. \A x \in Process : Pc(x).pc # "write"
    BY <1>2, <1>4 DEF StartIteration
  <2>2. \A r \in Receiver : rcv'[r] = rcv[r] \/ rcv'[r].pc = "launched"
    BY <1>4 DEF StartIteration, LaunchReceivers, NewReceiver
  <2>3. \A x \in Process : Pc(x)' = Pc(x) \/ Pc(x)'.pc = "launched"
    BY <1>4, <2>2 DEF StartIteration, Pc, Process
  <2>4. \A x \in Process : Pc(x)'.pc # "write"
    BY <2>1, <2>3
  <2>. QED  BY <1>1, <1>4, <2>1, <2>4, WritersStay DEF StartIteration
<1>5. CASE StartFlows
  <2>1. \A s \in Sender : snd[s].pc # "write"
    BY <1>1, <1>5 DEF StartFlows, InTime, SenderInTime, Waiting
  <2>2. \A s \in Sender : snd'[s] = snd[s] \/ snd'[s].pc = "launched"
    BY <1>5 DEF StartFlows, NewSender
  <2>3. \A s \in Sender : snd'[s].pc # "write"
    BY <2>1, <2>2
  <2>4. \A x \in Process : x \notin Sender => Pc(x)' = Pc(x)
    BY <1>5 DEF StartFlows, Pc
  <2>5. \A x \in Process : /\ Pc(x)'.pc = "write" <=> Pc(x).pc = "write"
                           /\ Pc(x).pc = "write" => Pc(x)'.new = Pc(x).new
    BY <2>1, <2>3, <2>4 DEF Pc
  <2>. QED  BY <1>1, <1>5, <2>5, WritersStay DEF StartFlows
<1>6. CASE EndIteration
  <2>1. \A x \in Process : Pc(x)' = Pc(x)
    BY <1>6 DEF EndIteration, Pc
  <2>. QED  BY <1>1, <1>6, <2>1, WritersStay DEF EndIteration
<1>. QED  BY <1>3, <1>4, <1>5, <1>6

LEMMA ToolsKeepFile ==
  ASSUME TypeOK, OneWriter, FileAsFound,
         \/ \E s \in Sender : SendStarts(s) \/ SendPacket(s) \/ SendEnds(s)
         \/ \E r \in Receiver : ReceiveStarts(r) \/ ProcessPacket(r) \/ SniffEnds(r) \/ Join(r)
         \/ \E c \in net : Deliver(c)
  PROVE  OneWriter' /\ FileAsFound'
<1>1. ASSUME NEW s \in Sender, SendStarts(s) \/ SendPacket(s) \/ SendEnds(s)
      PROVE  OneWriter' /\ FileAsFound'
  <2>1. snd \in [Sender -> SenderState] /\ snd[s] \in SenderState
    BY SenderTyped DEF TypeOK
  <2>2. /\ \A y \in Sender : y # s => snd'[y] = snd[y]
        /\ snd[s].pc # "write" /\ snd'[s].pc # "write"
        /\ UNCHANGED <<rcv, file, lock>>
    BY <1>1, <2>1 DEF SendStarts, SendPacket, SendEnds, SetSnd, SenderState
  <2>3. \A x \in Process : /\ Pc(x)'.pc = "write" <=> Pc(x).pc = "write"
                           /\ Pc(x).pc = "write" => Pc(x)'.new = Pc(x).new
    BY <2>2 DEF Pc
  <2>. QED  BY <2>2, <2>3, WritersStay
<1>2. ASSUME NEW r \in Receiver,
             ReceiveStarts(r) \/ ProcessPacket(r) \/ SniffEnds(r) \/ Join(r)
      PROVE  OneWriter' /\ FileAsFound'
  <2>1. rcv \in [Receiver -> ReceiverState] /\ rcv[r] \in ReceiverState /\ r \notin Sender
    BY ReceiverTyped, ProcessesDiffer DEF TypeOK
  <2>2. /\ \A y \in Receiver : y # r => rcv'[y] = rcv[y]
        /\ rcv[r].pc # "write" /\ rcv'[r].pc # "write"
        /\ UNCHANGED <<snd, file, lock>>
    BY <1>2, <2>1 DEF ReceiveStarts, ProcessPacket, SniffEnds, Join, SetRcv, ReceiverState
  <2>3. \A x \in Process : /\ Pc(x)'.pc = "write" <=> Pc(x).pc = "write"
                           /\ Pc(x).pc = "write" => Pc(x)'.new = Pc(x).new
    BY <2>2 DEF Pc, Process
  <2>. QED  BY <2>2, <2>3, WritersStay
<1>3. ASSUME NEW c \in net, Deliver(c)
      PROVE  OneWriter' /\ FileAsFound'
  <2>1. \A r \in Receiver : rcv'[r].pc = rcv[r].pc /\ rcv'[r].new = rcv[r].new
    BY <1>3, ReceiverTyped DEF Deliver, ReceiverState
  <2>2. UNCHANGED <<snd, file, lock>>
    BY <1>3 DEF Deliver
  <2>3. \A x \in Process : /\ Pc(x)'.pc = "write" <=> Pc(x).pc = "write"
                           /\ Pc(x).pc = "write" => Pc(x)'.new = Pc(x).new
    BY <2>1, <2>2 DEF Pc, Process
  <2>. QED  BY <2>2, <2>3, WritersStay
<1>. QED  BY <1>1, <1>2, <1>3

LEMMA NextKeepsFile == IInv /\ [Next]_vars => OneWriter' /\ FileAsFound'
<1>. SUFFICES ASSUME IInv, [Next]_vars PROVE OneWriter' /\ FileAsFound'
  OBVIOUS
<1>1. TypeOK /\ OneWriter /\ FileAsFound
  BY DEF IInv
<1>2. CASE Tick \/ UNCHANGED vars
  <2>1. UNCHANGED <<snd, rcv, file, lock>>
    BY <1>2 DEF Tick, vars
  <2>2. \A x \in Process : Pc(x)' = Pc(x)
    BY <2>1 DEF Pc
  <2>. QED  BY <1>1, <2>1, <2>2, WritersStay
<1>. QED  BY <1>1, <1>2, TestKeepsFile, ToolsKeepFile, OpenKeepsFile, CloseKeepsFile
          DEF Next, Export

-----------------------------------------------------------------------------
(* Nothing falls behind.  First what holds of the times and of the actions *)
(* of processes while an iteration is on.                                  *)

LEMMA TimesAreNumbers ==
  ASSUME TypeOK
  PROVE  /\ now \in Nat /\ test.it \in Nat /\ test.wake \in Nat /\ Began \in Int
         /\ \A s \in Sender : snd[s].since \in Nat
         /\ \A r \in Receiver : rcv[r].since \in Nat
         /\ \A c \in net : c.by \in Nat
         /\ Duration \in Nat /\ StartUp \in Nat /\ Transit \in Nat
         /\ ExportTime \in Nat /\ SenderReceiverGap \in Nat
         /\ ReceiverTimeout \in Nat /\ IterationSleep \in Nat
<1>1. /\ now \in Nat /\ test.it \in Nat /\ test.wake \in Nat
      /\ \A c \in net : c.by \in Nat
  BY DEF TypeOK, TestState
<1>2. /\ \A s \in Sender : snd[s].since \in Nat
      /\ \A r \in Receiver : rcv[r].since \in Nat
  BY SenderTyped, ReceiverTyped DEF SenderState, ReceiverState
<1>. QED  BY <1>1, <1>2, Margins, TestParameters DEF Began

(* At the menu and between iterations there is nothing to do. *)
LEMMA IdleBetween ==
  ASSUME TypeOK, InTime, test.pc \in {"menu", "start"}
  PROVE  /\ Deadlines = {} /\ net = {}
         /\ \A s \in Sender : snd[s].pc \in {"off", "done"}
         /\ \A r \in Receiver : rcv[r].pc \in {"off", "done"}
<1>1. Ended /\ net = {}
  BY DEF InTime
<1>2. \A s \in Sender : ~Waiting(snd[s])
  BY <1>1 DEF Ended, Process, Pc
<1>3. \A r \in Receiver : ~Waiting(rcv[r])
  BY <1>1, ProcessesDiffer DEF Ended, Process, Pc
<1>. QED  BY <1>1, <1>2, <1>3 DEF Deadlines, Waiting

LEMMA TestInTime ==
  ASSUME IInv, StartTest \/ StartIteration \/ StartFlows \/ EndIteration
  PROVE  InTime'
<1>. USE DEF IInv
<1>1. test \in TestState /\ rcv \in [Receiver -> ReceiverState] /\ snd \in [Sender -> SenderState]
  BY DEF TypeOK
<1>2. CASE StartTest
  <2>1. /\ test'.pc = "start" /\ net' = {}
        /\ \A x \in Process : Pc(x)'.pc = "off"
    BY <1>2, IdleBetween, ProcessesDiffer
       DEF StartTest, Pc, Process, NewSender, NewReceiver
  <2>. QED  BY <2>1 DEF InTime, Ended, Waiting
<1>3. CASE StartIteration
  <2>1. /\ test'.pc = "gap" /\ test'.it = test.it
        /\ test'.wake = now + SenderReceiverGap
    BY <1>1, <1>3 DEF StartIteration, TestState
  <2>2. Began' = now /\ net' = {} /\ now' = now /\ snd' = snd
    BY <1>3, <2>1, IdleBetween, TimesAreNumbers DEF StartIteration, Began
  <2>3. \A s \in Sender : SenderInTime(s, Began)'
    BY <1>3, <2>1, <2>2, IdleBetween DEF StartIteration, SenderInTime, Waiting
  <2>4. \A r \in Receiver :
          IF r[1] = test.it THEN rcv'[r].pc = "launched" /\ rcv'[r].since = now
                            ELSE rcv'[r] = rcv[r]
    BY <1>3 DEF StartIteration, LaunchReceivers, NewReceiver
  <2>5. \A r \in Receiver : ReceiverInTime(r, Began)'
    BY <1>3, <2>1, <2>2, <2>4, IdleBetween, TimesAreNumbers
       DEF StartIteration, ReceiverInTime, Waiting
  <2>. QED  BY <2>1, <2>2, <2>3, <2>5, TimesAreNumbers DEF InTime
<1>4. CASE StartFlows
  <2>1. /\ test'.pc = "sleep" /\ test'.it = test.it
        /\ test'.wake = now + IterationSleep
    BY <1>1, <1>4 DEF StartFlows, TestState
  <2>2. /\ test.pc = "gap" /\ now = test.wake /\ Began = now - SenderReceiverGap
        /\ net = {} /\ \A r \in Receiver : ReceiverInTime(r, Began)
        /\ \A s \in Sender : SenderInTime(s, Began)
    BY <1>4, TimesAreNumbers DEF StartFlows, InTime, Began
  <2>3. Began' = Began /\ net' = {} /\ now' = now /\ rcv' = rcv
    BY <1>4, <2>1, <2>2, TimesAreNumbers DEF StartFlows, Began
  <2>4. \A s \in Sender :
          IF s[1] = test.it THEN snd'[s].pc = "launched" /\ snd'[s].since = now
                            ELSE snd'[s] = snd[s]
    BY <1>4 DEF StartFlows, NewSender
  <2>5. \A s \in Sender : SenderInTime(s, Began)'
    BY <2>1, <2>2, <2>3, <2>4, TimesAreNumbers DEF SenderInTime
  <2>6. \A r \in Receiver : ReceiverInTime(r, Began)'
    BY <2>1, <2>2, <2>3 DEF ReceiverInTime
  <2>. QED  BY <2>1, <2>2, <2>3, <2>5, <2>6, TimesAreNumbers DEF InTime
<1>5. CASE EndIteration
  <2>1. test.pc = "sleep" /\ now = test.wake /\ test'.pc \in {"start", "menu"}
        /\ now = Began + SenderReceiverGap + IterationSleep
        /\ UNCHANGED <<now, snd, rcv, net>>
    BY <1>1, <1>5, TimesAreNumbers DEF EndIteration, InTime, Began, TestState
  <2>2. \A r \in Receiver : rcv[r].pc \in {"off", "done"}
    <3>. SUFFICES ASSUME NEW r \in Receiver PROVE rcv[r].pc \in {"off", "done"}
      OBVIOUS
    <3>1. ReceiverInTime(r, Began)
      BY <2>1 DEF InTime
    <3>2. rcv[r].pc \in {"off", "launched", "busy", "join", "lock", "write", "done"}
      BY ReceiverTyped DEF ReceiverState
    <3>. QED  BY <2>1, <3>1, <3>2, Margins, TimesAreNumbers DEF ReceiverInTime, Waiting
  <2>3. \A s \in Sender : snd[s].pc \in {"off", "done"}
    <3>. SUFFICES ASSUME NEW s \in Sender PROVE snd[s].pc \in {"off", "done"}
      OBVIOUS
    <3>1. SenderInTime(s, Began)
      BY <2>1 DEF InTime
    <3>2. snd[s].pc \in {"off", "launched", "busy", "lock", "write", "done"}
      BY SenderTyped DEF SenderState
    <3>. QED  BY <2>1, <3>1, <3>2, Margins, TimesAreNumbers DEF SenderInTime, Waiting
  <2>4. net = {}
    <3>. SUFFICES ASSUME NEW c \in net PROVE FALSE
      OBVIOUS
    <3>1. CopyInTime(c, Began)
      BY <2>1 DEF InTime
    <3>. QED  BY <2>1, <3>1, Margins, TimesAreNumbers DEF CopyInTime
  <2>5. Ended'
    BY <2>1, <2>2, <2>3 DEF Ended, Waiting, Pc, Process
  <2>. QED  BY <2>1, <2>4, <2>5 DEF InTime
<1>. QED  BY <1>2, <1>3, <1>4, <1>5

(* Time stops at every deadline.                                           *)
LEMMA TickInTime == IInv /\ Tick => InTime'
<1>. SUFFICES ASSUME IInv, Tick PROVE InTime'
  OBVIOUS
<1>. USE DEF IInv
<1>1. /\ UNCHANGED <<test, snd, rcv, net, file, lock>> /\ Deadlines # {}
      /\ now' \in Nat /\ now < now' /\ \A d \in Deadlines : now' <= d
  BY DeadlineOf DEF Tick
<1>2. test.pc \in {"gap", "sleep"} /\ Began' = Began
  BY <1>1, IdleBetween DEF TypeOK, TestState, Began
<1>3. now' <= test.wake
  BY <1>1, <1>2 DEF Deadlines
<1>4. \A r \in Receiver : ReceiverInTime(r, Began)'
  <2>. SUFFICES ASSUME NEW r \in Receiver PROVE ReceiverInTime(r, Began)'
    OBVIOUS
  <2>1. ReceiverInTime(r, Began)
    BY <1>2 DEF InTime
  <2>2. Waiting(rcv[r]) => now' <= DueAt(rcv[r], ReceiverTimeout)
    BY <1>1 DEF Deadlines
  <2>. QED  BY <1>1, <1>2, <2>1, <2>2, TimesAreNumbers DEF ReceiverInTime, Waiting, DueAt
<1>5. \A s \in Sender : SenderInTime(s, Began)'
  <2>. SUFFICES ASSUME NEW s \in Sender PROVE SenderInTime(s, Began)'
    OBVIOUS
  <2>1. SenderInTime(s, Began)
    BY <1>2 DEF InTime
  <2>2. Waiting(snd[s]) => now' <= DueAt(snd[s], Duration)
    BY <1>1 DEF Deadlines
  <2>. QED  BY <1>1, <1>2, <2>1, <2>2, TimesAreNumbers DEF SenderInTime, Waiting, DueAt
<1>6. \A c \in net' : CopyInTime(c, Began)'
  BY <1>1, <1>2 DEF InTime, CopyInTime, Deadlines
<1>. QED  BY <1>1, <1>2, <1>3, <1>4, <1>5, <1>6, TimesAreNumbers DEF InTime

(* The steps of the processes leave the test alone; one that is not off or *)
(* done is of the iteration that is on.                                    *)
LEMMA SenderOn ==
  ASSUME IInv, NEW s \in Sender, Waiting(snd[s])
  PROVE  test.pc = "sleep" /\ s[1] = test.it /\ SenderInTime(s, Began)
BY IdleBetween DEF IInv, InTime, SenderInTime, Waiting, TypeOK, TestState

LEMMA ReceiverOn ==
  ASSUME IInv, NEW r \in Receiver, Waiting(rcv[r])
  PROVE  test.pc \in {"gap", "sleep"} /\ r[1] = test.it /\ ReceiverInTime(r, Began)
BY IdleBetween DEF IInv, InTime, ReceiverInTime, Waiting, TypeOK, TestState

LEMMA SenderStepInTime ==
  ASSUME IInv, NEW s \in Sender, test.pc = "sleep", UNCHANGED <<now, test, rcv>>,
         \A y \in Sender : y # s => snd'[y] = snd[y],
         SenderInTime(s, Began)', \A c \in net' : CopyInTime(c, Began)
  PROVE  InTime'
<1>. USE DEF IInv
<1>1. Began' = Began
  BY DEF Began
<1>2. \A y \in Sender : SenderInTime(y, Began)'
  BY <1>1 DEF InTime, SenderInTime
<1>3. \A r \in Receiver : ReceiverInTime(r, Began)'
  BY <1>1 DEF InTime, ReceiverInTime
<1>4. \A c \in net' : CopyInTime(c, Began)'
  BY <1>1 DEF CopyInTime
<1>. QED  BY <1>1, <1>2, <1>3, <1>4 DEF InTime

LEMMA ReceiverStepInTime ==
  ASSUME IInv, NEW r \in Receiver, test.pc \in {"gap", "sleep"}, UNCHANGED <<now, test, snd>>,
         \A y \in Receiver : y # r => rcv'[y] = rcv[y],
         ReceiverInTime(r, Began)', net' \subseteq net
  PROVE  InTime'
<1>. USE DEF IInv
<1>1. Began' = Began
  BY DEF Began
<1>2. \A y \in Sender : SenderInTime(y, Began)'
  BY <1>1 DEF InTime, SenderInTime
<1>3. \A y \in Receiver : ReceiverInTime(y, Began)'
  BY <1>1 DEF InTime, ReceiverInTime
<1>4. \A c \in net' : CopyInTime(c, Began)'
  BY <1>1 DEF CopyInTime, InTime
<1>5. test.pc = "gap" => net' = {}
  BY DEF InTime
<1>. QED  BY <1>1, <1>2, <1>3, <1>4, <1>5 DEF InTime

LEMMA SendersInTime ==
  ASSUME IInv, NEW s \in Sender, SendStarts(s) \/ SendPacket(s) \/ SendEnds(s)
  PROVE  InTime'
<1>. USE DEF IInv
<1>1. snd \in [Sender -> SenderState] /\ snd[s] \in SenderState
  BY SenderTyped DEF TypeOK
<1>2. Waiting(snd[s])
  BY DEF SendStarts, SendPacket, SendEnds, Waiting
<1>3. test.pc = "sleep" /\ s[1] = test.it /\ SenderInTime(s, Began)
      /\ \A c \in net : CopyInTime(c, Began)
  BY <1>2, SenderOn DEF InTime
<1>4. UNCHANGED <<now, test, rcv>> /\ \A y \in Sender : y # s => snd'[y] = snd[y]
  BY <1>1 DEF SendStarts, SendPacket, SendEnds, SetSnd
<1>5. Began' = Began
  BY <1>4 DEF Began
<1>6. CASE SendStarts(s)
  <2>1. snd[s].pc = "launched" /\ snd'[s].pc = "busy" /\ snd'[s].since = now /\ net' = net
    BY <1>1, <1>6 DEF SendStarts, SetSnd, SenderState
  <2>2. SenderInTime(s, Began)'
    BY <1>3, <1>4, <1>5, <2>1, TimesAreNumbers DEF SenderInTime
  <2>. QED  BY <1>3, <1>4, <2>1, <2>2, SenderStepInTime
<1>7. CASE SendPacket(s)
  <2>1. snd[s].pc = "busy" /\ snd'[s].pc = "busy" /\ snd'[s].since = snd[s].since
    <3>1. /\ snd[s].pc = "busy"
          /\ \/ SetSnd(s, [snd[s] EXCEPT !.n = snd[s].n + 1])
             \/ SetSnd(s, [snd[s] EXCEPT !.n = snd[s].n + 1, !.failed = @ + 1])
      BY <1>7 DEF SendPacket
    <3>2. CASE SetSnd(s, [snd[s] EXCEPT !.n = snd[s].n + 1])
      BY <1>1, <3>1, <3>2 DEF SetSnd, SenderState
    <3>3. CASE SetSnd(s, [snd[s] EXCEPT !.n = snd[s].n + 1, !.failed = @ + 1])
      BY <1>1, <3>1, <3>3 DEF SetSnd, SenderState
    <3>. QED  BY <3>1, <3>2, <3>3
  <2>2. SenderInTime(s, Began)'
    BY <1>3, <1>4, <1>5, <2>1 DEF SenderInTime
  <2>3. \A c \in net' : c \in net \/ (c.it = s[1] /\ c.by = snd[s].since + Duration + Transit)
    BY <1>7 DEF SendPacket, Copies
  <2>4. \A c \in net' : CopyInTime(c, Began)
    BY <1>3, <2>1, <2>3, TimesAreNumbers DEF SenderInTime, CopyInTime
  <2>. QED  BY <1>3, <1>4, <2>2, <2>4, SenderStepInTime
<1>8. CASE SendEnds(s)
  <2>1. snd[s].pc = "busy" /\ snd'[s].pc = "lock" /\ snd'[s].since = snd[s].since /\ net' = net
    BY <1>1, <1>8 DEF SendEnds, SetSnd, SenderState
  <2>2. SenderInTime(s, Began)'
    BY <1>3, <1>4, <1>5, <2>1, TimesAreNumbers DEF SenderInTime
  <2>. QED  BY <1>3, <1>4, <2>1, <2>2, SenderStepInTime
<1>. QED  BY <1>6, <1>7, <1>8

LEMMA ReceiversInTime ==
  ASSUME IInv, NEW r \in Receiver,
         ReceiveStarts(r) \/ ProcessPacket(r) \/ SniffEnds(r) \/ Join(r)
  PROVE  InTime'
<1>. USE DEF IInv
<1>1. rcv \in [Receiver -> ReceiverState] /\ rcv[r] \in ReceiverState
  BY ReceiverTyped DEF TypeOK
<1>2. Waiting(rcv[r])
  BY DEF ReceiveStarts, ProcessPacket, SniffEnds, Join, Waiting
<1>3. test.pc \in {"gap", "sleep"} /\ r[1] = test.it /\ ReceiverInTime(r, Began)
      /\ Began <= now
  BY <1>2, ReceiverOn, TimesAreNumbers DEF InTime
<1>4. /\ UNCHANGED <<now, test, snd, net>>
      /\ \A y \in Receiver : y # r => rcv'[y] = rcv[y]
  BY <1>1 DEF ReceiveStarts, ProcessPacket, SniffEnds, Join, SetRcv
<1>5. Began' = Began
  BY <1>4 DEF Began
<1>6. ReceiverInTime(r, Began)'
  <2>1. CASE ReceiveStarts(r)
    <3>1. rcv[r].pc = "launched" /\ rcv'[r].pc = "busy" /\ rcv'[r].since = now
      BY <1>1, <2>1 DEF ReceiveStarts, SetRcv, ReceiverState
    <3>. QED  BY <1>3, <1>4, <1>5, <3>1, TimesAreNumbers DEF ReceiverInTime
  <2>2. CASE ProcessPacket(r)
    <3>1. rcv'[r].pc = rcv[r].pc /\ rcv'[r].since = rcv[r].since
      BY <1>1, <2>2 DEF ProcessPacket, SetRcv, ReceiverState
    <3>. QED  BY <1>3, <1>4, <1>5, <3>1 DEF ReceiverInTime
  <2>3. CASE SniffEnds(r)
    <3>1. rcv[r].pc = "busy" /\ rcv'[r].pc = "join" /\ rcv'[r].since = rcv[r].since
          /\ now - rcv[r].since >= ReceiverTimeout
      BY <1>1, <2>3 DEF SniffEnds, SetRcv, ReceiverState
    <3>. QED  BY <1>3, <1>4, <1>5, <3>1, TimesAreNumbers DEF ReceiverInTime
  <2>4. CASE Join(r)
    <3>1. rcv[r].pc = "join" /\ rcv'[r].pc = "lock" /\ rcv'[r].since = rcv[r].since
      BY <1>1, <2>4 DEF Join, SetRcv, ReceiverState
    <3>. QED  BY <1>3, <1>4, <1>5, <3>1 DEF ReceiverInTime
  <2>. QED  BY <2>1, <2>2, <2>3, <2>4
<1>. QED  BY <1>3, <1>4, <1>6, ReceiverStepInTime

LEMMA DeliverInTime == ASSUME IInv, NEW c \in net, Deliver(c) PROVE InTime'
<1>. USE DEF IInv
<1>1. /\ UNCHANGED <<now, test, snd>> /\ net' \subseteq net
      /\ \A r \in Receiver : rcv'[r].pc = rcv[r].pc /\ rcv'[r].since = rcv[r].since
  BY ReceiverTyped DEF Deliver, ReceiverState
<1>2. Began' = Began /\ test.pc \in {"gap", "sleep"}
  BY <1>1, IdleBetween DEF Began, TypeOK, TestState
<1>3. \A r \in Receiver : ReceiverInTime(r, Began)'
  BY <1>1, <1>2 DEF InTime, ReceiverInTime, Waiting
<1>4. \A s \in Sender : SenderInTime(s, Began)'
  BY <1>1, <1>2 DEF InTime, SenderInTime
<1>5. \A d \in net' : CopyInTime(d, Began)'
  BY <1>1, <1>2 DEF InTime, CopyInTime
<1>6. test.pc = "gap" => net' = {}
  BY <1>1, <1>2 DEF InTime
<1>. QED  BY <1>1, <1>2, <1>3, <1>4, <1>5, <1>6 DEF InTime

LEMMA ExportInTime ==
  ASSUME IInv, NEW x \in Process, Export(x)
  PROVE  InTime'
<1>. USE DEF IInv
<1>1. /\ \A y \in Process : y # x => Pc(y)' = Pc(y)
      /\ Pc(x).pc \in {"lock", "write"}
      /\ \/ Pc(x)'.pc = "write" /\ Pc(x)'.since = Pc(x).since
         \/ Pc(x)'.pc = "done"
      /\ UNCHANGED <<now, test, net>>
  BY OpenMoves, CloseMoves DEF Export, Open, Close
<1>2. CASE x \in Sender
  <2>1. UNCHANGED rcv
    BY <1>2 DEF Export, Open, Close, Move
  <2>2. /\ \A y \in Sender : y # x => snd'[y] = snd[y]
        /\ snd[x].pc \in {"lock", "write"}
        /\ \/ snd'[x].pc = "write" /\ snd'[x].since = snd[x].since
           \/ snd'[x].pc = "done"
    BY <1>1, <1>2 DEF Pc, Process
  <2>3. test.pc = "sleep" /\ x[1] = test.it /\ SenderInTime(x, Began)
        /\ \A c \in net' : CopyInTime(c, Began)
    BY <1>1, <1>2, <2>2, SenderOn DEF Waiting, InTime
  <2>4. Began' = Began
    BY <1>1 DEF Began
  <2>5. SenderInTime(x, Began)'
    BY <1>1, <2>2, <2>3, <2>4 DEF SenderInTime
  <2>. QED  BY <1>1, <1>2, <2>1, <2>2, <2>3, <2>5, SenderStepInTime
<1>3. CASE x \in Receiver
  <2>1. UNCHANGED snd /\ x \notin Sender
    BY <1>3, ProcessesDiffer DEF Export, Open, Close, Move
  <2>2. /\ \A y \in Receiver : y # x => rcv'[y] = rcv[y]
        /\ rcv[x].pc \in {"lock", "write"}
        /\ \/ rcv'[x].pc = "write" /\ rcv'[x].since = rcv[x].since
           \/ rcv'[x].pc = "done"
    BY <1>1, <1>3, ProcessesDiffer DEF Pc, Process
  <2>3. test.pc \in {"gap", "sleep"} /\ x[1] = test.it /\ ReceiverInTime(x, Began)
    BY <1>3, <2>2, ReceiverOn DEF Waiting
  <2>4. Began' = Began
    BY <1>1 DEF Began
  <2>5. ReceiverInTime(x, Began)'
    BY <1>1, <2>2, <2>3, <2>4 DEF ReceiverInTime
  <2>. QED  BY <1>1, <1>3, <2>1, <2>2, <2>3, <2>5, ReceiverStepInTime
<1>. QED  BY <1>2, <1>3 DEF Process

LEMMA NextInTime == IInv /\ [Next]_vars => InTime'
<1>. SUFFICES ASSUME IInv, [Next]_vars PROVE InTime'
  OBVIOUS
<1>1. CASE UNCHANGED vars
  BY <1>1 DEF IInv, vars, InTime, Ended, Pc, Began, ReceiverInTime, SenderInTime, CopyInTime
<1>. QED  BY <1>1, TickInTime, TestInTime, SendersInTime, ReceiversInTime, DeliverInTime,
             ExportInTime DEF Next

LEMMA InitIInv == Init => IInv
<1>. SUFFICES ASSUME Init PROVE IInv
  OBVIOUS
<1>1. TypeOK
  BY InitTyped
<1>2. \A x \in Process : Pc(x).pc = "off"
  BY ProcessesDiffer DEF Init, Pc, Process, NewSender, NewReceiver
<1>3. OneWriter
  BY <1>2, ProcessesDiffer DEF Init, OneWriter
<1>4. HeaderFirst(file.rows) /\ (~file.exists => file.rows = << >>)
      /\ (file.exists => file.rows # << >>)
  <2>1. CASE file \in Earlier
    BY <2>1, EarlierFilesComplete
  <2>2. CASE file = Absent
    BY <2>2 DEF Absent, HeaderFirst
  <2>. QED  BY <2>1, <2>2 DEF Init
<1>5. FileAsFound
  BY <1>2, <1>4 DEF FileAsFound
<1>6. InTime
  BY <1>2 DEF Init, InTime, Ended, Waiting
<1>. QED  BY <1>1, <1>3, <1>5, <1>6 DEF IInv

-----------------------------------------------------------------------------
(* What a thread works out: the highest number so far, and the metrics.    *)

(* Induction on the natural numbers, over a set. *)
LEMMA LeastNatural ==
  ASSUME NEW S \in SUBSET Nat, S # {}
  PROVE  \E m \in S : \A k \in S : m <= k
<1> DEFINE L == OpToRel(<, Nat)
<1>1. \A y, m \in Nat : y < m => <<y, m>> \in L
  BY SMT DEF OpToRel
<1>2. IsWellFoundedOn(L, Nat)
  BY NatLessThanWellFounded
<1> HIDE DEF L
<1>3. PICK m \in S : \A y \in S : ~ (<<y, m>> \in L)
  BY <1>2, WFMin
<1>4. ASSUME NEW k \in S PROVE m <= k
  <2>1. k \in Nat /\ m \in Nat
    OBVIOUS
  <2>2. ~ (k < m)
    BY <1>3, <1>1, <2>1, Zenon
  <2> QED BY <2>1, <2>2
<1> QED BY <1>4

(* A number is out of order exactly if a higher one came before it. *)
LEMMA OutOfOrderMeans ==
  ASSUME NEW seqs \in Seq(Nat)
  PROVE  OutOfOrder(seqs) =
           {i \in 1 .. Len(seqs) : \E j \in 1 .. Len(seqs) : j < i /\ seqs[j] > seqs[i]}
<1>. DEFINE n == Len(seqs)
            Step(i, v) == IF i = 0 THEN 0 ELSE IF seqs[i] < v THEN v ELSE seqs[i]
            Solves(g, m) == g = [i \in 0 .. m |-> Step(i, g[i-1])]
            h == Highest(seqs)
<1>1. n \in Nat /\ DOMAIN seqs = 1 .. n /\ \A i \in 1 .. n : seqs[i] \in Nat
  OBVIOUS
<1>2. \A m \in 0 .. n : \E g : Solves(g, m)
  <2>. DEFINE Wrong == {m \in 0 .. n : ~ \E g : Solves(g, m)}
  <2>1. SUFFICES ASSUME Wrong # {} PROVE FALSE
    OBVIOUS
  <2>2. Wrong \subseteq Nat
    OBVIOUS
  <2>3. PICK m \in Wrong : \A k \in Wrong : m <= k
    BY <2>1, <2>2, LeastNatural
  <2>4. m \in 0 .. n /\ ~ \E g : Solves(g, m)
    OBVIOUS
  <2>5. CASE m = 0
    <3>. DEFINE g == [i \in 0 .. 0 |-> 0]
    <3>1. Solves(g, 0)
      OBVIOUS
    <3>. QED  BY <2>4, <2>5, <3>1
  <2>6. CASE m # 0
    <3>1. m - 1 \in 0 .. n
      BY <1>1, <2>4, <2>6
    <3>2. m - 1 \notin Wrong
      <4>. HIDE DEF Wrong
      <4>. QED  BY <1>1, <2>3, <2>4
    <3>3. PICK g : Solves(g, m - 1)
      BY <3>1, <3>2
    <3>. DEFINE f == [i \in 0 .. m |-> IF i = m THEN Step(m, g[m-1]) ELSE g[i]]
    <3>4. ASSUME NEW i \in 0 .. m
          PROVE  f[i] = Step(i, f[i-1])
      <4>. HIDE DEF Step
      <4>1. CASE i = m
        BY <2>4, <2>6, <4>1
      <4>2. CASE i # m
        <5>1. i \in 0 .. m - 1 /\ f[i] = g[i] /\ (i # 0 => f[i-1] = g[i-1])
          BY <2>4, <4>2
        <5>2. g[i] = Step(i, g[i-1])
          BY <3>3, <5>1
        <5>3. i = 0 => Step(i, g[i-1]) = Step(i, f[i-1])
          BY DEF Step
        <5>. HIDE DEF f
        <5>. QED  BY <5>1, <5>2, <5>3
      <4>. QED  BY <4>1, <4>2
    <3>5. f = [i \in 0 .. m |-> f[i]]
      OBVIOUS
    <3>. HIDE DEF f, Step
    <3>6. Solves(f, m)
      BY <3>4, <3>5
    <3>. QED  BY <2>4, <3>6
  <2>. QED  BY <2>5, <2>6
<1>3. h = CHOOSE g : Solves(g, n)
  BY DEF Highest
<1>4. Solves(h, n)
  <2>. HIDE DEF Solves, h, n
  <2>1. \E g : Solves(g, n)
    BY <1>1, <1>2
  <2>. QED  BY <1>3, <2>1
<1>. HIDE DEF h
<1>5. h[0] = 0 /\ \A i \in 1 .. n : h[i] = IF seqs[i] < h[i-1] THEN h[i-1] ELSE seqs[i]
  <2>1. \A i \in 0 .. n : h[i] = Step(i, h[i-1])
    <3>. HIDE DEF Step, n
    <3>. QED  BY <1>4
  <2>2. 0 \in 0 .. n /\ \A i \in 1 .. n : i \in 0 .. n /\ i # 0
    BY <1>1
  <2>. HIDE DEF n
  <2>. QED  BY <2>1, <2>2
<1>6. \A i \in 0 .. n :
        /\ h[i] \in Nat /\ \A j \in 1 .. i : seqs[j] <= h[i]
        /\ h[i] # 0 => \E j \in 1 .. i : seqs[j] = h[i]
  <2>. DEFINE P(i) == /\ h[i] \in Nat /\ \A j \in 1 .. i : seqs[j] <= h[i]
                      /\ h[i] # 0 => \E j \in 1 .. i : seqs[j] = h[i]
              Wrong == {i \in 0 .. n : ~ P(i)}
  <2>1. SUFFICES ASSUME Wrong # {} PROVE FALSE
    OBVIOUS
  <2>2. Wrong \subseteq Nat
    OBVIOUS
  <2>3. PICK m \in Wrong : \A k \in Wrong : m <= k
    BY <2>1, <2>2, LeastNatural
  <2>4. m \in 0 .. n /\ ~ P(m)
    OBVIOUS
  <2>5. P(0)
    BY <1>5
  <2>6. m \in 1 .. n /\ m - 1 \in 0 .. n /\ m - 1 \notin Wrong
    <3>. HIDE DEF Wrong, P
    <3>. QED  BY <1>1, <2>3, <2>4, <2>5
  <2>7. P(m - 1)
    BY <2>6
  <2>8. h[m] = IF seqs[m] < h[m-1] THEN h[m-1] ELSE seqs[m]
    BY <1>5, <2>6
  <2>9. 1 .. m = (1 .. m - 1) \cup {m} /\ seqs[m] \in Nat
    BY <1>1, <2>6
  <2>10. P(m)
    <3>1. \A j \in 1 .. m - 1 : seqs[j] \in Nat
      BY <1>1, <2>6
    <3>. QED  BY <2>7, <2>8, <2>9, <3>1
  <2>. QED  BY <2>4, <2>10
<1>7. ASSUME NEW i \in 1 .. n
      PROVE  seqs[i] < h[i-1] <=> \E j \in 1 .. n : j < i /\ seqs[j] > seqs[i]
  <2>1. /\ h[i-1] \in Nat /\ \A j \in 1 .. i - 1 : seqs[j] <= h[i-1]
        /\ h[i-1] # 0 => \E j \in 1 .. i - 1 : seqs[j] = h[i-1]
    <3>1. i - 1 \in 0 .. n
      BY <1>1
    <3>. QED  BY <1>6, <3>1
  <2>2. \A j \in 1 .. n : j < i <=> j \in 1 .. i - 1
    BY <1>1
  <2>3. 1 .. i - 1 \subseteq 1 .. n
    BY <1>1
  <2>. QED  BY <1>1, <2>1, <2>2, <2>3
<1>. QED  BY <1>1, <1>7 DEF OutOfOrder, h

(* What is known of the packets heard stays true when more are heard. *)
LEMMA TellsPrefix ==
  ASSUME NEW m \in Seq(Metrics), NEW h, NEW g, NEW k \in Nat,
         \A p \in 1 .. k : g[p] = h[p], Tells(m, h, k)
  PROVE  Tells(m, g, k)
<1>1. ASSUME NEW x \in 1 .. Len(m)
      PROVE  \E b \in [1 .. Len(m[x].seqs) -> 1 .. k] : Lists(b, g, k, m[x].flow, m[x].seqs)
  <2>1. PICK b \in [1 .. Len(m[x].seqs) -> 1 .. k] : Lists(b, h, k, m[x].flow, m[x].seqs)
    BY DEF Tells
  <2>2. \A i \in 1 .. Len(m[x].seqs) : b[i] \in 1 .. k /\ g[b[i]] = h[b[i]]
    OBVIOUS
  <2>3. Lists(b, g, k, m[x].flow, m[x].seqs)
    BY <2>1, <2>2 DEF Lists
  <2>. QED  BY <2>3
<1>2. \A p \in 1 .. k : \E x \in 1 .. Len(m) : m[x].flow = g[p].flow
  BY DEF Tells
<1>3. \A x, y \in 1 .. Len(m) : m[x].flow = m[y].flow => x = y
  BY DEF Tells
<1>4. \A x \in 1 .. Len(m) : m[x].num = Len(m[x].seqs) /\ m[x].num > 0
  BY DEF Tells
<1>. QED  BY <1>1, <1>2, <1>3, <1>4 DEF Tells

(* The next packet is of another flow, or of this one. *)
LEMMA ListsOther ==
  ASSUME NEW h, NEW k \in Nat, NEW f, NEW seqs \in Seq(Nat), h[k+1].flow # f,
         NEW b \in [1 .. Len(seqs) -> 1 .. k], Lists(b, h, k, f, seqs)
  PROVE  b \in [1 .. Len(seqs) -> 1 .. k+1] /\ Lists(b, h, k + 1, f, seqs)
<1>1. b \in [1 .. Len(seqs) -> 1 .. k+1]
  OBVIOUS
<1>2. \A p \in 1 .. k+1 : p \in 1 .. k \/ p = k + 1
  OBVIOUS
<1>. QED  BY <1>1, <1>2 DEF Lists

LEMMA ListsNext ==
  ASSUME NEW h, NEW k \in Nat, NEW f, NEW seqs \in Seq(Nat), h[k+1].flow = f,
         h[k+1].seq \in Nat,
         NEW b \in [1 .. Len(seqs) -> 1 .. k], Lists(b, h, k, f, seqs)
  PROVE  LET more == Append(seqs, h[k+1].seq)
         IN  \E c \in [1 .. Len(more) -> 1 .. k+1] : Lists(c, h, k + 1, f, more)
<1>. DEFINE n == Len(seqs)
            more == Append(seqs, h[k+1].seq)
            c == [i \in 1 .. n + 1 |-> IF i = n + 1 THEN k + 1 ELSE b[i]]
<1>1. /\ n \in Nat /\ Len(more) = n + 1 /\ more[n+1] = h[k+1].seq
      /\ \A i \in 1 .. n : more[i] = seqs[i]
  OBVIOUS
<1>2. \A i \in 1 .. n + 1 : i \in 1 .. n \/ i = n + 1
  BY <1>1
<1>3. c[n+1] = k + 1 /\ \A i \in 1 .. n : c[i] = b[i] /\ b[i] \in 1 .. k
  <2>1. n + 1 \in 1 .. n + 1 /\ \A i \in 1 .. n : i \in 1 .. n + 1 /\ i # n + 1
    BY <1>1
  <2>. QED  BY <2>1
<1>4. c \in [1 .. n + 1 -> 1 .. k + 1]
  BY <1>1
<1>. HIDE DEF n, c, more
<1>5. /\ \A i, j \in 1 .. n : i < j => b[i] < b[j]
      /\ \A i \in 1 .. n : h[b[i]].flow = f /\ h[b[i]].seq = seqs[i]
      /\ \A p \in 1 .. k : h[p].flow = f => \E i \in 1 .. n : b[i] = p
  BY DEF Lists, n
<1>6. \A i, j \in 1 .. n + 1 : i < j => c[i] < c[j]
  <2>. SUFFICES ASSUME NEW i \in 1 .. n + 1, NEW j \in 1 .. n + 1, i < j
                PROVE  c[i] < c[j]
    OBVIOUS
  <2>1. i \in 1 .. n
    BY <1>1
  <2>2. CASE j = n + 1
    BY <1>3, <2>1, <2>2
  <2>3. CASE j \in 1 .. n
    BY <1>3, <1>5, <2>1, <2>3
  <2>. QED  BY <1>2, <2>2, <2>3
<1>7. \A i \in 1 .. n + 1 : h[c[i]].flow = f /\ h[c[i]].seq = more[i]
  BY <1>1, <1>2, <1>3, <1>5
<1>8. \A p \in 1 .. k + 1 : h[p].flow = f => \E i \in 1 .. n + 1 : c[i] = p
  <2>. SUFFICES ASSUME NEW p \in 1 .. k + 1, h[p].flow = f
                PROVE  \E i \in 1 .. n + 1 : c[i] = p
    OBVIOUS
  <2>1. CASE p = k + 1
    <3>1. n + 1 \in 1 .. n + 1
      BY <1>1
    <3>. QED  BY <1>3, <2>1, <3>1
  <2>2. CASE p \in 1 .. k
    <3>1. PICK i \in 1 .. n : b[i] = p
      BY <1>5, <2>2
    <3>2. i \in 1 .. n + 1
      BY <1>1
    <3>. QED  BY <1>3, <3>1, <3>2
  <2>. QED  BY <2>1, <2>2
<1>9. Lists(c, h, k + 1, f, more)
  BY <1>1, <1>6, <1>7, <1>8 DEF Lists
<1>. QED  BY <1>1, <1>4, <1>9 DEF more

(* process_packet adds the next packet to the metrics. *)
LEMMA CountedTells ==
  ASSUME NEW m \in Seq(Metrics), NEW h \in Seq(Number), NEW k \in Nat, k < Len(h),
         Tells(m, h, k)
  PROVE  Tells(Counted(m, h[k+1]), h, k + 1)
<1>. DEFINE p == h[k+1]
            i == {x \in DOMAIN m : m[x].flow = p.flow}
            new == [flow |-> p.flow, num |-> 1, seqs |-> <<p.seq>>]
            Changed(x) == [m[x] EXCEPT !.num = @ + 1, !.seqs = Append(@, p.seq)]
            m2 == Counted(m, p)
<1>1. p \in Number /\ p.flow \in Flow /\ p.seq \in Nat
  <2>1. k + 1 \in 1 .. Len(h)
    OBVIOUS
  <2>2. h[k+1] \in Number
    BY <2>1
  <2>. QED  BY <2>2 DEF Number
<1>2. /\ \A x, y \in 1 .. Len(m) : m[x].flow = m[y].flow => x = y
      /\ \A q \in 1 .. k : \E x \in 1 .. Len(m) : m[x].flow = h[q].flow
      /\ \A x \in 1 .. Len(m) :
           /\ m[x].num = Len(m[x].seqs) /\ m[x].num > 0
           /\ \E b \in [1 .. Len(m[x].seqs) -> 1 .. k] : Lists(b, h, k, m[x].flow, m[x].seqs)
  BY DEF Tells
<1>3. \A q \in 1 .. k + 1 : q \in 1 .. k \/ q = k + 1
  OBVIOUS
<1>4. Len(m) \in Nat /\ DOMAIN m = 1 .. Len(m)
      /\ \A x \in 1 .. Len(m) : m[x] \in Metrics /\ m[x].seqs \in Seq(Nat) /\ m[x].num \in Nat
  <2>1. Len(m) \in Nat /\ DOMAIN m = 1 .. Len(m) /\ \A x \in 1 .. Len(m) : m[x] \in Metrics
    OBVIOUS
  <2>. QED  BY <2>1 DEF Metrics
(* A flow that the packet is not of keeps its metrics. *)
<1>5. ASSUME NEW x \in 1 .. Len(m), x \notin i
      PROVE  \E b \in [1 .. Len(m[x].seqs) -> 1 .. k + 1] :
               Lists(b, h, k + 1, m[x].flow, m[x].seqs)
  <2>1. PICK b \in [1 .. Len(m[x].seqs) -> 1 .. k] : Lists(b, h, k, m[x].flow, m[x].seqs)
    BY <1>2
  <2>2. h[k+1].flow # m[x].flow
    BY <1>4, <1>5
  <2>. QED  BY <1>4, <2>1, <2>2, ListsOther
<1>6. m2 = IF i = {} THEN Append(m, new)
                     ELSE [x \in DOMAIN m |-> IF x \in i THEN Changed(x) ELSE m[x]]
  BY DEF Counted
<1>7. CASE i = {}
  <2>1. /\ m2 = Append(m, new) /\ Len(m2) = Len(m) + 1 /\ m2[Len(m)+1] = new
        /\ \A x \in 1 .. Len(m) : m2[x] = m[x]
    <3>. HIDE DEF m2, i, new
    <3>. QED  BY <1>6, <1>7
  <2>2. \A x \in 1 .. Len(m) : m[x].flow # p.flow
    BY <1>4, <1>7
  <2>3. \A x \in 1 .. Len(m2) : x \in 1 .. Len(m) \/ x = Len(m) + 1
    BY <1>4, <2>1
  <2>4. Len(m) + 1 \in 1 .. Len(m2) /\ 1 .. Len(m) \subseteq 1 .. Len(m2)
    BY <1>4, <2>1
  <2>5. new.flow = p.flow /\ new.num = 1 /\ new.seqs = <<p.seq>>
    OBVIOUS
  <2>. HIDE DEF m2, new, i
  <2>6. \A x, y \in 1 .. Len(m2) : m2[x].flow = m2[y].flow => x = y
    BY <1>2, <2>1, <2>2, <2>3, <2>5
  <2>7. \A q \in 1 .. k + 1 : \E x \in 1 .. Len(m2) : m2[x].flow = h[q].flow
    BY <1>2, <1>3, <2>1, <2>4, <2>5
  <2>8. ASSUME NEW x \in 1 .. Len(m)
        PROVE  /\ m2[x].num = Len(m2[x].seqs) /\ m2[x].num > 0
               /\ \E b \in [1 .. Len(m2[x].seqs) -> 1 .. k + 1] :
                    Lists(b, h, k + 1, m2[x].flow, m2[x].seqs)
    BY <1>2, <1>5, <1>7, <2>1
  <2>9. /\ new.num = Len(new.seqs) /\ new.num > 0
        /\ \E b \in [1 .. Len(new.seqs) -> 1 .. k + 1] :
             Lists(b, h, k + 1, new.flow, new.seqs)
    <3>. DEFINE b == [j \in 1 .. 1 |-> k + 1]
    <3>1. Len(new.seqs) = 1 /\ new.seqs[1] = p.seq
      BY <2>5
    <3>2. b \in [1 .. Len(new.seqs) -> 1 .. k + 1] /\ b[1] = k + 1
      BY <3>1
    <3>. HIDE DEF b
    <3>3. \A q \in 1 .. k : h[q].flow # p.flow
      BY <1>2, <2>2
    <3>4. Lists(b, h, k + 1, new.flow, new.seqs)
      <4>1. \A j \in 1 .. Len(new.seqs) : j = 1
        BY <3>1
      <4>2. \A u, v \in 1 .. Len(new.seqs) : u < v => b[u] < b[v]
        BY <3>1
      <4>3. \A j \in 1 .. Len(new.seqs) : h[b[j]].flow = new.flow /\ h[b[j]].seq = new.seqs[j]
        BY <2>5, <3>1, <3>2, <4>1
      <4>4. \A q \in 1 .. k + 1 : h[q].flow = new.flow => \E j \in 1 .. Len(new.seqs) : b[j] = q
        <5>1. 1 \in 1 .. Len(new.seqs)
          BY <3>1
        <5>. QED  BY <1>3, <2>5, <3>2, <3>3, <5>1
      <4>. QED  BY <4>2, <4>3, <4>4 DEF Lists
    <3>. QED  BY <2>5, <3>1, <3>2, <3>4
  <2>10. \A x \in 1 .. Len(m2) :
           /\ m2[x].num = Len(m2[x].seqs) /\ m2[x].num > 0
           /\ \E b \in [1 .. Len(m2[x].seqs) -> 1 .. k + 1] :
                Lists(b, h, k + 1, m2[x].flow, m2[x].seqs)
    BY <2>1, <2>3, <2>8, <2>9
  <2>. QED  BY <2>6, <2>7, <2>10 DEF Tells, m2
<1>8. CASE i # {}
  <2>1. m2 = [x \in 1 .. Len(m) |-> IF x \in i THEN Changed(x) ELSE m[x]]
    BY <1>4, <1>6, <1>8
  <2>2. Len(m2) = Len(m) /\ \A x \in 1 .. Len(m) : m2[x] = IF x \in i THEN Changed(x) ELSE m[x]
    <3>. HIDE DEF m2, i, Changed
    <3>. QED  BY <1>4, <2>1
  <2>3. \A x \in 1 .. Len(m) : /\ Changed(x).flow = m[x].flow
                               /\ Changed(x).num = m[x].num + 1
                               /\ Changed(x).seqs = Append(m[x].seqs, p.seq)
    BY <1>4 DEF Metrics
  <2>. HIDE DEF m2, Changed
  <2>4. \A x \in 1 .. Len(m) : m2[x].flow = m[x].flow
    BY <2>2, <2>3
  <2>5. \A x, y \in 1 .. Len(m2) : m2[x].flow = m2[y].flow => x = y
    BY <1>2, <2>2, <2>4
  <2>6. \A q \in 1 .. k + 1 : \E x \in 1 .. Len(m2) : m2[x].flow = h[q].flow
    <3>1. \E x \in 1 .. Len(m) : m[x].flow = p.flow
      BY <1>4, <1>8
    <3>. QED  BY <1>2, <1>3, <2>2, <2>4, <3>1
  <2>7. ASSUME NEW x \in 1 .. Len(m)
        PROVE  /\ m2[x].num = Len(m2[x].seqs) /\ m2[x].num > 0
               /\ \E b \in [1 .. Len(m2[x].seqs) -> 1 .. k + 1] :
                    Lists(b, h, k + 1, m2[x].flow, m2[x].seqs)
    <3>1. CASE x \notin i
      BY <1>2, <1>5, <2>2, <3>1
    <3>2. CASE x \in i
      <4>1. m2[x].flow = m[x].flow /\ m2[x].num = m[x].num + 1
            /\ m2[x].seqs = Append(m[x].seqs, p.seq)
        BY <2>2, <2>3, <3>2
      <4>2. m[x].flow = h[k+1].flow
        BY <3>2
      <4>3. PICK b \in [1 .. Len(m[x].seqs) -> 1 .. k] : Lists(b, h, k, m[x].flow, m[x].seqs)
        BY <1>2
      <4>4. \E c \in [1 .. Len(m2[x].seqs) -> 1 .. k + 1] :
              Lists(c, h, k + 1, m2[x].flow, m2[x].seqs)
        BY <1>1, <1>4, <4>1, <4>2, <4>3, ListsNext
      <4>5. Len(m2[x].seqs) = Len(m[x].seqs) + 1
        BY <1>1, <1>4, <4>1
      <4>. QED  BY <1>2, <1>4, <4>1, <4>4, <4>5
    <3>. QED  BY <3>1, <3>2
  <2>. QED  BY <2>2, <2>5, <2>6, <2>7 DEF Tells, m2
<1>. QED  BY <1>7, <1>8

-----------------------------------------------------------------------------
(* The thread keeps its place behind the sniffer. *)

LEMMA NewIsBehind == ASSUME NEW v, v.queue = << >>, v.flows = << >>, v.heard = << >>
                     PROVE  ThreadBehind(v)
<1>1. Tells(<< >>, << >>, 0)
  BY DEF Tells
<1>. QED  BY <1>1 DEF ThreadBehind

(* Only the place in the program changes, and the export comes last. *)
LEMMA SameIsBehind ==
  ASSUME NEW v, NEW w, ThreadBehind(v),
         w.queue = v.queue, w.flows = v.flows, w.heard = v.heard,
         w.pc \in {"lock", "write", "done"} =>
           v.pc \in {"lock", "write", "done"} \/ v.queue = << >>
  PROVE  ThreadBehind(w)
BY DEF ThreadBehind

LEMMA HeardIsBehind ==
  ASSUME NEW v \in ReceiverState, ThreadBehind(v), NEW p \in Number, v.pc = "busy"
  PROVE  ThreadBehind([v EXCEPT !.queue = Append(@, p), !.heard = Append(@, p)])
<1>. DEFINE q == v.queue
            h == v.heard
            q2 == Append(v.queue, p)
            h2 == Append(v.heard, p)
            w == [v EXCEPT !.queue = Append(@, p), !.heard = Append(@, p)]
            k == Len(h) - Len(q)
<1>1. q \in Seq(Number) /\ h \in Seq(Number) /\ v.flows \in Seq(Metrics)
  BY DEF ReceiverState
<1>2. w.queue = q2 /\ w.heard = h2 /\ w.flows = v.flows /\ w.pc = "busy"
  BY DEF ReceiverState
<1>3. /\ Len(q2) = Len(q) + 1 /\ q2[Len(q)+1] = p
      /\ Len(h2) = Len(h) + 1 /\ h2[Len(h)+1] = p
      /\ \A j \in 1 .. Len(q) : q2[j] = q[j]
      /\ \A j \in 1 .. Len(h) : h2[j] = h[j]
  BY <1>1
<1>4. /\ Len(q) <= Len(h) /\ \A j \in 1 .. Len(q) : q[j] = h[k + j]
      /\ Tells(v.flows, h, k)
  BY DEF ThreadBehind
<1>5. k \in Nat /\ Len(q) \in Nat /\ Len(h) \in Nat /\ Len(h2) - Len(q2) = k
  BY <1>1, <1>3, <1>4
<1>. HIDE DEF w, q, h, q2, h2
<1>6. \A j \in 1 .. Len(q2) : q2[j] = h2[k + j]
  <2>. SUFFICES ASSUME NEW j \in 1 .. Len(q2) PROVE q2[j] = h2[k + j]
    OBVIOUS
  <2>1. CASE j = Len(q) + 1
    <3>1. k + j = Len(h) + 1
      BY <1>5, <2>1
    <3>. QED  BY <1>3, <2>1, <3>1
  <2>2. CASE j # Len(q) + 1
    <3>1. j \in 1 .. Len(q) /\ k + j \in 1 .. Len(h)
      BY <1>3, <1>5, <2>2
    <3>2. q2[j] = q[j] /\ h2[k + j] = h[k + j] /\ q[j] = h[k + j]
      BY <1>3, <1>4, <3>1
    <3>. QED  BY <3>2
  <2>. QED  BY <2>1, <2>2
<1>7. \A j \in 1 .. k : h2[j] = h[j]
  BY <1>3, <1>5
<1>8. Tells(v.flows, h2, k)
  BY <1>1, <1>4, <1>5, <1>7, TellsPrefix
<1>9. Len(q2) <= Len(h2)
  BY <1>3, <1>4, <1>5
<1>. HIDE DEF k
<1>10. ThreadBehind(w)
  BY <1>2, <1>5, <1>6, <1>8, <1>9 DEF ThreadBehind
<1>. QED  BY <1>10 DEF w

LEMMA CountedIsBehind ==
  ASSUME NEW v \in ReceiverState, ThreadBehind(v), v.pc \in {"busy", "join"},
         v.queue # << >>
  PROVE  ThreadBehind([v EXCEPT !.queue = Tail(@), !.flows = Counted(@, Head(v.queue))])
<1>. DEFINE q == v.queue
            h == v.heard
            w == [v EXCEPT !.queue = Tail(@), !.flows = Counted(@, Head(v.queue))]
            k == Len(h) - Len(q)
<1>1. q \in Seq(Number) /\ h \in Seq(Number) /\ v.flows \in Seq(Metrics) /\ q # << >>
  BY DEF ReceiverState
<1>2. w.queue = Tail(q) /\ w.heard = h /\ w.flows = Counted(v.flows, Head(q))
      /\ w.pc = v.pc
  BY DEF ReceiverState
<1>3. /\ Len(q) \in Nat \ {0} /\ Len(h) \in Nat
      /\ Len(Tail(q)) = Len(q) - 1 /\ Head(q) = q[1]
      /\ \A j \in 1 .. Len(q) - 1 : Tail(q)[j] = q[j+1]
  BY <1>1
<1>4. /\ Len(q) <= Len(h) /\ \A j \in 1 .. Len(q) : q[j] = h[k + j]
      /\ Tells(v.flows, h, k)
  BY DEF ThreadBehind
<1>. HIDE DEF w, q, h
<1>5. k \in Nat /\ k < Len(h) /\ Len(h) - Len(Tail(q)) = k + 1
  BY <1>3, <1>4
<1>6. Head(q) = h[k+1]
  BY <1>3, <1>4
<1>7. Tells(Counted(v.flows, h[k+1]), h, k + 1)
  BY <1>1, <1>4, <1>5, CountedTells
<1>8. \A j \in 1 .. Len(Tail(q)) : Tail(q)[j] = h[k + 1 + j]
  <2>. SUFFICES ASSUME NEW j \in 1 .. Len(q) - 1 PROVE Tail(q)[j] = h[k + 1 + j]
    BY <1>3
  <2>1. j + 1 \in 1 .. Len(q) /\ k + (j + 1) = k + 1 + j
    BY <1>3, <1>5
  <2>. QED  BY <1>3, <1>4, <2>1
<1>9. Len(Tail(q)) <= Len(h)
  BY <1>3, <1>4
<1>. HIDE DEF k
<1>10. ThreadBehind(w)
  BY <1>2, <1>5, <1>6, <1>7, <1>8, <1>9 DEF ThreadBehind
<1>. QED  BY <1>10 DEF w, q

(* Opening and closing the file changes no metrics. *)
LEMMA ExportKeepsMetrics ==
  ASSUME TypeOK, NEW x \in Process, Export(x), NEW r \in Receiver
  PROVE  /\ rcv'[r].queue = rcv[r].queue /\ rcv'[r].flows = rcv[r].flows
         /\ rcv'[r].heard = rcv[r].heard
         /\ rcv'[r].pc = rcv[r].pc \/ (rcv[r].pc = "lock" /\ rcv'[r].pc = "write")
                                   \/ (rcv[r].pc = "write" /\ rcv'[r].pc = "done")
<1>1. rcv[r] \in ReceiverState /\ rcv \in [Receiver -> ReceiverState]
  BY ReceiverTyped DEF TypeOK
<1>2. CASE x \in Sender
  BY <1>1, <1>2 DEF Export, Open, Close, Move
<1>3. CASE x \in Receiver
  <2>1. x \notin Sender
    BY <1>3, ProcessesDiffer
  <2>2. \/ /\ rcv[x].pc = "lock"
           /\ rcv' = [rcv EXCEPT ![x] = [rcv[x] EXCEPT !.pc = "write", !.new = ~file.exists]]
        \/ /\ rcv[x].pc = "write"
           /\ rcv' = [rcv EXCEPT ![x] = [rcv[x] EXCEPT !.pc = "done", !.since = 0]]
    BY <2>1 DEF Export, Open, Close, Move, SetRcv, Pc
  <2>3. CASE r # x
    <3>1. rcv'[r] = rcv[r]
      BY <1>1, <2>2, <2>3
    <3>. QED  BY <3>1
  <2>4. CASE r = x
    <3>1. \/ /\ rcv[r].pc = "lock"
             /\ rcv'[r] = [rcv[r] EXCEPT !.pc = "write", !.new = ~file.exists]
          \/ /\ rcv[r].pc = "write"
             /\ rcv'[r] = [rcv[r] EXCEPT !.pc = "done", !.since = 0]
      BY <1>1, <2>2, <2>4
    <3>. QED  BY <1>1, <3>1 DEF ReceiverState
  <2>. QED  BY <2>3, <2>4
<1>. QED  BY <1>2, <1>3 DEF Process

LEMMA ThreadsGoOn ==
  ASSUME TypeOK, \A r \in Receiver : ThreadBehind(rcv[r]), [Next]_vars
  PROVE  \A r \in Receiver : ThreadBehind(rcv'[r])
<1>0. ThreadBehind(NewReceiver)
  BY NewIsBehind DEF NewReceiver
<1>1. ASSUME rcv' = rcv PROVE \A r \in Receiver : ThreadBehind(rcv'[r])
  BY <1>1
<1>2. CASE Tick \/ StartFlows \/ EndIteration \/ UNCHANGED vars
           \/ \E s \in Sender : SendStarts(s) \/ SendPacket(s) \/ SendEnds(s)
  BY <1>1, <1>2 DEF Tick, StartFlows, EndIteration, vars, SendStarts, SendPacket, SendEnds
<1>3. CASE StartTest
  BY <1>0, <1>3 DEF StartTest
<1>4. CASE StartIteration
  <2>. DEFINE w == [NewReceiver EXCEPT !.pc = "launched", !.since = now]
  <2>1. w.queue = << >> /\ w.flows = << >> /\ w.heard = << >>
    BY DEF NewReceiver
  <2>2. \A r \in Receiver : rcv'[r] = w \/ rcv'[r] = rcv[r]
    BY <1>4 DEF StartIteration, LaunchReceivers
  <2>. HIDE DEF w
  <2>3. ThreadBehind(w)
    BY <2>1, NewIsBehind
  <2>. QED  BY <2>2, <2>3
<1>5. ASSUME NEW c \in net, Deliver(c)
      PROVE  \A r \in Receiver : ThreadBehind(rcv'[r])
  <2>. DEFINE p == [flow |-> c.flow, seq |-> c.seq]
  <2>1. p \in Number
    BY DEF TypeOK, Number
  <2>2. \A r \in Receiver : rcv'[r] = IF r[2] = c.to /\ rcv[r].pc = "busy"
          THEN [rcv[r] EXCEPT !.queue = Append(@, p), !.heard = Append(@, p)]
          ELSE rcv[r]
    BY <1>5 DEF Deliver
  <2>. HIDE DEF p
  <2>3. ASSUME NEW r \in Receiver, rcv[r].pc = "busy"
        PROVE  ThreadBehind([rcv[r] EXCEPT !.queue = Append(@, p), !.heard = Append(@, p)])
    <3>1. rcv[r] \in ReceiverState /\ ThreadBehind(rcv[r])
      BY ReceiverTyped
    <3>. QED  BY <2>1, <2>3, <3>1, HeardIsBehind
  <2>. QED  BY <2>2, <2>3
<1>6. ASSUME NEW y \in Receiver,
             ReceiveStarts(y) \/ ProcessPacket(y) \/ SniffEnds(y) \/ Join(y)
      PROVE  \A r \in Receiver : ThreadBehind(rcv'[r])
  <2>1. rcv \in [Receiver -> ReceiverState] /\ rcv[y] \in ReceiverState
        /\ \A r \in Receiver : r # y => rcv'[r] = rcv[r]
    BY <1>6, ReceiverTyped DEF TypeOK, ReceiveStarts, ProcessPacket, SniffEnds, Join, SetRcv
  <2>2. CASE ProcessPacket(y)
    <3>1. rcv'[y] = [rcv[y] EXCEPT !.queue = Tail(@), !.flows = Counted(@, Head(rcv[y].queue))]
          /\ rcv[y].pc \in {"busy", "join"} /\ rcv[y].queue # << >>
      BY <2>1, <2>2 DEF ProcessPacket, SetRcv
    <3>2. ThreadBehind(rcv'[y])
      BY <2>1, <3>1, CountedIsBehind
    <3>. QED  BY <2>1, <3>2
  <2>3. CASE ReceiveStarts(y) \/ SniffEnds(y) \/ Join(y)
    <3>1. /\ rcv'[y].queue = rcv[y].queue /\ rcv'[y].flows = rcv[y].flows
          /\ rcv'[y].heard = rcv[y].heard
          /\ rcv'[y].pc \in {"lock", "write", "done"} => rcv[y].queue = << >>
      <4>1. \/ rcv'[y] = [rcv[y] EXCEPT !.pc = "busy", !.since = now]
            \/ rcv'[y] = [rcv[y] EXCEPT !.pc = "join"]
            \/ rcv'[y] = [rcv[y] EXCEPT !.pc = "lock"] /\ rcv[y].queue = << >>
        BY <2>1, <2>3 DEF ReceiveStarts, SniffEnds, Join, SetRcv
      <4>. QED  BY <2>1, <4>1 DEF ReceiverState
    <3>2. ThreadBehind(rcv'[y])
      BY <3>1, SameIsBehind
    <3>. QED  BY <2>1, <3>2
  <2>. QED  BY <1>6, <2>2, <2>3
<1>7. ASSUME NEW x \in Process, Export(x), NEW r \in Receiver
      PROVE  ThreadBehind(rcv'[r])
  <2>1. ThreadBehind(rcv[r])
    OBVIOUS
  <2>. QED  BY <1>7, <2>1, ExportKeepsMetrics, SameIsBehind
<1>. QED  BY <1>2, <1>3, <1>4, <1>5, <1>6, <1>7 DEF Next

-----------------------------------------------------------------------------
(* The rows of the receivers in the file. *)

LEMMA StillOff ==
  ASSUME TypeOK, LaterOff, [Next]_vars
  PROVE  LaterOff'
<1>1. /\ test \in TestState /\ \A r \in Receiver : r[1] \in Nat /\ rcv[r] \in ReceiverState
      /\ rcv \in [Receiver -> ReceiverState]
  BY ReceiverTyped DEF TypeOK, Iteration
<1>2. ASSUME test' = test, \A r \in Receiver : rcv[r].pc = "off" => rcv'[r].pc = "off"
      PROVE  LaterOff'
  BY <1>2 DEF LaterOff
<1>3. CASE StartTest
  BY <1>1, <1>3 DEF StartTest, NewReceiver, LaterOff, TestState
<1>4. CASE StartIteration
  <2>1. test'.it = test.it /\ test'.pc = "gap" /\ test.pc = "start"
    BY <1>1, <1>4 DEF StartIteration, TestState
  <2>2. \A r \in Receiver : r[1] > test.it => rcv'[r] = rcv[r]
    BY <1>1, <1>4 DEF StartIteration, LaunchReceivers, TestState
  <2>. QED  BY <2>1, <2>2 DEF LaterOff
<1>5. CASE StartFlows
  <2>1. test'.it = test.it /\ test'.pc = "sleep" /\ test.pc = "gap" /\ rcv' = rcv
    BY <1>1, <1>5 DEF StartFlows, TestState
  <2>. QED  BY <2>1 DEF LaterOff
<1>6. CASE EndIteration
  <2>1. /\ rcv' = rcv /\ test.pc = "sleep"
        /\ \/ test'.it = test.it + 1 /\ test'.pc = "start"
           \/ test'.it = test.it /\ test'.pc = "menu"
    BY <1>1, <1>6 DEF EndIteration, TestState
  <2>2. test.it \in Nat
    BY <1>1 DEF TestState
  <2>. QED  BY <1>1, <2>1, <2>2 DEF LaterOff
<1>7. CASE Tick \/ UNCHANGED vars
           \/ \E s \in Sender : SendStarts(s) \/ SendPacket(s) \/ SendEnds(s)
  BY <1>2, <1>7 DEF Tick, vars, SendStarts, SendPacket, SendEnds
<1>8. ASSUME NEW c \in net, Deliver(c)
      PROVE  LaterOff'
  <2>1. \A r \in Receiver : rcv[r].pc = "off" => rcv'[r] = rcv[r]
    BY <1>8 DEF Deliver
  <2>. QED  BY <1>2, <1>8, <2>1 DEF Deliver
<1>9. ASSUME NEW y \in Receiver,
             ReceiveStarts(y) \/ ProcessPacket(y) \/ SniffEnds(y) \/ Join(y)
      PROVE  LaterOff'
  <2>1. rcv[y].pc # "off" /\ test' = test /\ \A r \in Receiver : r # y => rcv'[r] = rcv[r]
    BY <1>1, <1>9 DEF ReceiveStarts, ProcessPacket, SniffEnds, Join, SetRcv
  <2>. QED  BY <1>2, <2>1
<1>10. ASSUME NEW x \in Process, Export(x)
       PROVE  LaterOff'
  <2>1. test' = test
    BY <1>10 DEF Export, Open, Close
  <2>. QED  BY <1>2, <1>10, <2>1, ExportKeepsMetrics
<1>. QED  BY <1>3, <1>4, <1>5, <1>6, <1>7, <1>8, <1>9, <1>10 DEF Next

LEMMA RowsStay ==
  ASSUME RowsInPlace, file'.rows = file.rows, test'.it > 0 => test.it > 0,
         \A r \in Receiver : /\ rcv'[r].pc = "done" <=> rcv[r].pc = "done"
                             /\ rcv[r].pc = "done" => rcv'[r].flows = rcv[r].flows
  PROVE  RowsInPlace'
<1>1. \A r \in Receiver : RowsOf(r)' = RowsOf(r)
  BY DEF RowsOf
<1>2. ASSUME NEW r \in Receiver, rcv[r].pc = "done", HasItsRows(r)
      PROVE  HasItsRows(r)'
  <2>1. rcv'[r].flows = rcv[r].flows /\ RowsOf(r)' = RowsOf(r)
    BY <1>1, <1>2
  <2>2. ReceiverRows(r)' = ReceiverRows(r)
    BY <2>1 DEF ReceiverRows
  <2>. QED  BY <1>2, <2>1, <2>2 DEF HasItsRows
<1>. QED  BY <1>1, <1>2 DEF RowsInPlace

(* A header, if any, and then the rows of x come below what was there. *)
LEMMA WrittenBelow ==
  ASSUME TypeOK, NEW x \in Process, Close(x)
  PROVE  \E m \in Nat :
           /\ Len(file.rows) <= m /\ DOMAIN file'.rows = 1 .. m + Len(Rows(x))
           /\ DOMAIN file.rows = 1 .. Len(file.rows) /\ Len(file.rows) \in Nat
           /\ Len(file'.rows) = m + Len(Rows(x)) /\ Len(Rows(x)) \in Nat
           /\ \A i \in 1 .. Len(file.rows) : file'.rows[i] = file.rows[i]
           /\ \A i \in Len(file.rows) + 1 .. m : file'.rows[i] = HEADER
           /\ \A j \in 1 .. Len(Rows(x)) : file'.rows[m+j] = Rows(x)[j]
<1>. DEFINE old == file.rows
            top == IF Pc(x).new THEN <<HEADER>> ELSE << >>
            all == old \o top
            new == Rows(x)
            m == Len(all)
<1>1. old \in Seq(Elements(old)) /\ new \in Seq(Elements(new))
  BY RowsTyped DEF TypeOK
<1>2. top \in Seq({HEADER}) /\ \A i \in 1 .. Len(top) : top[i] = HEADER
  <2>1. CASE Pc(x).new
    <3>1. top = <<HEADER>>
      BY <2>1
    <3>. HIDE DEF top
    <3>. QED  BY <3>1
  <2>2. CASE ~Pc(x).new
    <3>1. top = << >>
      BY <2>2
    <3>. HIDE DEF top
    <3>. QED  BY <3>1
  <2>. QED  BY <2>1, <2>2
<1>3. file'.rows = all \o new
  <2>1. file' = [file EXCEPT !.rows = @ \o top \o new]
    BY DEF Close, Written
  <2>. QED  BY <2>1 DEF TypeOK
<1>. HIDE DEF old, top, new
<1>4. /\ all \in Seq(Elements(all)) /\ m = Len(old) + Len(top)
      /\ \A i \in 1 .. Len(old) : all[i] = old[i]
      /\ \A i \in Len(old) + 1 .. Len(old) + Len(top) : all[i] = top[i - Len(old)]
  BY <1>1, <1>2, AppendedRows
<1>. HIDE DEF all
<1>5. /\ all \o new \in Seq(Elements(all \o new)) /\ Len(all \o new) = m + Len(new)
      /\ \A i \in 1 .. m : (all \o new)[i] = all[i]
      /\ \A i \in m + 1 .. m + Len(new) : (all \o new)[i] = new[i - m]
  <2>1. all \in Seq(Elements(all)) /\ new \in Seq(Elements(new))
    BY <1>1, <1>4
  <2>. QED  BY <2>1, AppendedRows
<1>6. Len(old) \in Nat /\ Len(top) \in Nat /\ Len(new) \in Nat /\ m \in Nat
      /\ DOMAIN old = 1 .. Len(old) /\ DOMAIN (all \o new) = 1 .. m + Len(new)
  BY <1>1, <1>2, <1>4, <1>5
<1>7. \A i \in 1 .. Len(old) : (all \o new)[i] = old[i]
  BY <1>4, <1>5, <1>6
<1>8. \A i \in Len(old) + 1 .. m : (all \o new)[i] = HEADER
  <2>. SUFFICES ASSUME NEW i \in Len(old) + 1 .. m PROVE (all \o new)[i] = HEADER
    OBVIOUS
  <2>1. i \in 1 .. m /\ i - Len(old) \in 1 .. Len(top)
        /\ i \in Len(old) + 1 .. Len(old) + Len(top)
    BY <1>4, <1>6
  <2>2. (all \o new)[i] = all[i] /\ all[i] = top[i - Len(old)]
    BY <1>4, <1>5, <2>1
  <2>. QED  BY <1>2, <2>1, <2>2
<1>9. \A j \in 1 .. Len(new) : (all \o new)[m+j] = new[j]
  <2>. SUFFICES ASSUME NEW j \in 1 .. Len(new) PROVE (all \o new)[m+j] = new[j]
    OBVIOUS
  <2>1. m + j \in m + 1 .. m + Len(new) /\ (m + j) - m = j
    BY <1>6
  <2>. QED  BY <1>5, <2>1
<1>. HIDE DEF m
<1>10. Len(old) <= m
  BY <1>4, <1>6
<1>11. /\ DOMAIN file'.rows = 1 .. m + Len(new) /\ Len(file'.rows) = m + Len(new)
       /\ \A i \in 1 .. Len(old) : file'.rows[i] = old[i]
       /\ \A i \in Len(old) + 1 .. m : file'.rows[i] = HEADER
       /\ \A j \in 1 .. Len(new) : file'.rows[m+j] = new[j]
  <2>. DEFINE both == all \o new
  <2>1. /\ DOMAIN both = 1 .. m + Len(new) /\ Len(both) = m + Len(new)
        /\ \A i \in 1 .. Len(old) : both[i] = old[i]
        /\ \A i \in Len(old) + 1 .. m : both[i] = HEADER
        /\ \A j \in 1 .. Len(new) : both[m+j] = new[j]
    BY <1>5, <1>6, <1>7, <1>8, <1>9
  <2>2. file'.rows = both
    BY <1>3
  <2>. HIDE DEF both
  <2>. QED  BY <2>1, <2>2
<1>. QED  BY <1>6, <1>10, <1>11 DEF old, new

(* Rows appended leave the earlier ones where they are; those of x are     *)
(* rows of x, if it is a receiver, and of no receiver if it is a sender.   *)
LEMMA RowsOfWritten ==
  ASSUME TypeOK, NEW x \in Process, Close(x), NEW r \in Receiver,
         NEW m \in Nat, Len(file.rows) <= m, Len(file.rows) \in Nat, Len(Rows(x)) \in Nat,
         DOMAIN file.rows = 1 .. Len(file.rows), DOMAIN file'.rows = 1 .. m + Len(Rows(x)),
         \A i \in 1 .. Len(file.rows) : file'.rows[i] = file.rows[i],
         \A i \in Len(file.rows) + 1 .. m : file'.rows[i] = HEADER,
         \A j \in 1 .. Len(Rows(x)) : file'.rows[m+j] = Rows(x)[j]
  PROVE  RowsOf(r)' = IF r = x THEN RowsOf(r) \cup (m + 1 .. m + Len(Rows(x)))
                               ELSE RowsOf(r)
<1>. DEFINE n == Len(Rows(x))
<1>1. ASSUME NEW i \in m + 1 .. m + n
      PROVE  file'.rows[i].is = "receiver" /\ <<file'.rows[i].it, file'.rows[i].host>> = r
               <=> r = x
  <2>1. i - m \in 1 .. n /\ m + (i - m) = i
    OBVIOUS
  <2>2. file'.rows[i] = Rows(x)[i - m]
    BY <2>1
  <2>3. CASE x \in Sender
    <3>1. Rows(x) = SenderRows(x) /\ Len(SenderRows(x)) = 1
      BY <2>3 DEF Rows, SenderRows
    <3>2. i - m = 1
      BY <2>1, <3>1
    <3>3. file'.rows[i].is = "sender"
      BY <2>2, <3>1, <3>2 DEF SenderRows
    <3>4. r # x
      BY <2>3, ProcessesDiffer
    <3>. QED  BY <3>3, <3>4
  <2>4. CASE x \in Receiver
    <3>1. Rows(x) = ReceiverRows(x)
      BY <2>4, ProcessesDiffer DEF Rows
    <3>2. rcv[x].flows \in Seq(Metrics)
      BY <2>4, ReceiverTyped DEF ReceiverState
    <3>3. i - m \in DOMAIN rcv[x].flows
      <4>1. DOMAIN ReceiverRows(x) = DOMAIN rcv[x].flows /\ DOMAIN rcv[x].flows = 1 .. Len(rcv[x].flows)
        BY <3>2 DEF ReceiverRows
      <4>2. Len(rcv[x].flows) \in Nat /\ Len(ReceiverRows(x)) = Len(rcv[x].flows)
        BY <3>1, <3>2, <4>1
      <4>. QED  BY <2>1, <3>1, <4>1, <4>2
    <3>4. /\ ReceiverRows(x)[i - m].is = "receiver"
          /\ ReceiverRows(x)[i - m].it = x[1] /\ ReceiverRows(x)[i - m].host = x[2]
      BY <3>3 DEF ReceiverRows
    <3>5. x = <<x[1], x[2]>>
      BY <2>4 DEF Receiver
    <3>. QED  BY <2>2, <3>1, <3>4, <3>5
  <2>. QED  BY <2>3, <2>4 DEF Process
<1>2. \A i \in Len(file.rows) + 1 .. m : file'.rows[i].is # "receiver"
  BY DEF HEADER
<1>3. \A i : i \in 1 .. m + n <=> \/ i \in 1 .. Len(file.rows)
                                  \/ i \in Len(file.rows) + 1 .. m \/ i \in m + 1 .. m + n
  OBVIOUS
<1>4. ASSUME NEW i
      PROVE  i \in RowsOf(r)' <=> i \in RowsOf(r) \/ (r = x /\ i \in m + 1 .. m + n)
  <2>. HIDE DEF n
  <2>1. i \in RowsOf(r)' <=> /\ i \in 1 .. m + n /\ file'.rows[i].is = "receiver"
                             /\ <<file'.rows[i].it, file'.rows[i].host>> = r
    BY DEF RowsOf, n
  <2>2. i \in RowsOf(r) <=> /\ i \in 1 .. Len(file.rows) /\ file.rows[i].is = "receiver"
                            /\ <<file.rows[i].it, file.rows[i].host>> = r
    BY DEF RowsOf
  <2>3. \A k \in 1 .. Len(file.rows) : k \notin m + 1 .. m + n
    BY DEF n
  <2>. QED  BY <1>1, <1>2, <1>3, <2>1, <2>2, <2>3
<1>. QED  BY <1>4

LEMMA CloseKeepsRows ==
  ASSUME TypeOK, RowsInPlace, NEW x \in Process, Close(x)
  PROVE  RowsInPlace'
<1>. SUFFICES ASSUME test'.it > 0, NEW r \in Receiver
              PROVE  IF rcv'[r].pc = "done" THEN HasItsRows(r)' ELSE RowsOf(r)' = {}
  BY DEF RowsInPlace
<1>1. PICK m \in Nat :
        /\ Len(file.rows) <= m /\ DOMAIN file'.rows = 1 .. m + Len(Rows(x))
        /\ DOMAIN file.rows = 1 .. Len(file.rows) /\ Len(file.rows) \in Nat
        /\ Len(file'.rows) = m + Len(Rows(x)) /\ Len(Rows(x)) \in Nat
        /\ \A i \in 1 .. Len(file.rows) : file'.rows[i] = file.rows[i]
        /\ \A i \in Len(file.rows) + 1 .. m : file'.rows[i] = HEADER
        /\ \A j \in 1 .. Len(Rows(x)) : file'.rows[m+j] = Rows(x)[j]
  BY WrittenBelow
<1>2. RowsOf(r)' = IF r = x THEN RowsOf(r) \cup (m + 1 .. m + Len(Rows(x))) ELSE RowsOf(r)
  BY <1>1, RowsOfWritten
<1>3. IF rcv[r].pc = "done" THEN HasItsRows(r) ELSE RowsOf(r) = {}
  <2>1. test' = test
    BY DEF Close
  <2>. QED  BY <2>1 DEF RowsInPlace
<1>4. rcv'[r].flows = rcv[r].flows /\ ReceiverRows(r)' = ReceiverRows(r)
  BY ExportKeepsMetrics DEF Export, ReceiverRows
<1>5. CASE r = x
  <2>1. rcv[r].pc = "write" /\ rcv'[r].pc = "done" /\ Rows(x) = ReceiverRows(r)
    BY <1>5, ProcessesDiffer, CloseMoves DEF Close, Pc, Rows
  <2>2. rcv[r].flows \in Seq(Metrics)
    BY ReceiverTyped DEF ReceiverState
  <2>3. Len(Rows(x)) = Len(rcv[r].flows)
    BY <2>1, <2>2 DEF ReceiverRows
  <2>4. RowsOf(r)' = m + 1 .. m + Len(rcv'[r].flows)
    BY <1>2, <1>3, <1>4, <1>5, <2>1, <2>3
  <2>5. m \in 0 .. Len(file'.rows) /\ m + Len(rcv'[r].flows) <= Len(file'.rows)
    BY <1>1, <1>4, <2>3
  <2>6. \A i \in 1 .. Len(rcv'[r].flows) : file'.rows[m+i] = ReceiverRows(r)'[i]
    BY <1>1, <1>4, <2>1, <2>3
  <2>7. HasItsRows(r)'
    BY <2>4, <2>5, <2>6 DEF HasItsRows
  <2>. QED  BY <2>1, <2>7
<1>6. CASE r # x
  <2>1. rcv'[r].pc = rcv[r].pc
    <3>1. r \in Process /\ r \notin Sender
      BY ProcessesDiffer DEF Process
    <3>. QED  BY <1>6, <3>1, CloseMoves DEF Pc
  <2>2. ASSUME HasItsRows(r) PROVE HasItsRows(r)'
    <3>1. PICK k \in 0 .. Len(file.rows) :
            /\ k + Len(rcv[r].flows) <= Len(file.rows)
            /\ RowsOf(r) = k + 1 .. k + Len(rcv[r].flows)
            /\ \A i \in 1 .. Len(rcv[r].flows) : file.rows[k+i] = ReceiverRows(r)[i]
      BY <2>2 DEF HasItsRows
    <3>2. Len(rcv[r].flows) \in Nat
      BY ReceiverTyped DEF ReceiverState
    <3>3. \A i \in 1 .. Len(rcv[r].flows) : file'.rows[k+i] = ReceiverRows(r)[i]
      <4>1. \A i \in 1 .. Len(rcv[r].flows) : k + i \in 1 .. Len(file.rows)
        BY <1>1, <3>1, <3>2
      <4>. QED  BY <1>1, <3>1, <4>1
    <3>4. k \in 0 .. Len(file'.rows) /\ k + Len(rcv[r].flows) <= Len(file'.rows)
      BY <1>1, <3>1, <3>2
    <3>. QED  BY <1>2, <1>4, <1>6, <3>1, <3>3, <3>4 DEF HasItsRows
  <2>. QED  BY <1>2, <1>3, <1>6, <2>1, <2>2
<1>. QED  BY <1>5, <1>6

LEMMA NextRowsInPlace ==
  ASSUME TypeOK, LaterOff, RowsInPlace, [Next]_vars
  PROVE  RowsInPlace'
<1>1. /\ test \in TestState /\ file \in [exists: BOOLEAN, rows: Seq(Elements(file.rows))]
      /\ rcv \in [Receiver -> ReceiverState] /\ \A r \in Receiver : rcv[r] \in ReceiverState
  BY ReceiverTyped DEF TypeOK
<1>2. ASSUME file'.rows = file.rows, test' = test,
             \A r \in Receiver : rcv'[r] = rcv[r] \/ (rcv[r].pc # "done" /\ rcv'[r].pc # "done")
      PROVE  RowsInPlace'
  BY <1>2, RowsStay
<1>3. CASE StartTest
  <2>1. file'.rows = << >> /\ \A r \in Receiver : rcv'[r].pc = "off"
    BY <1>3 DEF StartTest, Absent, NewReceiver
  <2>2. \A r \in Receiver : RowsOf(r)' = {}
    BY <2>1 DEF RowsOf
  <2>. QED  BY <2>1, <2>2 DEF RowsInPlace
<1>4. CASE StartIteration
  <2>1. test'.it = test.it /\ file' = file /\ test.pc = "start"
    BY <1>1, <1>4 DEF StartIteration, TestState
  <2>2. \A r \in Receiver :
          IF r[1] = test.it THEN rcv'[r].pc = "launched" /\ rcv[r].pc = "off"
                            ELSE rcv'[r] = rcv[r]
    BY <1>4, <2>1 DEF StartIteration, LaunchReceivers, NewReceiver, LaterOff
  <2>. QED  BY <2>1, <2>2, RowsStay
<1>5. CASE StartFlows
  <2>1. test'.it = test.it /\ file' = file /\ rcv' = rcv
    BY <1>1, <1>5 DEF StartFlows, TestState
  <2>. QED  BY <2>1, RowsStay
<1>6. CASE EndIteration
  <2>1. test.it > 0 /\ file' = file /\ rcv' = rcv
    BY <1>6 DEF EndIteration, LaterOff
  <2>. QED  BY <2>1, RowsStay
<1>7. CASE Tick \/ UNCHANGED vars
           \/ \E s \in Sender : SendStarts(s) \/ SendPacket(s) \/ SendEnds(s)
  BY <1>2, <1>7 DEF Tick, vars, SendStarts, SendPacket, SendEnds
<1>8. ASSUME NEW c \in net, Deliver(c)
      PROVE  RowsInPlace'
  <2>1. \A r \in Receiver : rcv'[r] = rcv[r] \/ (rcv[r].pc # "done" /\ rcv'[r].pc # "done")
    <3>. SUFFICES ASSUME NEW r \in Receiver, rcv'[r] # rcv[r]
                  PROVE  rcv[r].pc # "done" /\ rcv'[r].pc # "done"
      OBVIOUS
    <3>1. rcv[r].pc = "busy" /\ rcv'[r].pc = rcv[r].pc
      BY <1>1, <1>8 DEF Deliver, ReceiverState
    <3>. QED  BY <3>1
  <2>2. file' = file /\ test' = test
    BY <1>8 DEF Deliver
  <2>. QED  BY <1>2, <2>1, <2>2
<1>9. ASSUME NEW y \in Receiver,
             ReceiveStarts(y) \/ ProcessPacket(y) \/ SniffEnds(y) \/ Join(y)
      PROVE  RowsInPlace'
  <2>1. /\ rcv[y].pc # "done" /\ rcv'[y].pc # "done" /\ test' = test /\ file' = file
        /\ \A r \in Receiver : r # y => rcv'[r] = rcv[r]
    <3>1. /\ rcv[y].pc # "done" /\ test' = test /\ file' = file
          /\ \E q : /\ rcv' = [rcv EXCEPT ![y] = q]
                    /\ \/ q = [rcv[y] EXCEPT !.pc = "busy", !.since = now]
                       \/ /\ rcv[y].pc \in {"busy", "join"}
                          /\ q = [rcv[y] EXCEPT !.queue = Tail(@),
                                               !.flows = Counted(@, Head(rcv[y].queue))]
                       \/ q = [rcv[y] EXCEPT !.pc = "join"]
                       \/ q = [rcv[y] EXCEPT !.pc = "lock"]
      BY <1>9 DEF ReceiveStarts, ProcessPacket, SniffEnds, Join, SetRcv
    <3>2. PICK q : /\ rcv' = [rcv EXCEPT ![y] = q]
                   /\ \/ q = [rcv[y] EXCEPT !.pc = "busy", !.since = now]
                      \/ /\ rcv[y].pc \in {"busy", "join"}
                         /\ q = [rcv[y] EXCEPT !.queue = Tail(@),
                                              !.flows = Counted(@, Head(rcv[y].queue))]
                      \/ q = [rcv[y] EXCEPT !.pc = "join"]
                      \/ q = [rcv[y] EXCEPT !.pc = "lock"]
      BY <3>1
    <3>3. q.pc # "done"
      BY <1>1, <3>2 DEF ReceiverState
    <3>. QED  BY <1>1, <3>1, <3>2, <3>3
  <2>. QED  BY <1>2, <2>1
<1>10. ASSUME NEW x \in Process, Open(x)
       PROVE  RowsInPlace'
  <2>1. test' = test /\ file'.rows = file.rows
    BY <1>1, <1>10 DEF Open
  <2>2. Pc(x).pc = "lock" /\ Pc(x)'.pc = "write"
        /\ \A y \in Process : y # x => Pc(y)' = Pc(y)
    BY <1>10, OpenMoves DEF Open
  <2>3. \A r \in Receiver : rcv'[r] = rcv[r] \/ (rcv[r].pc # "done" /\ rcv'[r].pc # "done")
    <3>. SUFFICES ASSUME NEW r \in Receiver PROVE rcv'[r] = rcv[r]
                    \/ (rcv[r].pc # "done" /\ rcv'[r].pc # "done")
      OBVIOUS
    <3>1. r \in Process /\ r \notin Sender
      BY ProcessesDiffer DEF Process
    <3>. QED  BY <2>2, <3>1 DEF Pc
  <2>. QED  BY <1>2, <2>1, <2>3
<1>11. ASSUME NEW x \in Process, Close(x)
       PROVE  RowsInPlace'
  BY <1>11, CloseKeepsRows
<1>. QED  BY <1>3, <1>4, <1>5, <1>6, <1>7, <1>8, <1>9, <1>10, <1>11 DEF Next, Export

(* Numbered in order, packets are counted by their numbers, and those out  *)
(* of order by the out-of-order numbers.                                   *)
NumbersOf(h, f) == {i \in DOMAIN h : h[i].flow = f}
LateIn(h, f) == {i \in NumbersOf(h, f) :
                   \E j \in NumbersOf(h, f) : j < i /\ h[j].seq > h[i].seq}
LEMMA ListedCounted ==
  ASSUME NEW h \in Seq(Number), NEW f, NEW seqs \in Seq(Nat),
         NEW b \in [1 .. Len(seqs) -> 1 .. Len(h)], Lists(b, h, Len(h), f, seqs)
  PROVE  /\ Len(seqs) = Cardinality(NumbersOf(h, f))
         /\ Cardinality(OutOfOrder(seqs)) = Cardinality(LateIn(h, f))
<1>. DEFINE n == Len(seqs)
            heard == {i \in DOMAIN h : h[i].flow = f}
            late == {i \in heard : \E j \in heard : j < i /\ h[j].seq > h[i].seq}
            o == OutOfOrder(seqs)
            c == [i \in o |-> b[i]]
<1>1. /\ n \in Nat /\ DOMAIN h = 1 .. Len(h) /\ Len(h) \in Nat
      /\ \A i \in 1 .. n : b[i] \in 1 .. Len(h) /\ seqs[i] \in Nat
  <2>1. n \in Nat /\ \A i \in 1 .. n : seqs[i] \in Nat
    OBVIOUS
  <2>2. DOMAIN h = 1 .. Len(h) /\ Len(h) \in Nat
    OBVIOUS
  <2>. QED  BY <2>1, <2>2
<1>2. /\ \A i, j \in 1 .. n : i < j => b[i] < b[j]
      /\ \A i \in 1 .. n : h[b[i]].flow = f /\ h[b[i]].seq = seqs[i]
      /\ \A p \in 1 .. Len(h) : h[p].flow = f => \E i \in 1 .. n : b[i] = p
  BY DEF Lists
<1>3. \A i, j \in 1 .. n : b[i] < b[j] <=> i < j
  <2>. SUFFICES ASSUME NEW i \in 1 .. n, NEW j \in 1 .. n, b[i] < b[j] PROVE i < j
    BY <1>2
  <2>1. b[i] \in Nat /\ b[j] \in Nat /\ i \in Nat /\ j \in Nat
    BY <1>1
  <2>2. i # j
    BY <2>1
  <2>3. j < i => b[j] < b[i]
    BY <1>2
  <2>. QED  BY <2>1, <2>2, <2>3
<1>4. \A i, j \in 1 .. n : b[i] = b[j] => i = j
  <2>. SUFFICES ASSUME NEW i \in 1 .. n, NEW j \in 1 .. n, b[i] = b[j] PROVE i = j
    OBVIOUS
  <2>1. ~ (i < j) /\ ~ (j < i)
    BY <1>1, <1>2
  <2>. QED  BY <1>1, <2>1
<1>5. \A p : p \in heard <=> \E i \in 1 .. n : b[i] = p
  BY <1>1, <1>2
<1>6. IsFiniteSet(1 .. n) /\ Cardinality(1 .. n) = n
  <2>. HIDE DEF n
  <2>1. n \in Nat /\ n \in Int /\ 1 \in Int
    BY <1>1
  <2>2. IsFiniteSet(1 .. n) /\ Cardinality(1 .. n) = IF 1 > n THEN 0 ELSE n - 1 + 1
    BY <2>1, FS_Interval
  <2>. QED  BY <2>1, <2>2
<1>. HIDE DEF n
<1>7. Cardinality(heard) = n
  <2>. HIDE DEF heard
  <2>1. b \in Bijection(1 .. n, heard)
    BY <1>4, <1>5 DEF Bijection, Injection, IsInjective, Surjection, n
  <2>. QED  BY <1>6, <2>1, FS_Bijection DEF ExistsBijection
<1>8. o = {i \in 1 .. n : \E j \in 1 .. n : j < i /\ seqs[j] > seqs[i]}
  BY OutOfOrderMeans DEF n
<1>. HIDE DEF o
<1>9. IsFiniteSet(o)
  BY <1>6, <1>8, FS_Subset
<1>10. \A p : p \in late <=> \E i \in o : b[i] = p
  <2>. HIDE DEF heard
  <2>1. ASSUME NEW i \in o PROVE b[i] \in late
    <3>1. i \in 1 .. n
      BY <1>8
    <3>2. PICK j \in 1 .. n : j < i /\ seqs[j] > seqs[i]
      BY <1>8
    <3>3. b[i] \in heard /\ b[j] \in heard /\ b[j] < b[i]
      BY <1>3, <1>5, <3>1, <3>2
    <3>4. h[b[j]].seq > h[b[i]].seq
      BY <1>2, <3>1, <3>2
    <3>. QED  BY <3>3, <3>4
  <2>2. ASSUME NEW p \in late PROVE \E i \in o : b[i] = p
    <3>1. PICK q \in heard : q < p /\ h[q].seq > h[p].seq
      OBVIOUS
    <3>2. PICK i \in 1 .. n, j \in 1 .. n : b[i] = p /\ b[j] = q
      BY <1>5
    <3>3. j < i /\ seqs[j] > seqs[i]
      BY <1>2, <1>3, <3>1, <3>2
    <3>. QED  BY <1>8, <3>2, <3>3
  <2>. QED  BY <2>1, <2>2
<1>11. Cardinality(late) = Cardinality(o)
  <2>. HIDE DEF late, heard
  <2>1. o \subseteq 1 .. n
    BY <1>8
  <2>2. c \in [o -> late]
    BY <1>10
  <2>3. \A i, j \in o : c[i] = c[j] => i = j
    BY <1>4, <2>1
  <2>4. \A p \in late : \E i \in o : c[i] = p
    BY <1>10
  <2>. HIDE DEF c
  <2>5. c \in Bijection(o, late)
    BY <2>2, <2>3, <2>4 DEF Bijection, Injection, IsInjective, Surjection
  <2>. QED  BY <1>9, <2>5, FS_Bijection DEF ExistsBijection
<1>. QED  BY <1>7, <1>11 DEF n, o, NumbersOf, LateIn

LEMMA RowsTell == TypeOK /\ RowsInv => RowsTellWhatArrived
<1>. SUFFICES ASSUME TypeOK, RowsInv, NEW r \in Receiver, rcv[r].pc = "done"
              PROVE  /\ \A i, j \in RowsOf(r) :
                          file.rows[i].flow = file.rows[j].flow => i = j
                     /\ {file.rows[i].flow : i \in RowsOf(r)} = {p.flow : p \in ToSet(rcv[r].heard)}
                     /\ \A i \in RowsOf(r) :
                          /\ file.rows[i].num = Cardinality(HeardOf(r, file.rows[i].flow))
                          /\ file.rows[i].ooo = Cardinality(LateOf(r, file.rows[i].flow))
  BY DEF RowsTellWhatArrived
<1>. DEFINE h == rcv[r].heard
            m == rcv[r].flows
            row == file.rows
<1>1. h \in Seq(Number) /\ m \in Seq(Metrics) /\ Len(m) \in Nat /\ DOMAIN m = 1 .. Len(m)
      /\ DOMAIN h = 1 .. Len(h)
  BY ReceiverTyped DEF ReceiverState
<1>2. Tells(m, h, Len(h))
  <2>1. rcv[r].queue = << >> /\ Tells(m, h, Len(h) - Len(rcv[r].queue))
    BY DEF RowsInv, ThreadBehind
  <2>2. Len(h) - Len(<< >>) = Len(h)
    <3>. HIDE DEF h
    <3>. QED  BY <1>1
  <2>. QED  BY <2>1, <2>2
<1>3. test.it > 0
  <2>1. r[1] \in Iteration /\ test.it \in Nat
    BY ReceiverTyped DEF TypeOK, TestState
  <2>2. r[1] <= test.it
    BY <2>1 DEF RowsInv, LaterOff, Iteration
  <2>. QED  BY <2>1, <2>2 DEF Iteration
<1>4. PICK k \in 0 .. Len(row) :
        /\ RowsOf(r) = k + 1 .. k + Len(m)
        /\ \A x \in 1 .. Len(m) : row[k+x] = ReceiverRows(r)[x]
  BY <1>3 DEF RowsInv, RowsInPlace, HasItsRows
<1>5. \A x \in 1 .. Len(m) : /\ row[k+x].flow = m[x].flow /\ row[k+x].num = m[x].num
                             /\ row[k+x].ooo = Cardinality(OutOfOrder(m[x].seqs))
  <2>. SUFFICES ASSUME NEW x \in 1 .. Len(m)
                PROVE  /\ row[k+x].flow = m[x].flow /\ row[k+x].num = m[x].num
                       /\ row[k+x].ooo = Cardinality(OutOfOrder(m[x].seqs))
    OBVIOUS
  <2>1. row[k+x] = ReceiverRows(r)[x] /\ x \in DOMAIN rcv[r].flows
    BY <1>1, <1>4
  <2>2. /\ ReceiverRows(r)[x].flow = m[x].flow /\ ReceiverRows(r)[x].num = m[x].num
        /\ ReceiverRows(r)[x].ooo = Cardinality(OutOfOrder(m[x].seqs))
    BY <2>1 DEF ReceiverRows
  <2>. QED  BY <2>1, <2>2
<1>6. \A i : i \in RowsOf(r) <=> \E x \in 1 .. Len(m) : i = k + x
  <2>1. \A i \in k + 1 .. k + Len(m) : i - k \in 1 .. Len(m) /\ i = k + (i - k)
    BY <1>1
  <2>2. \A x \in 1 .. Len(m) : k + x \in k + 1 .. k + Len(m)
    BY <1>1
  <2>. QED  BY <1>4, <2>1, <2>2
<1>. HIDE DEF row, m, h
<1>7. \A i, j \in RowsOf(r) : row[i].flow = row[j].flow => i = j
  BY <1>2, <1>5, <1>6 DEF Tells
<1>8. {row[i].flow : i \in RowsOf(r)} = {p.flow : p \in ToSet(h)}
  <2>1. ToSet(h) = {h[p] : p \in 1 .. Len(h)}
    BY <1>1 DEF ToSet
  <2>2. ASSUME NEW x \in 1 .. Len(m) PROVE \E p \in 1 .. Len(h) : h[p].flow = m[x].flow
    <3>1. PICK b \in [1 .. Len(m[x].seqs) -> 1 .. Len(h)] : Lists(b, h, Len(h), m[x].flow, m[x].seqs)
      BY <1>2 DEF Tells
    <3>2. m[x].num = Len(m[x].seqs) /\ m[x].num > 0 /\ m[x].num \in Nat
      BY <1>1, <1>2 DEF Tells, Metrics
    <3>3. 1 \in 1 .. Len(m[x].seqs)
      BY <3>2
    <3>. QED  BY <3>1, <3>3 DEF Lists
  <2>3. \A p \in 1 .. Len(h) : \E x \in 1 .. Len(m) : m[x].flow = h[p].flow
    BY <1>2 DEF Tells
  <2>4. ASSUME NEW i \in RowsOf(r) PROVE \E p \in ToSet(h) : row[i].flow = p.flow
    <3>1. PICK x \in 1 .. Len(m) : i = k + x
      BY <1>6
    <3>2. PICK p \in 1 .. Len(h) : h[p].flow = m[x].flow
      BY <2>2
    <3>3. h[p] \in ToSet(h) /\ row[i].flow = h[p].flow
      BY <1>5, <2>1, <3>1, <3>2
    <3>. QED  BY <3>3
  <2>5. ASSUME NEW p \in ToSet(h) PROVE \E i \in RowsOf(r) : row[i].flow = p.flow
    <3>1. PICK q \in 1 .. Len(h) : p = h[q]
      BY <2>1
    <3>2. PICK x \in 1 .. Len(m) : m[x].flow = h[q].flow
      BY <2>3
    <3>3. k + x \in RowsOf(r) /\ row[k+x].flow = p.flow
      BY <1>5, <1>6, <3>1, <3>2
    <3>. QED  BY <3>3
  <2>. QED  BY <2>4, <2>5
<1>9. ASSUME NEW i \in RowsOf(r)
      PROVE  /\ row[i].num = Cardinality(HeardOf(r, row[i].flow))
             /\ row[i].ooo = Cardinality(LateOf(r, row[i].flow))
  <2>1. PICK x \in 1 .. Len(m) : i = k + x
    BY <1>6
  <2>2. row[i].flow = m[x].flow /\ row[i].num = m[x].num
        /\ row[i].ooo = Cardinality(OutOfOrder(m[x].seqs))
    BY <1>5, <2>1
  <2>3. m[x].seqs \in Seq(Nat)
    <3>1. m[x] \in Metrics
      BY <1>1
    <3>. QED  BY <3>1 DEF Metrics
  <2>4. m[x].num = Len(m[x].seqs)
    BY <1>2 DEF Tells
  <2>5. PICK b \in [1 .. Len(m[x].seqs) -> 1 .. Len(h)] : Lists(b, h, Len(h), m[x].flow, m[x].seqs)
    BY <1>2 DEF Tells
  <2>. DEFINE f == m[x].flow
  <2>6. HeardOf(r, f) = NumbersOf(h, f) /\ LateOf(r, f) = LateIn(h, f)
    BY DEF HeardOf, LateOf, NumbersOf, LateIn, h
  <2>7. /\ Len(m[x].seqs) = Cardinality(HeardOf(r, f))
        /\ Cardinality(OutOfOrder(m[x].seqs)) = Cardinality(LateOf(r, f))
    <3>. DEFINE seqs == m[x].seqs
    <3>1. /\ Lists(b, h, Len(h), f, seqs) /\ b \in [1 .. Len(seqs) -> 1 .. Len(h)]
          /\ h \in Seq(Number) /\ seqs \in Seq(Nat)
      BY <1>1, <2>3, <2>5
    <3>. HIDE DEF f, seqs
    <3>2. /\ Len(seqs) = Cardinality(NumbersOf(h, f))
          /\ Cardinality(OutOfOrder(seqs)) = Cardinality(LateIn(h, f))
      BY <3>1, ListedCounted
    <3>. QED  BY <2>6, <3>2 DEF seqs
  <2>. QED  BY <2>2, <2>4, <2>7
<1>. QED  BY <1>7, <1>8, <1>9 DEF row, h

-----------------------------------------------------------------------------
(* In every execution, of whatever test: the state is well typed, one      *)
(* process at a time writes to the file and nothing falls behind.          *)
THEOREM LoadTestInvariant == Spec => []IInv
<1>1. IInv /\ [Next]_vars => IInv'
  BY NextTyped, NextKeepsFile, NextInTime DEF IInv
<1>. QED  BY <1>1, InitIInv, PTL DEF Spec

(* The lock of export_results (send.py, receive.py) keeps the result file  *)
(* well formed: one header, on top, whoever comes first.                   *)
THEOREM OneHeaderOnTop == Spec => []FileWellFormed
<1>1. IInv => FileWellFormed
  BY DEF IInv, FileAsFound, FileWellFormed
<1>. QED  BY <1>1, LoadTestInvariant, PTL

(* The margins of update_times (interface.py) are enough: an iteration is  *)
(* over, down to the last row of its last process, when the next begins.   *)
THEOREM IterationsAreSeparate == Spec => []EndedBeforeNext
<1>1. IInv => EndedBeforeNext
  <2>. SUFFICES ASSUME IInv, test.pc \in {"start", "menu"}
                PROVE  Ended /\ net = {} /\ lock = Nobody
    BY DEF EndedBeforeNext
  <2>1. Ended /\ net = {}
    BY DEF IInv, InTime
  <2>2. \A x \in Process : Pc(x).pc # "write"
    BY <2>1 DEF Ended, Waiting
  <2>. QED  BY <2>1, <2>2 DEF IInv, OneWriter, TypeOK
<1>. QED  BY <1>1, LoadTestInvariant, PTL

(* ... and a packet under way finds the receiver of its own iteration, and *)
(* no other, sniffing on the host it is for.                               *)
THEOREM EveryPacketIsSniffed == Spec => []SniffedWhileSent
<1>1. IInv => SniffedWhileSent
  <2>. SUFFICES ASSUME IInv, NEW c \in net, NEW r \in Receiver, r[2] = c.to
                PROVE  rcv[r].pc = "busy" <=> r[1] = c.it
    BY DEF SniffedWhileSent
  <2>. USE DEF IInv
  <2>1. test.pc = "sleep" /\ CopyInTime(c, Began) /\ ReceiverInTime(r, Began)
        /\ Began + SenderReceiverGap <= now
    BY IdleBetween DEF InTime, TypeOK, TestState
  <2>2. now < Began + ReceiverTimeout
    BY <2>1, Margins, TimesAreNumbers DEF CopyInTime
  <2>3. CASE r[1] = test.it
    BY <2>1, <2>2, <2>3, Margins, TimesAreNumbers DEF ReceiverInTime, CopyInTime
  <2>4. CASE r[1] # test.it
    BY <2>1, <2>4 DEF ReceiverInTime, CopyInTime, Waiting
  <2>. QED  BY <2>3, <2>4
<1>. QED  BY <1>1, LoadTestInvariant, PTL

(* What receive.py writes is true, whatever arrives and in whatever order: *)
(* the thread that works off the queue loses and repeats nothing, the      *)
(* rows of a receiver stay as they are when others write, and they count   *)
(* the packets heard and the late ones among them.                         *)
THEOREM RowsAreTrue == Spec => []RowsTellWhatArrived
<1>1. Init => RowsInv
  <2>. SUFFICES ASSUME Init PROVE RowsInv
    OBVIOUS
  <2>1. \A r \in Receiver : rcv[r] = NewReceiver
    BY DEF Init
  <2>2. \A r \in Receiver : ThreadBehind(rcv[r])
    BY <2>1, NewIsBehind DEF NewReceiver
  <2>3. LaterOff
    BY <2>1 DEF Init, LaterOff, NewReceiver
  <2>4. RowsInPlace
    BY DEF Init, RowsInPlace
  <2>. QED  BY <2>2, <2>3, <2>4 DEF RowsInv
<1>2. TypeOK /\ RowsInv /\ [Next]_vars => RowsInv'
  <2>. SUFFICES ASSUME TypeOK, RowsInv, [Next]_vars PROVE RowsInv'
    OBVIOUS
  <2>1. \A r \in Receiver : ThreadBehind(rcv[r])
    BY DEF RowsInv
  <2>2. (\A r \in Receiver : ThreadBehind(rcv[r]))'
    BY <2>1, ThreadsGoOn DEF ThreadBehind, Tells, Lists
  <2>3. LaterOff' /\ RowsInPlace'
    BY StillOff, NextRowsInPlace DEF RowsInv
  <2>. QED  BY <2>2, <2>3 DEF RowsInv
<1>3. IInv => TypeOK
  BY DEF IInv
<1>. QED  BY <1>1, <1>2, <1>3, RowsTell, LoadTestInvariant, PTL DEF Spec

-----------------------------------------------------------------------------
(* Fractions. *)

(* The recursion of Gcd, for second numbers up to k. *)
Pairs(k) == Nat \X (0 .. k)
GcdUpto(g, k) ==
  g = [p \in Pairs(k) |-> IF p[2] = 0 THEN p[1] ELSE g[<<p[2], p[1] % p[2]>>]]

LEMMA SetReaches ==
  ASSUME NEW n \in Nat, NEW S, 0 \in S, \A k \in 1 .. n : k - 1 \in S => k \in S
  PROVE  n \in S
<1> DEFINE Missing == {k \in 0 .. n : k \notin S}
<1>1. SUFFICES ASSUME Missing # {} PROVE FALSE
  OBVIOUS
<1>2. Missing \subseteq Nat
  OBVIOUS
<1>3. PICK m \in Missing : \A k \in Missing : m <= k
  BY <1>1, <1>2, LeastNatural
<1>4. m \in 1 .. n /\ m - 1 \in 0 .. n /\ m - 1 \notin Missing
  BY <1>3
<1> QED BY <1>4

LEMMA GcdUptoExists ==
  ASSUME NEW n \in Nat
  PROVE  \E g : GcdUpto(g, n)
<1> DEFINE S == {k \in 0 .. n : \E g : GcdUpto(g, k)}
<1>1. 0 \in S
  <2> DEFINE g == [p \in Pairs(0) |-> p[1]]
  <2>1. GcdUpto(g, 0)
    BY DEF GcdUpto, Pairs
  <2> HIDE DEF g
  <2> QED BY <2>1
<1>2. ASSUME NEW k \in 1 .. n, k - 1 \in S PROVE k \in S
  <2>1. PICK h : GcdUpto(h, k - 1)
    BY <1>2
  <2> DEFINE g == [p \in Pairs(k) |-> IF p[2] = 0 THEN p[1] ELSE h[<<p[2], p[1] % p[2]>>]]
  <2>2. ASSUME NEW p \in Pairs(k), p[2] # 0
        PROVE  <<p[2], p[1] % p[2]>> \in Pairs(k - 1)
    <3>1. p[1] \in Nat /\ p[2] \in Nat \ {0} /\ p[2] <= k /\ k \in Nat
      BY <2>2 DEF Pairs
    <3>2. p[1] % p[2] \in 0 .. p[2] - 1
      BY <3>1
    <3> QED BY <3>1, <3>2 DEF Pairs
  <2>3. ASSUME NEW p \in Pairs(k - 1) PROVE p \in Pairs(k) /\ g[p] = h[p]
    <3>1. p \in Pairs(k)
      BY DEF Pairs
    <3>2. h[p] = IF p[2] = 0 THEN p[1] ELSE h[<<p[2], p[1] % p[2]>>]
      BY <2>1 DEF GcdUpto
    <3> QED BY <3>1, <3>2
  <2>4. g = [p \in Pairs(k) |-> IF p[2] = 0 THEN p[1] ELSE g[<<p[2], p[1] % p[2]>>]]
    <3>1. \A p \in Pairs(k) : p[2] # 0 => g[<<p[2], p[1] % p[2]>>] = h[<<p[2], p[1] % p[2]>>]
      BY <2>2, <2>3
    <3> QED BY <3>1
  <2> HIDE DEF g
  <2>5. GcdUpto(g, k)
    BY <2>4 DEF GcdUpto
  <2> QED BY <2>5
<1> HIDE DEF S
<1>3. n \in S
  BY <1>1, <1>2, SetReaches
<1> QED BY <1>3 DEF S

LEMMA GcdUptoAgree ==
  ASSUME NEW m \in Nat, NEW n \in Nat, m <= n, NEW g, NEW h, GcdUpto(g, m), GcdUpto(h, n)
  PROVE  \A p \in Pairs(m) : g[p] = h[p]
<1> DEFINE S == {k \in 0 .. m : \A p \in Pairs(k) : g[p] = h[p]}
<1>1. 0 \in S
  BY DEF GcdUpto, Pairs
<1>2. ASSUME NEW k \in 1 .. m, k - 1 \in S PROVE k \in S
  <2>1. ASSUME NEW p \in Pairs(k) PROVE g[p] = h[p]
    <3>1. p \in Pairs(m) /\ p \in Pairs(n)
      BY DEF Pairs
    <3>2. /\ g[p] = IF p[2] = 0 THEN p[1] ELSE g[<<p[2], p[1] % p[2]>>]
          /\ h[p] = IF p[2] = 0 THEN p[1] ELSE h[<<p[2], p[1] % p[2]>>]
      BY <3>1 DEF GcdUpto
    <3>3. CASE p[2] # 0
      <4>1. p[1] \in Nat /\ p[2] \in Nat \ {0} /\ p[2] <= k
        BY <3>3 DEF Pairs
      <4>2. p[1] % p[2] \in 0 .. p[2] - 1
        BY <4>1
      <4>3. <<p[2], p[1] % p[2]>> \in Pairs(k - 1)
        BY <4>1, <4>2 DEF Pairs
      <4> QED BY <1>2, <3>2, <3>3, <4>3
    <3> QED BY <3>2, <3>3
  <2> QED BY <2>1
<1> HIDE DEF S
<1>3. m \in S
  BY <1>1, <1>2, SetReaches
<1> QED BY <1>3 DEF S

LEMMA GcdDef ==
  R!Gcd = [p \in Nat \X Nat |-> IF p[2] = 0 THEN p[1] ELSE R!Gcd[<<p[2], p[1] % p[2]>>]]
<1> DEFINE upto(k) == CHOOSE g : GcdUpto(g, k)
           g == [p \in Nat \X Nat |-> upto(p[2])[p]]
           G == R!Gcd
<1>1. \A k \in Nat : GcdUpto(upto(k), k)
  BY GcdUptoExists, Zenon
<1> HIDE DEF upto
<1>2. ASSUME NEW p \in Nat \X Nat
      PROVE  g[p] = IF p[2] = 0 THEN p[1] ELSE g[<<p[2], p[1] % p[2]>>]
  <2>1. p[1] \in Nat /\ p[2] \in Nat /\ p \in Pairs(p[2])
    BY DEF Pairs
  <2>2. g[p] = IF p[2] = 0 THEN p[1] ELSE upto(p[2])[<<p[2], p[1] % p[2]>>]
    BY <1>1, <2>1 DEF GcdUpto
  <2>3. CASE p[2] # 0
    <3> DEFINE r == p[1] % p[2]
    <3>1. r \in 0 .. p[2] - 1
      BY <2>1, <2>3
    <3> HIDE DEF r
    <3>2. r \in Nat /\ r <= p[2] /\ <<p[2], r>> \in Pairs(r) /\ <<p[2], r>> \in Nat \X Nat
      BY <2>1, <3>1 DEF Pairs
    <3>3. upto(r)[<<p[2], r>>] = upto(p[2])[<<p[2], r>>]
      BY <1>1, <2>1, <3>2, GcdUptoAgree
    <3>4. g[<<p[2], r>>] = upto(r)[<<p[2], r>>]
      BY <3>2
    <3> QED BY <2>2, <2>3, <3>3, <3>4 DEF r
  <2> QED BY <2>2, <2>3
<1>3. g = [p \in Nat \X Nat |-> IF p[2] = 0 THEN p[1] ELSE g[<<p[2], p[1] % p[2]>>]]
  BY <1>2
<1> HIDE DEF g
<1>4. G = CHOOSE f : f = [p \in Nat \X Nat |-> IF p[2] = 0 THEN p[1] ELSE f[<<p[2], p[1] % p[2]>>]]
  BY DEF R!Gcd
<1> HIDE DEF G
<1>5. G = [p \in Nat \X Nat |-> IF p[2] = 0 THEN p[1] ELSE G[<<p[2], p[1] % p[2]>>]]
  BY <1>3, <1>4
<1> QED BY <1>5 DEF G

(* A divisor is not greater than the numbers it divides. *)
LEMMA GcdBound ==
  ASSUME NEW b \in Nat
  PROVE  \A a \in Nat : /\ a > 0 => R!Gcd[<<a, b>>] \in Nat \ {0}
                        /\ b > 0 => R!Gcd[<<a, b>>] \in 1 .. b
<1> DEFINE Bounded(c) == \A a \in Nat : /\ a > 0 => R!Gcd[<<a, c>>] \in Nat \ {0}
                                        /\ a > 0 /\ c = 0 => R!Gcd[<<a, c>>] = a
                                        /\ c > 0 => R!Gcd[<<a, c>>] \in 1 .. c
           Wrong == {c \in Nat : ~ Bounded(c)}
<1>1. \A c \in Nat : Bounded(c)
  <2>1. SUFFICES ASSUME Wrong # {} PROVE FALSE
    OBVIOUS
  <2>2. PICK c \in Wrong : \A d \in Wrong : c <= d
    BY <2>1, LeastNatural
  <2>3. ASSUME NEW a \in Nat
        PROVE  R!Gcd[<<a, c>>] = IF c = 0 THEN a ELSE R!Gcd[<<c, a % c>>]
    <3>1. <<a, c>> \in Nat \X Nat
      OBVIOUS
    <3> QED BY <3>1, GcdDef
  <2>4. Bounded(c)
    <3> SUFFICES ASSUME NEW a \in Nat
                 PROVE  /\ a > 0 => R!Gcd[<<a, c>>] \in Nat \ {0}
                        /\ a > 0 /\ c = 0 => R!Gcd[<<a, c>>] = a
                        /\ c > 0 => R!Gcd[<<a, c>>] \in 1 .. c
      OBVIOUS
    <3>1. CASE c = 0
      BY <2>3, <3>1
    <3>2. CASE c # 0
      <4> DEFINE r == a % c
      <4>1. r \in Nat /\ r < c
        BY <3>2
      <4> HIDE DEF r
      <4>2. Bounded(r)
        BY <2>2, <4>1
      <4>3. R!Gcd[<<a, c>>] = R!Gcd[<<c, r>>]
        BY <2>3, <3>2 DEF r
      <4>4. R!Gcd[<<c, r>>] \in 1 .. c
        BY <3>2, <4>1, <4>2
      <4> QED BY <3>2, <4>3, <4>4
    <3> QED BY <3>1, <3>2
  <2> QED BY <2>2, <2>4
<1> QED BY <1>1

Fraction == Int \X (Nat \ {0})

LEMMA FracType ==
  ASSUME NEW n \in Int, NEW d \in Nat \ {0}
  PROVE  R!Frac(n, d) \in Fraction
<1> DEFINE g == R!Gcd[<<R!Abs(n), d>>]
<1>1. R!Abs(n) \in Nat
  BY DEF R!Abs
<1>2. g \in 1 .. d
  BY <1>1, GcdBound
<1>3. R!Frac(n, d) = <<n \div g, d \div g>>
  BY DEF R!Frac
<1> HIDE DEF g
<1>4. n \div g \in Int /\ d \div g \in Nat \ {0}
  BY <1>2
<1> QED BY <1>3, <1>4 DEF Fraction

LEMMA PlusTimesTypes ==
  ASSUME NEW x \in Fraction, NEW y \in Fraction
  PROVE  R!Plus(x, y) \in Fraction /\ R!Times(x, y) \in Fraction
<1>1. /\ x[1] \in Int /\ x[2] \in Nat \ {0} /\ y[1] \in Int /\ y[2] \in Nat \ {0}
  BY DEF Fraction
<1>2. x[2] * y[2] \in Nat \ {0} /\ x[1] * y[2] + y[1] * x[2] \in Int /\ x[1] * y[1] \in Int
  BY <1>1
<1> QED BY <1>2, FracType DEF R!Plus, R!Times

LEMMA WholeType ==
  ASSUME NEW n \in Int
  PROVE  R!Whole(n) \in Fraction /\ R!Whole(n)[1] = n
BY DEF R!Whole, Fraction

LEMMA MinusType ==
  ASSUME NEW x \in Fraction, NEW y \in Fraction
  PROVE  R!Minus(x, y) \in Fraction
<1>1. R!Whole(-1) \in Fraction
  BY WholeType
<1>2. R!Times(R!Whole(-1), y) \in Fraction
  BY <1>1, PlusTimesTypes
<1> QED BY <1>2, PlusTimesTypes DEF R!Minus

LEMMA OverType ==
  ASSUME NEW x \in Fraction, NEW y \in Fraction, y[1] > 0
  PROVE  R!Over(x, y) \in Fraction
<1>1. /\ x[1] \in Int /\ x[2] \in Nat \ {0} /\ y[1] \in Nat \ {0} /\ y[2] \in Nat \ {0}
  BY DEF Fraction
<1>2. x[2] * y[1] \in Nat \ {0} /\ x[1] * y[2] \in Int
  BY <1>1
<1> QED BY <1>2, FracType DEF R!Over

LEMMA AveragedType ==
  ASSUME NEW x \in Fraction, NEW y \in Fraction, NEW hosts \in Nat
  PROVE  R!Averaged(x, hosts, y) \in Fraction
<1>1. R!Whole(hosts) \in Fraction /\ R!Whole(hosts + 1) \in Fraction /\ R!Whole(hosts + 1)[1] > 0
  BY WholeType
<1>2. R!Times(x, R!Whole(hosts)) \in Fraction
  BY <1>1, PlusTimesTypes
<1>3. R!Plus(R!Times(x, R!Whole(hosts)), y) \in Fraction
  BY <1>2, PlusTimesTypes
<1> QED BY <1>1, <1>3, OverType DEF R!Averaged

-----------------------------------------------------------------------------
(* The fold over the rows of a file: r[m] is what the first m rows give.   *)

LEMMA GreatestIs ==
  ASSUME NEW n \in Nat, NEW s \in SUBSET (1 .. n), s # {}
  PROVE  R!Max(s) \in s /\ \A x \in s : x <= R!Max(s)
<1> DEFINE Gaps == {n - x : x \in s}
<1>1. Gaps \subseteq Nat /\ Gaps # {}
  <2>1. \A x \in s : n - x \in Nat
    OBVIOUS
  <2>2. PICK x \in s : TRUE
    OBVIOUS
  <2>3. n - x \in Gaps
    BY <2>2
  <2> QED BY <2>1, <2>3
<1>2. PICK g \in Gaps : \A h \in Gaps : g <= h
  BY <1>1, LeastNatural
<1>3. PICK m \in s : g = n - m
  BY <1>2
<1>4. \A x \in s : m >= x
  <2> TAKE x \in s
  <2>1. n - m <= n - x
    BY <1>2, <1>3
  <2> QED BY <2>1
<1>5. R!Max(s) = CHOOSE x \in s : \A y \in s : x >= y
  BY DEF R!Max
<1>6. R!Max(s) \in s /\ \A y \in s : R!Max(s) >= y
  BY <1>4, <1>5
<1>7. \A x \in s : x \in Int
  OBVIOUS
<1> QED BY <1>6, <1>7

LEMMA WithoutGreatest ==
  ASSUME NEW n \in Nat, NEW k \in 1 .. n, NEW s \in SUBSET (1 .. k), s # {}
  PROVE  s \ {R!Max(s)} \in SUBSET (1 .. k - 1) /\ R!Max(s) \in 1 .. k
<1>1. k \in Nat
  OBVIOUS
<1>2. R!Max(s) \in s /\ \A x \in s : x <= R!Max(s)
  BY <1>1, GreatestIs
<1> DEFINE m == R!Max(s)
<1>3. m \in 1 .. k /\ \A x \in s : x <= m
  BY <1>2
<1> HIDE DEF m
<1>4. \A x \in s \ {m} : x \in 1 .. k - 1
  BY <1>1, <1>3
<1> QED BY <1>3, <1>4 DEF m

FoldUpto(h, rows, k) ==
  h = [s \in SUBSET (1 .. k) |-> IF s = {} THEN << >>
         ELSE R!ReadRow(h[s \ {R!Max(s)}], rows[R!Max(s)])]

LEMMA FoldExists ==
  ASSUME NEW n \in Nat, NEW rows
  PROVE  \E h : FoldUpto(h, rows, n)
<1> DEFINE S == {k \in 0 .. n : \E h : FoldUpto(h, rows, k)}
<1>1. 0 \in S
  <2> DEFINE h == [s \in SUBSET (1 .. 0) |-> << >>]
  <2>1. \A s \in SUBSET (1 .. 0) : s = {}
    OBVIOUS
  <2>2. FoldUpto(h, rows, 0)
    BY <2>1 DEF FoldUpto
  <2> HIDE DEF h
  <2> QED BY <2>2
<1>2. ASSUME NEW k \in 1 .. n, k - 1 \in S PROVE k \in S
  <2>1. PICK g : FoldUpto(g, rows, k - 1)
    BY <1>2
  <2> DEFINE Next1(s) == R!ReadRow(g[s \ {R!Max(s)}], rows[R!Max(s)])
             h == [s \in SUBSET (1 .. k) |-> IF s = {} THEN << >> ELSE Next1(s)]
  <2>2. ASSUME NEW s \in SUBSET (1 .. k - 1) PROVE s \in SUBSET (1 .. k) /\ h[s] = g[s]
    <3>1. s \in SUBSET (1 .. k)
      OBVIOUS
    <3>2. g[s] = IF s = {} THEN << >> ELSE Next1(s)
      BY <2>1 DEF FoldUpto
    <3> QED BY <3>1, <3>2
  <2>3. \A s \in SUBSET (1 .. k) : s # {} => h[s \ {R!Max(s)}] = g[s \ {R!Max(s)}]
    BY <2>2, WithoutGreatest
  <2>4. h = [s \in SUBSET (1 .. k) |-> IF s = {} THEN << >>
               ELSE R!ReadRow(h[s \ {R!Max(s)}], rows[R!Max(s)])]
    BY <2>3
  <2> HIDE DEF h
  <2>5. FoldUpto(h, rows, k)
    BY <2>4 DEF FoldUpto
  <2> QED BY <2>5
<1> HIDE DEF S
<1>3. n \in S
  BY <1>1, <1>2, SetReaches
<1> QED BY <1>3 DEF S

LEMMA RowsFolded ==
  ASSUME NEW rows, NEW n \in Nat, DOMAIN rows = 1 .. n
  PROVE  \E r : /\ r[0] = << >> /\ \A m \in 1 .. n : r[m] = R!ReadRow(r[m-1], rows[m])
                /\ R!FoldLeft(R!ReadRow, << >>, rows) = r[n]
<1> DEFINE h == CHOOSE g : FoldUpto(g, rows, n)
           r == [m \in 0 .. n |-> h[1 .. m]]
<1>1. FoldUpto(h, rows, n)
  BY FoldExists
<1>2. R!FoldLeft(R!ReadRow, << >>, rows) = h[DOMAIN rows]
  <2>1. FoldUpto(CHOOSE g : FoldUpto(g, rows, n), rows, n)
    BY <1>1
  <2> QED BY Zenon DEF R!FoldLeft, R!MapThenFoldSet, FoldUpto
<1> HIDE DEF h
<1>3. r[0] = << >>
  <2>1. 1 .. 0 = {} /\ {} \in SUBSET (1 .. n) /\ 0 \in 0 .. n
    OBVIOUS
  <2>2. h[{}] = << >>
    BY <1>1, <2>1 DEF FoldUpto
  <2> QED BY <2>1, <2>2
<1>4. ASSUME NEW m \in 1 .. n PROVE r[m] = R!ReadRow(r[m-1], rows[m])
  <2> DEFINE s == 1 .. m
  <2>1. s \in SUBSET (1 .. n) /\ s # {} /\ m \in s /\ m \in Nat
    OBVIOUS
  <2>2. R!Max(s) \in s /\ \A x \in s : x <= R!Max(s)
    BY <2>1, GreatestIs
  <2>3. R!Max(s) = m
    BY <2>1, <2>2
  <2>4. s \ {m} = 1 .. m - 1
    OBVIOUS
  <2>5. h[s] = R!ReadRow(h[s \ {R!Max(s)}], rows[R!Max(s)])
    BY <1>1, <2>1 DEF FoldUpto
  <2>6. h[s] = R!ReadRow(h[1 .. m - 1], rows[m])
    BY <2>3, <2>4, <2>5
  <2>7. r[m] = h[1 .. m] /\ r[m-1] = h[1 .. m - 1]
    OBVIOUS
  <2> QED BY <2>6, <2>7
<1>5. R!FoldLeft(R!ReadRow, << >>, rows) = r[n]
  BY <1>2
<1> HIDE DEF r
<1> QED BY <1>3, <1>4, <1>5

-----------------------------------------------------------------------------
(* The rows of a file, merged by flow (read_raw_results).                  *)

RowTyped(w) ==
  /\ w.is \in {"sender", "receiver"}
  /\ w.num \in Int /\ w.time \in Int /\ w.ooo \in Int /\ w.jit \in Int
SenderCells   == [H : Fraction, I : Fraction]
ReceiverCells == [H : Fraction, I : Fraction, J : Fraction, L : Fraction]
IsSide(v, C) == v = << >> \/ \E hosts \in Nat, c \in C : v = <<[hosts |-> hosts, c |-> c]>>
IsEntry(f) ==
  /\ f = [key |-> f.key, dscp |-> f.dscp, sender |-> f.sender, receiver |-> f.receiver]
  /\ IsSide(f.sender, SenderCells) /\ IsSide(f.receiver, ReceiverCells)

(* A row changes its side of an entry. *)
TakesRow(f, e, w) ==
  /\ IsEntry(f) /\ f.key = e.key /\ f[w.is] # << >>
  /\ \A is \in {"sender", "receiver"} : e[is] # << >> => f[is] # << >>

LEMMA FieldsTyped ==
  ASSUME NEW w, RowTyped(w)
  PROVE  R!Fields(w) \in (IF w.is = "sender" THEN SenderCells ELSE ReceiverCells)
<1>1. /\ R!Whole(w.num) \in Fraction /\ R!Whole(w.time) \in Fraction
      /\ R!Whole(w.ooo) \in Fraction /\ R!Whole(w.jit) \in Fraction
  BY WholeType DEF RowTyped
<1> QED BY <1>1 DEF R!Fields, SenderCells, ReceiverCells

LEMMA MergedTakes ==
  ASSUME NEW e, IsEntry(e), NEW w, RowTyped(w)
  PROVE  TakesRow(R!Merged(e, w), e, w)
<1> DEFINE f == R!Merged(e, w)
<1>1. e = [key |-> e.key, dscp |-> e.dscp, sender |-> e.sender, receiver |-> e.receiver]
  BY DEF IsEntry
<1>2. CASE w.is = "sender"
  <2> DEFINE v == <<[hosts |-> 1, c |-> R!Fields(w)]>>
  <2>1. f = [e EXCEPT !["sender"] = v]
    BY <1>2 DEF R!Merged
  <2>2. R!Fields(w) \in SenderCells
    BY <1>2, FieldsTyped
  <2>3. IsSide(v, SenderCells) /\ v # << >>
    BY <2>2 DEF IsSide
  <2> HIDE DEF v, f
  <2>4. f = [key |-> e.key, dscp |-> e.dscp, sender |-> v, receiver |-> e.receiver]
    BY <1>1, <2>1
  <2> QED BY <1>2, <2>3, <2>4 DEF TakesRow, IsEntry, f
<1>3. CASE w.is = "receiver" /\ e.receiver = << >>
  <2> DEFINE v == <<[hosts |-> 1, c |-> R!Fields(w)]>>
  <2>1. f = [e EXCEPT !["receiver"] = v]
    BY <1>3 DEF R!Merged
  <2>2. R!Fields(w) \in ReceiverCells
    BY <1>3, FieldsTyped
  <2>3. IsSide(v, ReceiverCells) /\ v # << >>
    BY <2>2 DEF IsSide
  <2> HIDE DEF v, f
  <2>4. f = [key |-> e.key, dscp |-> e.dscp, sender |-> e.sender, receiver |-> v]
    BY <1>1, <2>1
  <2> QED BY <1>3, <2>3, <2>4 DEF TakesRow, IsEntry, f
<1>4. CASE w.is = "receiver" /\ e.receiver # << >>
  <2>1. PICK hosts \in Nat, c \in ReceiverCells : e.receiver = <<[hosts |-> hosts, c |-> c]>>
    BY <1>4 DEF IsEntry, IsSide
  <2> DEFINE d == [x \in DOMAIN c |-> R!Averaged(c[x], hosts, R!Fields(w)[x])]
             v == <<[hosts |-> hosts + 1, c |-> d]>>
  <2>2. f = [e EXCEPT !.receiver = v]
    BY <1>4, <2>1 DEF R!Merged
  <2>3. R!Fields(w) \in ReceiverCells
    BY <1>4, FieldsTyped
  <2>4. d \in ReceiverCells
    <3>1. DOMAIN c = {"H", "I", "J", "L"}
          /\ \A x \in DOMAIN c : c[x] \in Fraction /\ R!Fields(w)[x] \in Fraction
      BY <2>1, <2>3 DEF ReceiverCells
    <3>2. \A x \in DOMAIN c : R!Averaged(c[x], hosts, R!Fields(w)[x]) \in Fraction
      BY <3>1, AveragedType
    <3> QED BY <3>1, <3>2 DEF ReceiverCells
  <2> HIDE DEF d
  <2>5. IsSide(v, ReceiverCells) /\ v # << >>
    BY <2>1, <2>4 DEF IsSide
  <2> HIDE DEF v, f
  <2>6. f = [key |-> e.key, dscp |-> e.dscp, sender |-> e.sender, receiver |-> v]
    BY <1>1, <2>2
  <2> QED BY <1>4, <2>5, <2>6 DEF TakesRow, IsEntry, f
<1> QED BY <1>2, <1>3, <1>4 DEF RowTyped

LEMMA LeastIs ==
  ASSUME NEW s \in SUBSET Nat, s # {}
  PROVE  R!Min(s) \in s
<1>1. PICK m \in s : \A x \in s : m <= x
  BY LeastNatural
<1>2. R!Min(s) = CHOOSE x \in s : \A y \in s : x <= y
  BY DEF R!Min
<1> QED BY <1>1, <1>2

NewEntry(w) == [key |-> R!Key(w), dscp |-> w.dscp, sender |-> << >>, receiver |-> << >>]
RowIsNew(flows, w, after) ==
  /\ \A j \in 1 .. Len(flows) : flows[j].key # R!Key(w)
  /\ after = Append(flows, R!Merged(NewEntry(w), w))
RowIsMerged(flows, w, after) ==
  \E i \in 1 .. Len(flows) :
     flows[i].key = R!Key(w) /\ after = [flows EXCEPT ![i] = R!Merged(flows[i], w)]
LEMMA WithRowIs ==
  ASSUME NEW flows, Len(flows) \in Nat, NEW w
  PROVE  \/ RowIsNew(flows, w, R!WithRow(flows, w))
         \/ RowIsMerged(flows, w, R!WithRow(flows, w))
<1> DEFINE n == Len(flows)
           I == {j \in 1 .. n : flows[j].key = R!Key(w)}
           i == R!SelectInSeq(flows, LAMBDA f : f.key = R!Key(w))
<1>1. i = IF I # {} THEN R!Min(I) ELSE 0
  BY DEF R!SelectInSeq
<1>2. R!WithRow(flows, w) =
        IF i = 0 THEN Append(flows, R!Merged(NewEntry(w), w))
                 ELSE [flows EXCEPT ![i] = R!Merged(flows[i], w)]
  BY Zenon DEF R!WithRow, NewEntry
<1> HIDE DEF i
<1>3. CASE I = {}
  BY <1>1, <1>2, <1>3 DEF RowIsNew
<1>4. CASE I # {}
  <2>0. I \in SUBSET Nat
    OBVIOUS
  <2> HIDE DEF I
  <2>1. R!Min(I) \in I
    BY <1>4, <2>0, LeastIs
  <2>2. i \in I
    BY <1>1, <1>4, <2>1
  <2>3. i \in 1 .. n /\ flows[i].key = R!Key(w)
    BY <2>2 DEF I
  <2>4. i # 0
    BY <2>3
  <2> QED BY <1>2, <2>3, <2>4 DEF RowIsMerged
<1> QED BY <1>3, <1>4

IterationIsNew(res, w, after) ==
  /\ \A j \in 1 .. Len(res) : res[j].it # w.it
  /\ after = Append(res, [it |-> w.it, flows |-> R!WithRow(<< >>, w)])
IterationIsKnown(res, w, after) ==
  \E i \in 1 .. Len(res) :
     res[i].it = w.it /\ after = [res EXCEPT ![i].flows = R!WithRow(res[i].flows, w)]
LEMMA ReadRowIs ==
  ASSUME NEW res, Len(res) \in Nat, NEW w
  PROVE  \/ IterationIsNew(res, w, R!ReadRow(res, w))
         \/ IterationIsKnown(res, w, R!ReadRow(res, w))
<1> DEFINE n == Len(res)
           I == {j \in 1 .. n : res[j].it = w.it}
           i == R!SelectInSeq(res, LAMBDA x : x.it = w.it)
<1>1. i = IF I # {} THEN R!Min(I) ELSE 0
  BY DEF R!SelectInSeq
<1>2. R!ReadRow(res, w) =
        IF i = 0 THEN Append(res, [it |-> w.it, flows |-> R!WithRow(<< >>, w)])
                 ELSE [res EXCEPT ![i].flows = R!WithRow(res[i].flows, w)]
  BY Zenon DEF R!ReadRow
<1> HIDE DEF i
<1>3. CASE I = {}
  BY <1>1, <1>2, <1>3 DEF IterationIsNew
<1>4. CASE I # {}
  <2>0. I \in SUBSET Nat
    OBVIOUS
  <2> HIDE DEF I
  <2>1. R!Min(I) \in I
    BY <1>4, <2>0, LeastIs
  <2>2. i \in I
    BY <1>1, <1>4, <2>1
  <2>3. i \in 1 .. n /\ res[i].it = w.it
    BY <2>2 DEF I
  <2>4. i # 0
    BY <2>3
  <2> QED BY <1>2, <2>3, <2>4 DEF IterationIsKnown
<1> QED BY <1>3, <1>4

(* The flows of iteration it tell the first m rows: an entry per key, from *)
(* a row of that key, with the side of every row filled.                   *)
FlowsTell(flows, rows, m, it) ==
  /\ flows \in Seq(Elements(flows))
  /\ \A j \in 1 .. Len(flows) : IsEntry(flows[j])
  /\ \A j, l \in 1 .. Len(flows) : flows[j].key = flows[l].key => j = l
  /\ \A j \in 1 .. Len(flows) :
       \E p \in 1 .. m : rows[p].it = it /\ R!Key(rows[p]) = flows[j].key
  /\ \A p \in 1 .. m : rows[p].it = it =>
       \E j \in 1 .. Len(flows) :
         flows[j].key = R!Key(rows[p]) /\ flows[j][rows[p].is] # << >>

LEMMA FlowTaken ==
  ASSUME NEW rows, NEW m \in Nat, RowTyped(rows[m+1]), NEW flows, NEW it,
         \A p \in 1 .. m : RowTyped(rows[p]),
         FlowsTell(flows, rows, m, it), rows[m+1].it = it
  PROVE  FlowsTell(R!WithRow(flows, rows[m+1]), rows, m + 1, it)
<1> DEFINE n == Len(flows)
           w == rows[m+1]
           K == R!Key(w)
           after == R!WithRow(flows, w)
<1>0. flows \in Seq(Elements(flows)) /\ n \in Nat /\ flows = [j \in 1 .. n |-> flows[j]]
  BY DEF FlowsTell
<1>1. /\ \A j \in 1 .. n : IsEntry(flows[j])
      /\ \A j, l \in 1 .. n : flows[j].key = flows[l].key => j = l
      /\ \A j \in 1 .. n : \E p \in 1 .. m : rows[p].it = it /\ R!Key(rows[p]) = flows[j].key
      /\ \A p \in 1 .. m : rows[p].it = it =>
           \E j \in 1 .. n : flows[j].key = R!Key(rows[p]) /\ flows[j][rows[p].is] # << >>
  BY DEF FlowsTell
<1>2. m + 1 \in 1 .. m + 1 /\ \A p \in 1 .. m : p \in 1 .. m + 1
  OBVIOUS
<1>3. \A p \in 1 .. m + 1 : p \in 1 .. m \/ p = m + 1
  OBVIOUS
<1>4. \A p \in 1 .. m : rows[p].is \in {"sender", "receiver"}
  BY DEF RowTyped
<1>5. ASSUME \A j \in 1 .. n : flows[j].key # K, after = Append(flows, R!Merged(NewEntry(w), w))
      PROVE  FlowsTell(after, rows, m + 1, it)
  <2> DEFINE e == R!Merged(NewEntry(w), w)
  <2>1. TakesRow(e, NewEntry(w), w)
    <3>1. IsEntry(NewEntry(w))
      BY DEF IsEntry, NewEntry, IsSide
    <3> QED BY <3>1, MergedTakes
  <2>2. IsEntry(e) /\ e.key = K /\ e[w.is] # << >>
    BY <2>1 DEF TakesRow, NewEntry
  <2> HIDE DEF e
  <2>3. /\ after \in Seq(Elements(flows) \cup {e}) /\ Len(after) = n + 1
        /\ \A j \in 1 .. n : after[j] = flows[j]
        /\ after[n+1] = e
    BY <1>0, <1>5 DEF e
  <2> HIDE DEF after, n, w, K
  <2>4. \A j \in 1 .. n + 1 : j \in 1 .. n \/ j = n + 1
    BY <1>0
  <2>5. \A j \in 1 .. n : j \in 1 .. n + 1
    BY <1>0
  <2>6. n + 1 \in 1 .. n + 1
    BY <1>0
  <2>7. after \in Seq(Elements(after))
    BY <2>3, ElementsOfSeq
  <2>8. \A j \in 1 .. n + 1 : IsEntry(after[j])
    BY <1>1, <2>2, <2>3, <2>4
  <2>9. \A j, l \in 1 .. n + 1 : after[j].key = after[l].key => j = l
    <3> TAKE j, l \in 1 .. n + 1
    <3>1. CASE j \in 1 .. n /\ l \in 1 .. n
      BY <1>1, <2>3, <3>1
    <3>2. CASE j = n + 1 /\ l \in 1 .. n
      BY <1>5, <2>2, <2>3, <3>2
    <3>3. CASE j \in 1 .. n /\ l = n + 1
      BY <1>5, <2>2, <2>3, <3>3
    <3> QED BY <2>4, <3>1, <3>2, <3>3
  <2>10. \A j \in 1 .. n + 1 :
           \E p \in 1 .. m + 1 : rows[p].it = it /\ R!Key(rows[p]) = after[j].key
    <3> TAKE j \in 1 .. n + 1
    <3>1. CASE j \in 1 .. n
      BY <1>1, <1>2, <2>3, <3>1
    <3>2. CASE j = n + 1
      BY <1>2, <2>2, <2>3, <3>2 DEF w, K
    <3> QED BY <2>4, <3>1, <3>2
  <2>11. \A p \in 1 .. m + 1 : rows[p].it = it =>
           \E j \in 1 .. n + 1 : after[j].key = R!Key(rows[p]) /\ after[j][rows[p].is] # << >>
    <3> TAKE p \in 1 .. m + 1
    <3>1. CASE p \in 1 .. m
      BY <1>1, <2>3, <2>5, <3>1
    <3>2. CASE p = m + 1
      BY <2>2, <2>3, <2>6, <3>2 DEF w, K
    <3> QED BY <1>3, <3>1, <3>2
  <2> QED BY <2>3, <2>7, <2>8, <2>9, <2>10, <2>11 DEF FlowsTell
<1>6. ASSUME NEW i \in 1 .. n, flows[i].key = K,
             after = [flows EXCEPT ![i] = R!Merged(flows[i], w)]
      PROVE  FlowsTell(after, rows, m + 1, it)
  <2> DEFINE e == R!Merged(flows[i], w)
  <2>1. TakesRow(e, flows[i], w)
    BY <1>1, MergedTakes
  <2>2. /\ IsEntry(e) /\ e.key = K /\ e[w.is] # << >>
        /\ \A is \in {"sender", "receiver"} : flows[i][is] # << >> => e[is] # << >>
    BY <1>6, <2>1 DEF TakesRow
  <2> HIDE DEF e
  <2>3. after = [j \in 1 .. n |-> IF j = i THEN e ELSE flows[j]]
    BY <1>0, <1>6 DEF e
  <2> HIDE DEF after, n, w, K
  <2>4. after \in Seq(Elements(flows) \cup {e}) /\ Len(after) = n
    BY <1>0, <2>3 DEF n, Elements
  <2>5. after \in Seq(Elements(after))
    BY <2>4, ElementsOfSeq
  <2>6. \A j \in 1 .. n : IsEntry(after[j]) /\ after[j].key = flows[j].key
    BY <1>1, <1>6, <2>2, <2>3
  <2>7. \A j, l \in 1 .. n : after[j].key = after[l].key => j = l
    BY <1>1, <2>6
  <2>8. \A j \in 1 .. n :
           \E p \in 1 .. m + 1 : rows[p].it = it /\ R!Key(rows[p]) = after[j].key
    BY <1>1, <1>2, <2>6
  <2>9. \A p \in 1 .. m + 1 : rows[p].it = it =>
           \E j \in 1 .. n : after[j].key = R!Key(rows[p]) /\ after[j][rows[p].is] # << >>
    <3> TAKE p \in 1 .. m + 1
    <3>1. ASSUME p \in 1 .. m, rows[p].it = it
          PROVE  \E j \in 1 .. n : after[j].key = R!Key(rows[p]) /\ after[j][rows[p].is] # << >>
      <4>1. PICK j \in 1 .. n : flows[j].key = R!Key(rows[p]) /\ flows[j][rows[p].is] # << >>
        BY <1>1, <3>1
      <4>2. after[j][rows[p].is] # << >>
        BY <1>4, <2>2, <2>3, <3>1, <4>1
      <4> QED BY <2>6, <4>1, <4>2
    <3>2. CASE p = m + 1
      BY <1>6, <2>2, <2>3, <2>6, <3>2 DEF w, K
    <3> QED BY <1>3, <3>1, <3>2
  <2> QED BY <2>4, <2>5, <2>6, <2>7, <2>8, <2>9 DEF FlowsTell
<1>7. RowIsNew(flows, w, after) \/ RowIsMerged(flows, w, after)
  BY <1>0, WithRowIs
<1>8. CASE RowIsNew(flows, w, after)
  BY <1>5, <1>8 DEF RowIsNew
<1>9. CASE RowIsMerged(flows, w, after)
  BY <1>6, <1>9 DEF RowIsMerged
<1> QED BY <1>7, <1>8, <1>9

LEMMA FlowOfOther ==
  ASSUME NEW rows, NEW m \in Nat, NEW flows, NEW it, FlowsTell(flows, rows, m, it),
         rows[m+1].it # it
  PROVE  FlowsTell(flows, rows, m + 1, it)
<1>1. \A p \in 1 .. m : p \in 1 .. m + 1
  OBVIOUS
<1>2. \A p \in 1 .. m + 1 : p \in 1 .. m \/ p = m + 1
  OBVIOUS
<1> QED BY <1>1, <1>2 DEF FlowsTell

(* What is read tells the first m rows: an entry per iteration. *)
ReadTells(res, rows, m) ==
  /\ res \in Seq(Elements(res))
  /\ \A i \in 1 .. Len(res) : res[i] = [it |-> res[i].it, flows |-> res[i].flows]
  /\ \A i \in 1 .. Len(res) : FlowsTell(res[i].flows, rows, m, res[i].it)
  /\ \A i, j \in 1 .. Len(res) : res[i].it = res[j].it => i = j
  /\ \A p \in 1 .. m : \E i \in 1 .. Len(res) : res[i].it = rows[p].it

LEMMA RowRead ==
  ASSUME NEW rows, NEW m \in Nat, \A p \in 1 .. m + 1 : RowTyped(rows[p]), NEW res,
         ReadTells(res, rows, m)
  PROVE  ReadTells(R!ReadRow(res, rows[m+1]), rows, m + 1)
<1> DEFINE n == Len(res)
           w == rows[m+1]
           after == R!ReadRow(res, w)
<1>0. res \in Seq(Elements(res)) /\ n \in Nat /\ res = [j \in 1 .. n |-> res[j]]
  BY DEF ReadTells
<1>1. /\ \A i \in 1 .. n : res[i] = [it |-> res[i].it, flows |-> res[i].flows]
      /\ \A i \in 1 .. n : FlowsTell(res[i].flows, rows, m, res[i].it)
      /\ \A i, j \in 1 .. n : res[i].it = res[j].it => i = j
      /\ \A p \in 1 .. m : \E i \in 1 .. n : res[i].it = rows[p].it
  BY DEF ReadTells
<1>2. m + 1 \in 1 .. m + 1 /\ \A p \in 1 .. m : p \in 1 .. m + 1
  OBVIOUS
<1>3. \A p \in 1 .. m + 1 : p \in 1 .. m \/ p = m + 1
  OBVIOUS
<1>4. RowTyped(w) /\ \A p \in 1 .. m : RowTyped(rows[p])
  BY <1>2
<1>5. ASSUME NEW i \in 1 .. n, res[i].it # w.it
      PROVE  FlowsTell(res[i].flows, rows, m + 1, res[i].it)
  BY <1>1, <1>5, FlowOfOther
<1>6. ASSUME IterationIsNew(res, w, after)
      PROVE  ReadTells(after, rows, m + 1)
  <2> DEFINE flows == R!WithRow(<< >>, w)
             e == [it |-> w.it, flows |-> flows]
  <2>0. after = Append(res, e) /\ \A j \in 1 .. n : res[j].it # w.it
    BY <1>6 DEF IterationIsNew
  <2>1. FlowsTell(<< >>, rows, m, w.it)
    <3>1. \A p \in 1 .. m : rows[p].it # w.it
      BY <1>1, <2>0
    <3>2. << >> \in Seq(Elements(<< >>)) /\ Len(<< >>) = 0 /\ 1 .. 0 = {}
      OBVIOUS
    <3> QED BY <3>1, <3>2 DEF FlowsTell
  <2>2. FlowsTell(flows, rows, m + 1, w.it)
    BY <1>4, <2>1, FlowTaken
  <2> HIDE DEF flows
  <2>3. e = [it |-> e.it, flows |-> e.flows] /\ e.it = w.it /\ e.flows = flows
    OBVIOUS
  <2> HIDE DEF e
  <2>4. /\ after \in Seq(Elements(res) \cup {e}) /\ Len(after) = n + 1
        /\ \A j \in 1 .. n : after[j] = res[j]
        /\ after[n+1] = e
    BY <1>0, <2>0
  <2> HIDE DEF after, n, w
  <2>5. \A j \in 1 .. n + 1 : j \in 1 .. n \/ j = n + 1
    BY <1>0
  <2>6. n + 1 \in 1 .. n + 1 /\ \A j \in 1 .. n : j \in 1 .. n + 1
    BY <1>0
  <2>7. after \in Seq(Elements(after))
    BY <2>4, ElementsOfSeq
  <2>8. \A j \in 1 .. n + 1 : after[j] = [it |-> after[j].it, flows |-> after[j].flows]
    BY <1>1, <2>3, <2>4, <2>5
  <2>9. \A j \in 1 .. n + 1 : FlowsTell(after[j].flows, rows, m + 1, after[j].it)
    BY <1>5, <2>0, <2>2, <2>3, <2>4, <2>5
  <2>10. \A j, l \in 1 .. n + 1 : after[j].it = after[l].it => j = l
    <3> TAKE j, l \in 1 .. n + 1
    <3>1. CASE j \in 1 .. n /\ l \in 1 .. n
      BY <1>1, <2>4, <3>1
    <3>2. CASE j = n + 1 /\ l \in 1 .. n
      BY <2>0, <2>3, <2>4, <3>2
    <3>3. CASE j \in 1 .. n /\ l = n + 1
      BY <2>0, <2>3, <2>4, <3>3
    <3> QED BY <2>5, <3>1, <3>2, <3>3
  <2>11. \A p \in 1 .. m + 1 : \E j \in 1 .. n + 1 : after[j].it = rows[p].it
    <3> TAKE p \in 1 .. m + 1
    <3>1. CASE p \in 1 .. m
      BY <1>1, <2>4, <2>6, <3>1
    <3>2. CASE p = m + 1
      BY <2>3, <2>4, <2>6, <3>2 DEF w
    <3> QED BY <1>3, <3>1, <3>2
  <2> QED BY <2>4, <2>7, <2>8, <2>9, <2>10, <2>11 DEF ReadTells
<1>7. ASSUME IterationIsKnown(res, w, after)
      PROVE  ReadTells(after, rows, m + 1)
  <2>0. PICK i \in 1 .. n :
          res[i].it = w.it /\ after = [res EXCEPT ![i].flows = R!WithRow(res[i].flows, w)]
    BY <1>7 DEF IterationIsKnown
  <2> DEFINE flows == R!WithRow(res[i].flows, w)
             e == [it |-> w.it, flows |-> flows]
  <2>1. FlowsTell(res[i].flows, rows, m, w.it)
    BY <1>1, <2>0
  <2>2. FlowsTell(flows, rows, m + 1, w.it)
    BY <1>4, <2>1, FlowTaken
  <2>3. [res[i] EXCEPT !.flows = flows] = e
    <3> HIDE DEF flows, w
    <3>1. res[i] = [it |-> w.it, flows |-> res[i].flows]
      BY <1>1, <2>0
    <3> QED BY <3>1
  <2>4. after = [res EXCEPT ![i] = e]
    BY <2>0, <2>3
  <2> HIDE DEF flows
  <2>5. e = [it |-> e.it, flows |-> e.flows] /\ e.it = w.it /\ e.flows = flows
    OBVIOUS
  <2> HIDE DEF e
  <2>6. after = [j \in 1 .. n |-> IF j = i THEN e ELSE res[j]]
    BY <1>0, <2>4
  <2> HIDE DEF after, n, w
  <2>7. after \in Seq(Elements(res) \cup {e}) /\ Len(after) = n
    BY <1>0, <2>6 DEF n, Elements
  <2>8. after \in Seq(Elements(after))
    BY <2>7, ElementsOfSeq
  <2>9. \A j \in 1 .. n : after[j] = [it |-> after[j].it, flows |-> after[j].flows]
    BY <1>1, <2>5, <2>6
  <2>10. \A j \in 1 .. n : after[j].it = res[j].it
    BY <2>0, <2>5, <2>6
  <2>11. \A j \in 1 .. n : FlowsTell(after[j].flows, rows, m + 1, after[j].it)
    <3> TAKE j \in 1 .. n
    <3>1. CASE j = i
      BY <2>2, <2>5, <2>6, <3>1
    <3>2. CASE j # i
      <4>1. res[j].it # w.it
        BY <1>1, <2>0, <3>2
      <4> QED BY <1>5, <2>6, <3>2, <4>1
    <3> QED BY <3>1, <3>2
  <2>12. \A j, l \in 1 .. n : after[j].it = after[l].it => j = l
    BY <1>1, <2>10
  <2>13. \A p \in 1 .. m + 1 : \E j \in 1 .. n : after[j].it = rows[p].it
    <3> TAKE p \in 1 .. m + 1
    <3>1. CASE p \in 1 .. m
      BY <1>1, <2>10, <3>1
    <3>2. CASE p = m + 1
      BY <2>0, <2>10, <3>2 DEF w
    <3> QED BY <1>3, <3>1, <3>2
  <2> QED BY <2>7, <2>8, <2>9, <2>11, <2>12, <2>13 DEF ReadTells
<1>8. IterationIsNew(res, w, after) \/ IterationIsKnown(res, w, after)
  BY <1>0, ReadRowIs
<1> QED BY <1>6, <1>7, <1>8

LEMMA RowsRead ==
  ASSUME NEW rows, NEW n \in Nat, DOMAIN rows = 1 .. n, \A p \in 1 .. n : RowTyped(rows[p])
  PROVE  ReadTells(R!FoldLeft(R!ReadRow, << >>, rows), rows, n)
<1>1. PICK r : /\ r[0] = << >> /\ \A m \in 1 .. n : r[m] = R!ReadRow(r[m-1], rows[m])
               /\ R!FoldLeft(R!ReadRow, << >>, rows) = r[n]
  BY RowsFolded
<1> DEFINE S == {m \in 0 .. n : ReadTells(r[m], rows, m)}
<1>2. 0 \in S
  <2>1. << >> \in Seq(Elements(<< >>)) /\ Len(<< >>) = 0 /\ 1 .. 0 = {}
    OBVIOUS
  <2>2. ReadTells(<< >>, rows, 0)
    BY <2>1 DEF ReadTells
  <2> QED BY <1>1, <2>2
<1>3. ASSUME NEW k \in 1 .. n, k - 1 \in S PROVE k \in S
  <2> DEFINE m == k - 1
  <2>1. m \in Nat /\ k = m + 1 /\ ReadTells(r[m], rows, m)
    BY <1>3
  <2>2. r[k] = R!ReadRow(r[m], rows[k])
    BY <1>1
  <2>3. \A p \in 1 .. m + 1 : RowTyped(rows[p])
    BY <2>1
  <2> HIDE DEF m
  <2>4. ReadTells(R!ReadRow(r[m], rows[m+1]), rows, m + 1)
    BY <2>1, <2>3, RowRead
  <2>5. ReadTells(r[k], rows, k)
    BY <2>1, <2>2, <2>4
  <2> QED BY <2>5
<1> HIDE DEF S
<1>4. n \in S
  BY <1>2, <1>3, SetReaches
<1> QED BY <1>1, <1>4 DEF S

-----------------------------------------------------------------------------
(* The lines of a sheet (export_raw_results). *)

FlatUpto(h, parts, k) ==
  h = [i \in 1 .. k |-> IF i = 1 THEN parts[i] ELSE h[i-1] \o parts[i]]

LEMMA FlatExists ==
  ASSUME NEW n \in Nat, NEW parts
  PROVE  \E h : FlatUpto(h, parts, n)
<1> DEFINE S == {k \in 0 .. n : \E h : FlatUpto(h, parts, k)}
<1>1. 0 \in S
  <2> DEFINE h == [i \in 1 .. 0 |-> parts[i]]
  <2>1. 1 .. 0 = {}
    OBVIOUS
  <2>2. FlatUpto(h, parts, 0)
    BY <2>1 DEF FlatUpto
  <2> HIDE DEF h
  <2> QED BY <2>2
<1>2. ASSUME NEW k \in 1 .. n, k - 1 \in S PROVE k \in S
  <2>1. PICK g : FlatUpto(g, parts, k - 1)
    BY <1>2
  <2> DEFINE h == [i \in 1 .. k |-> IF i = 1 THEN parts[i] ELSE g[i-1] \o parts[i]]
  <2>2. ASSUME NEW i \in 1 .. k - 1 PROVE i \in 1 .. k /\ h[i] = g[i]
    <3>1. i \in 1 .. k
      OBVIOUS
    <3>2. g[i] = IF i = 1 THEN parts[i] ELSE g[i-1] \o parts[i]
      BY <2>1 DEF FlatUpto
    <3> QED BY <3>1, <3>2
  <2>3. ASSUME NEW i \in 1 .. k
        PROVE  h[i] = IF i = 1 THEN parts[i] ELSE h[i-1] \o parts[i]
    <3>1. h[i] = IF i = 1 THEN parts[i] ELSE g[i-1] \o parts[i]
      BY Zenon
    <3> HIDE DEF h
    <3>2. i # 1 => i - 1 \in 1 .. k - 1
      OBVIOUS
    <3>3. i # 1 => h[i-1] = g[i-1]
      BY <2>2, <3>2
    <3> QED BY <3>1, <3>3
  <2>4. h = [i \in 1 .. k |-> IF i = 1 THEN parts[i] ELSE h[i-1] \o parts[i]]
    <3> DEFINE G(i) == IF i = 1 THEN parts[i] ELSE g[i-1] \o parts[i]
               H(i) == IF i = 1 THEN parts[i] ELSE h[i-1] \o parts[i]
    <3>1. \A i \in 1 .. k : h[i] = H(i)
      BY <2>3
    <3>2. h = [i \in 1 .. k |-> G(i)]
      BY Zenon
    <3> HIDE DEF h, H, G
    <3>3. h = [i \in 1 .. k |-> H(i)]
      BY <3>1, <3>2
    <3> QED BY <3>3 DEF H
  <2> HIDE DEF h
  <2>5. FlatUpto(h, parts, k)
    BY <2>4 DEF FlatUpto
  <2> QED BY <2>5
<1> HIDE DEF S
<1>3. n \in S
  BY <1>1, <1>2, SetReaches
<1> QED BY <1>3 DEF S

(* f[m] is what the first m parts give one after the other. *)
Flattens(f, parts, n) ==
  /\ f[0] = << >>
  /\ \A m \in 1 .. n : f[m] = IF m = 1 THEN parts[m] ELSE f[m-1] \o parts[m]
  /\ R!FlattenSeq(parts) = f[n]

LEMMA FlattenedBy ==
  ASSUME NEW parts, NEW n \in Nat, Len(parts) = n, parts = [i \in 1 .. n |-> parts[i]]
  PROVE  \E f : Flattens(f, parts, n)
<1>1. CASE n = 0
  <2>1. R!FlattenSeq(parts) = parts
    BY <1>1 DEF R!FlattenSeq
  <2>2. parts = << >>
    BY <1>1
  <2> DEFINE f == [m \in {0} |-> << >>]
  <2>3. f[0] = << >> /\ 1 .. n = {}
    BY <1>1
  <2> HIDE DEF f
  <2> QED BY <1>1, <2>1, <2>2, <2>3 DEF Flattens
<1>2. CASE n # 0
  <2> DEFINE h == CHOOSE g : g = [i \in 1 .. Len(parts) |->
                                    IF i = 1 THEN parts[i] ELSE g[i-1] \o parts[i]]
             f == [m \in 0 .. n |-> IF m = 0 THEN << >> ELSE h[m]]
  <2>1. R!FlattenSeq(parts) = h[Len(parts)]
    BY <1>2 DEF R!FlattenSeq
  <2>2. \E g : g = [i \in 1 .. Len(parts) |-> IF i = 1 THEN parts[i] ELSE g[i-1] \o parts[i]]
    BY FlatExists DEF FlatUpto
  <2>3. h = [i \in 1 .. Len(parts) |-> IF i = 1 THEN parts[i] ELSE h[i-1] \o parts[i]]
    BY <2>2, Zenon
  <2> HIDE DEF h
  <2>4. \A m \in 1 .. n : f[m] = IF m = 1 THEN parts[m] ELSE f[m-1] \o parts[m]
    <3> TAKE m \in 1 .. n
    <3>1. h[m] = IF m = 1 THEN parts[m] ELSE h[m-1] \o parts[m]
      BY <2>3
    <3>2. f[m] = h[m] /\ (m # 1 => f[m-1] = h[m-1])
      OBVIOUS
    <3> HIDE DEF f
    <3> QED BY <3>1, <3>2
  <2>5. f[0] = << >> /\ f[n] = h[n]
    BY <1>2
  <2> HIDE DEF f
  <2> QED BY <2>1, <2>4, <2>5 DEF Flattens
<1> QED BY <1>1, <1>2

IsLine(l) ==
  /\ l = [a |-> l.a, flow |-> l.flow, is |-> l.is, e |-> l.e, c |-> l.c]
  /\ l.a = "address" <=> l.is \in {"sender", "receiver"}
  /\ l.a = "address" => /\ "H" \in DOMAIN l.c /\ "I" \in DOMAIN l.c
                        /\ l.c["H"] \in Fraction /\ l.c["I"] \in Fraction
(* The first n lines have the flows in pairs, the line of the sender first. *)
FlowsPaired(lines, n) ==
  /\ \A i \in 1 .. n : IsLine(lines[i])
  /\ \A i \in 1 .. n : lines[i].is = "receiver" =>
       i > 1 /\ lines[i-1].is = "sender" /\ lines[i-1].flow = lines[i].flow
  /\ \A i \in 1 .. n : lines[i].is = "sender" => i < n /\ lines[i+1].is = "receiver"
Unfilled(l) == "M" \notin DOMAIN l.c /\ "O" \notin DOMAIN l.c
Exported(lines) ==
  /\ lines \in Seq(Elements(lines)) /\ FlowsPaired(lines, Len(lines))
  /\ \A i \in 1 .. Len(lines) : Unfilled(lines[i])

LEMMA NothingExported == Exported(<< >>)
<1>1. << >> \in Seq(Elements(<< >>)) /\ Len(<< >>) = 0 /\ 1 .. 0 = {}
  OBVIOUS
<1> QED BY <1>1 DEF Exported, FlowsPaired

IsTitle(l) == IsLine(l) /\ Unfilled(l) /\ l.a # "address"
LEMMA TitlesExported ==
  ASSUME NEW b, IsTitle(b), NEW l, IsTitle(l)
  PROVE  Exported(<<l>>) /\ Exported(<<b, l>>)
<1>1. ASSUME NEW s, s \in Seq({b, l}) PROVE Exported(s)
  <2>1. s \in Seq(Elements(s))
    BY <1>1, ElementsOfSeq
  <2>2. \A i \in 1 .. Len(s) : s[i] = b \/ s[i] = l
    BY <1>1
  <2>3. \A i \in 1 .. Len(s) : IsTitle(s[i])
    BY <2>2
  <2> QED BY <2>1, <2>3 DEF Exported, FlowsPaired, IsLine, IsTitle
<1>2. <<l>> \in Seq({b, l}) /\ <<b, l>> \in Seq({b, l})
  OBVIOUS
<1> QED BY <1>1, <1>2

LEMMA FlowExported ==
  ASSUME NEW f, IsEntry(f), f.sender # << >>, f.receiver # << >>
  PROVE  Exported(R!FlowLines(f))
<1>1. PICK p \in Nat, c \in SenderCells : f.sender = <<[hosts |-> p, c |-> c]>>
  BY DEF IsEntry, IsSide
<1>2. PICK q \in Nat, d \in ReceiverCells : f.receiver = <<[hosts |-> q, c |-> d]>>
  BY DEF IsEntry, IsSide
<1> DEFINE l == [a |-> "address", flow |-> f.key, is |-> "sender", e |-> <<f.dscp>>, c |-> c]
           m == [a |-> "address", flow |-> f.key, is |-> "receiver", e |-> <<f.dscp>>, c |-> d]
           s == <<l, m>>
<1>3. f["sender"] = <<[hosts |-> p, c |-> c]>> /\ f["receiver"] = <<[hosts |-> q, c |-> d]>>
  BY <1>1, <1>2
<1>4. f["sender"][1].c = c /\ f["receiver"][1].c = d
  BY <1>3
<1>5. R!FlowLines(f) = s
  BY <1>3, <1>4 DEF R!FlowLines
<1>6. IsLine(l) /\ Unfilled(l) /\ l.is = "sender" /\ l.flow = f.key
  <2>1. DOMAIN c = {"H", "I"} /\ c["H"] \in Fraction /\ c["I"] \in Fraction
    BY <1>1 DEF SenderCells
  <2>2. l.c = c
    OBVIOUS
  <2> QED BY <2>1, <2>2 DEF IsLine, Unfilled
<1>7. IsLine(m) /\ Unfilled(m) /\ m.is = "receiver" /\ m.flow = f.key
  <2>1. DOMAIN d = {"H", "I", "J", "L"} /\ d["H"] \in Fraction /\ d["I"] \in Fraction
    BY <1>2 DEF ReceiverCells
  <2>2. m.c = d
    OBVIOUS
  <2> QED BY <2>1, <2>2 DEF IsLine, Unfilled
<1> HIDE DEF l, m
<1>8. s \in Seq({l, m}) /\ Len(s) = 2 /\ s[1] = l /\ s[2] = m
  OBVIOUS
<1> HIDE DEF s
<1>9. s \in Seq(Elements(s))
  BY <1>8, ElementsOfSeq
<1>10. \A i \in 1 .. 2 : i = 1 \/ i = 2
  OBVIOUS
<1>11. \A i \in 1 .. 2 : IsLine(s[i]) /\ Unfilled(s[i])
  BY <1>6, <1>7, <1>8, <1>10
<1>12. \A i \in 1 .. 2 : s[i].is = "receiver" =>
         i > 1 /\ s[i-1].is = "sender" /\ s[i-1].flow = s[i].flow
  <2> SUFFICES ASSUME NEW i \in 1 .. 2, s[i].is = "receiver"
               PROVE  i > 1 /\ s[i-1].is = "sender" /\ s[i-1].flow = s[i].flow
    OBVIOUS
  <2>1. i = 2 /\ i - 1 = 1
    BY <1>6, <1>8, <1>10
  <2> QED BY <1>6, <1>7, <1>8, <2>1
<1>13. \A i \in 1 .. 2 : s[i].is = "sender" => i < 2 /\ s[i+1].is = "receiver"
  <2> SUFFICES ASSUME NEW i \in 1 .. 2, s[i].is = "sender"
               PROVE  i < 2 /\ s[i+1].is = "receiver"
    OBVIOUS
  <2>1. i = 1 /\ i + 1 = 2
    BY <1>7, <1>8, <1>10
  <2> QED BY <1>7, <1>8, <2>1
<1>14. Exported(s)
  BY <1>8, <1>9, <1>11, <1>12, <1>13 DEF Exported, FlowsPaired
<1> QED BY <1>5, <1>14

LEMMA BothExported ==
  ASSUME NEW s, Exported(s), NEW t, Exported(t)
  PROVE  Exported(s \o t)
<1> DEFINE u == s \o t
           m == Len(s)
           n == Len(t)
<1>1. /\ s \in Seq(Elements(s)) /\ FlowsPaired(s, m) /\ \A i \in 1 .. m : Unfilled(s[i])
      /\ t \in Seq(Elements(t)) /\ FlowsPaired(t, n) /\ \A i \in 1 .. n : Unfilled(t[i])
      /\ m \in Nat /\ n \in Nat
  BY DEF Exported
<1>2. /\ u \in Seq(Elements(u)) /\ Len(u) = m + n
      /\ \A i \in 1 .. m : u[i] = s[i]
      /\ \A i \in m + 1 .. m + n : u[i] = t[i-m]
  BY <1>1, AppendedRows
<1> HIDE DEF u, m, n
<1>3. \A i \in 1 .. m + n : i \in 1 .. m \/ (i \in m + 1 .. m + n /\ i - m \in 1 .. n)
  BY <1>1
<1>4. \A i \in 1 .. m + n : IsLine(u[i]) /\ Unfilled(u[i])
  <2> TAKE i \in 1 .. m + n
  <2>1. CASE i \in 1 .. m
    BY <1>1, <1>2, <2>1 DEF FlowsPaired
  <2>2. CASE i \in m + 1 .. m + n /\ i - m \in 1 .. n
    BY <1>1, <1>2, <2>2 DEF FlowsPaired
  <2> QED BY <1>3, <2>1, <2>2
<1>5. ASSUME NEW i \in 1 .. m + n, u[i].is = "receiver"
      PROVE  i > 1 /\ u[i-1].is = "sender" /\ u[i-1].flow = u[i].flow
  <2>1. CASE i \in 1 .. m
    <3>1. i > 1 /\ s[i-1].is = "sender" /\ s[i-1].flow = s[i].flow
      BY <1>1, <1>2, <1>5, <2>1 DEF FlowsPaired
    <3>2. i - 1 \in 1 .. m
      BY <1>1, <2>1, <3>1
    <3> QED BY <1>2, <2>1, <3>1, <3>2
  <2>2. CASE i \in m + 1 .. m + n /\ i - m \in 1 .. n
    <3> DEFINE j == i - m
    <3>1. u[i] = t[j] /\ j \in 1 .. n
      BY <1>2, <2>2
    <3> HIDE DEF j
    <3>2. j > 1 /\ t[j-1].is = "sender" /\ t[j-1].flow = t[j].flow
      BY <1>1, <1>5, <3>1 DEF FlowsPaired
    <3>3. i - 1 \in m + 1 .. m + n /\ (i - 1) - m = j - 1 /\ i > 1
      BY <1>1, <2>2, <3>1, <3>2 DEF j
    <3>4. u[i-1] = t[j-1]
      BY <1>2, <3>3
    <3> QED BY <3>1, <3>2, <3>3, <3>4
  <2> QED BY <1>3, <2>1, <2>2
<1>6. ASSUME NEW i \in 1 .. m + n, u[i].is = "sender"
      PROVE  i < m + n /\ u[i+1].is = "receiver"
  <2>1. CASE i \in 1 .. m
    <3>1. i < m /\ s[i+1].is = "receiver"
      BY <1>1, <1>2, <1>6, <2>1 DEF FlowsPaired
    <3>2. i + 1 \in 1 .. m /\ i < m + n
      BY <1>1, <2>1, <3>1
    <3> QED BY <1>2, <3>1, <3>2
  <2>2. CASE i \in m + 1 .. m + n /\ i - m \in 1 .. n
    <3> DEFINE j == i - m
    <3>1. u[i] = t[j] /\ j \in 1 .. n
      BY <1>2, <2>2
    <3> HIDE DEF j
    <3>2. j < n /\ t[j+1].is = "receiver"
      BY <1>1, <1>6, <3>1 DEF FlowsPaired
    <3>3. i + 1 \in m + 1 .. m + n /\ (i + 1) - m = j + 1 /\ i < m + n
      BY <1>1, <2>2, <3>1, <3>2 DEF j
    <3>4. u[i+1] = t[j+1]
      BY <1>2, <3>3
    <3> QED BY <3>2, <3>3, <3>4
  <2> QED BY <1>3, <2>1, <2>2
<1>7. Exported(u)
  BY <1>2, <1>4, <1>5, <1>6 DEF Exported, FlowsPaired
<1> QED BY <1>7 DEF u

LEMMA AllExported ==
  ASSUME NEW parts, NEW n \in Nat, Len(parts) = n, parts = [i \in 1 .. n |-> parts[i]],
         \A i \in 1 .. n : Exported(parts[i])
  PROVE  Exported(R!FlattenSeq(parts))
<1>0. PICK f : Flattens(f, parts, n)
  BY FlattenedBy
<1>1. /\ f[0] = << >>
      /\ \A m \in 1 .. n : f[m] = IF m = 1 THEN parts[m] ELSE f[m-1] \o parts[m]
      /\ R!FlattenSeq(parts) = f[n]
  BY <1>0 DEF Flattens
<1> DEFINE S == {m \in 0 .. n : Exported(f[m])}
<1>2. 0 \in S
  BY <1>1, NothingExported
<1>3. ASSUME NEW m \in 1 .. n, m - 1 \in S PROVE m \in S
  <2>1. CASE m = 1
    BY <1>1, <2>1
  <2>2. CASE m # 1
    <3>1. f[m] = f[m-1] \o parts[m]
      BY <1>1, <2>2
    <3>2. Exported(f[m-1]) /\ Exported(parts[m])
      BY <1>3
    <3>3. Exported(f[m-1] \o parts[m])
      BY <3>2, BothExported
    <3>4. Exported(f[m])
      BY <3>1, <3>3, Zenon
    <3> QED BY <3>4
  <2> QED BY <2>1, <2>2
<1> HIDE DEF S
<1>4. n \in S
  BY <1>2, <1>3, SetReaches
<1> QED BY <1>1, <1>4 DEF S

LEMMA TitleLine ==
  ASSUME NEW a, a # "address"
  PROVE  IsTitle(R!Line(a, << >>, << >>))
<1>1. ASSUME NEW no, no \notin {"sender", "receiver"}, NEW l,
             l = [a |-> a, flow |-> << >>, is |-> no, e |-> << >>, c |-> << >>]
      PROVE  IsTitle(l)
  <2>1. DOMAIN << >> = {} /\ l.c = << >>
    BY <1>1
  <2> QED BY <1>1, <2>1 DEF IsTitle, IsLine, Unfilled
<1>2. "" \notin {"sender", "receiver"}
  BY Zenon
<1> QED BY <1>1, <1>2, Zenon DEF R!Line

LEMMA RawExported ==
  ASSUME NEW res, NEW rows, NEW m, ReadTells(res, rows, m),
         \A i \in 1 .. Len(res) : \A j \in 1 .. Len(res[i].flows) :
           res[i].flows[j].sender # << >> /\ res[i].flows[j].receiver # << >>
  PROVE  Exported(R!RawLines(res))
<1> DEFINE Flows(i) == R!FlattenSeq([j \in DOMAIN res[i].flows |-> R!FlowLines(res[i].flows[j])])
           part(i) == <<R!Blank, R!Line("Iteration", << >>, << >>)>> \o Flows(i)
           parts == [i \in DOMAIN res |-> part(i)]
           n == Len(res)
<1>1. res \in Seq(Elements(res)) /\ n \in Nat /\ DOMAIN res = 1 .. n
  BY DEF ReadTells
<1>2. ASSUME NEW i \in 1 .. n PROVE Exported(Flows(i))
  <2> DEFINE fs == res[i].flows
             p == [j \in DOMAIN fs |-> R!FlowLines(fs[j])]
             k == Len(fs)
  <2>1. FlowsTell(fs, rows, m, res[i].it)
    BY <1>2 DEF ReadTells
  <2> HIDE DEF fs
  <2>2. k \in Nat /\ DOMAIN fs = 1 .. k /\ \A j \in 1 .. k : IsEntry(fs[j])
    BY <2>1 DEF FlowsTell
  <2>3. \A j \in 1 .. k : fs[j].sender # << >> /\ fs[j].receiver # << >>
    BY <1>2 DEF fs
  <2>4. \A j \in 1 .. k : Exported(R!FlowLines(fs[j]))
    BY <2>2, <2>3, FlowExported
  <2> HIDE DEF k
  <2>5. /\ Len(p) = k /\ p = [j \in 1 .. k |-> p[j]]
        /\ \A j \in 1 .. k : Exported(p[j])
    BY <2>2, <2>4
  <2> HIDE DEF p
  <2>6. Exported(R!FlattenSeq(p))
    BY <2>2, <2>5, AllExported
  <2> QED BY <2>6 DEF p, fs
<1> HIDE DEF Flows
<1>3. IsTitle(R!Blank)
  <2>1. "" # "address"
    BY Zenon
  <2>2. IsTitle(R!Line("", << >>, << >>))
    BY <2>1, TitleLine, Zenon
  <2> QED BY <2>2, Zenon DEF R!Blank
<1>4. IsTitle(R!Line("Iteration", << >>, << >>)) /\ IsTitle(R!Line("Flow src", << >>, << >>))
  <2>1. "Iteration" # "address" /\ "Flow src" # "address"
    BY Zenon
  <2> QED BY <2>1, TitleLine, Zenon
<1>5. /\ Exported(<<R!Blank, R!Line("Iteration", << >>, << >>)>>)
      /\ Exported(<<R!Line("Flow src", << >>, << >>)>>)
  BY <1>3, <1>4, TitlesExported, Zenon
<1>6. \A i \in 1 .. n : Exported(part(i))
  BY <1>2, <1>5, BothExported
<1> HIDE DEF part, n
<1>7. /\ Len(parts) = n /\ parts = [i \in 1 .. n |-> parts[i]]
      /\ \A i \in 1 .. n : Exported(parts[i])
  BY <1>1, <1>6
<1> HIDE DEF parts
<1>8. Exported(R!FlattenSeq(parts))
  BY <1>1, <1>7, AllExported
<1>9. Exported(<<R!Line("Flow src", << >>, << >>)>> \o R!FlattenSeq(parts))
  BY <1>5, <1>8, BothExported
<1> QED BY <1>9, Zenon DEF R!RawLines, parts, part, Flows

-----------------------------------------------------------------------------
(* A file of a test, and what is read of it. *)

LEMMA Triple ==
  ASSUME NEW a, NEW b, NEW c
  PROVE  <<a, b>> \o <<c>> = <<a, b, c>>
<1> DEFINE S == {a, b, c}
           s == <<a, b>>
           t == <<c>>
           u == <<a, b, c>>
<1>1. s \in Seq(S) /\ t \in Seq(S) /\ u \in Seq(S)
  OBVIOUS
<1>2. Len(s) = 2 /\ Len(t) = 1 /\ Len(u) = 3
  <2>1. Len(s) = 2
    OBVIOUS
  <2>2. Len(t) = 1
    OBVIOUS
  <2>3. Len(u) = 3
    OBVIOUS
  <2> QED BY <2>1, <2>2, <2>3
<1>3. s[1] = a /\ s[2] = b /\ t[1] = c /\ u[1] = a /\ u[2] = b /\ u[3] = c
  <2>1. s[1] = a /\ s[2] = b
    OBVIOUS
  <2>2. t[1] = c
    OBVIOUS
  <2>3. u[1] = a /\ u[2] = b /\ u[3] = c
    OBVIOUS
  <2> QED BY <2>1, <2>2, <2>3
<1> HIDE DEF s, t, u, S
<1>4. s \o t \in Seq(S) /\ Len(s \o t) = 3
  <2>1. s \o t \in Seq(S) /\ Len(s \o t) = Len(s) + Len(t)
    BY <1>1
  <2> QED BY <1>2, <2>1
<1>5. (s \o t)[1] = a /\ (s \o t)[2] = b /\ (s \o t)[3] = c
  <2>1. /\ \A i \in 1 .. Len(s) : (s \o t)[i] = s[i]
        /\ \A i \in Len(s) + 1 .. Len(s) + Len(t) : (s \o t)[i] = t[i - Len(s)]
    BY <1>1, AppendedRows
  <2>2. \A i \in Len(s) + 1 .. Len(s) + Len(t) : i = 3 => i - Len(s) = 1
    BY <1>2
  <2>3. 1 \in 1 .. Len(s) /\ 2 \in 1 .. Len(s) /\ 3 \in Len(s) + 1 .. Len(s) + Len(t)
    BY <1>2
  <2>4. (s \o t)[1] = s[1] /\ (s \o t)[2] = s[2] /\ (s \o t)[3] = t[1]
    BY <2>1, <2>2, <2>3
  <2> QED BY <1>3, <2>4
<1>6. \A i \in 1 .. 3 : i = 1 \/ i = 2 \/ i = 3
  OBVIOUS
<1>7. \A i \in 1 .. Len(u) : (s \o t)[i] = u[i]
  BY <1>2, <1>3, <1>5, <1>6
<1>8. s \o t = u
  BY <1>1, <1>2, <1>4, <1>7, SeqEqual
<1> QED BY <1>8 DEF s, t, u

LEMMA TailIs ==
  ASSUME NEW rows, RowsOfTests(rows)
  PROVE  \E n \in Nat :
           /\ Len(rows) = n + 1 /\ DOMAIN Tail(rows) = 1 .. n
           /\ \A p \in 1 .. n : Tail(rows)[p] = rows[p+1]
<1>1. rows \in Seq(Elements(rows)) /\ rows # << >>
  BY DEF RowsOfTests
<1> DEFINE n == Len(rows) - 1
<1>2. n \in Nat /\ Len(rows) = n + 1
  BY <1>1
<1>3. Len(Tail(rows)) = n /\ \A p \in 1 .. n : Tail(rows)[p] = rows[p+1]
  BY <1>1
<1>4. Tail(rows) \in Seq(Elements(rows))
  BY <1>1
<1> HIDE DEF n
<1>5. DOMAIN Tail(rows) = 1 .. n
  BY <1>3, <1>4
<1> QED BY <1>2, <1>3, <1>5

LEMMA FileRead ==
  ASSUME NEW rows, RowsOfTests(rows)
  PROVE  \E n \in Nat : /\ Len(rows) = n + 1
                        /\ \A p \in 1 .. n : Tail(rows)[p] = rows[p+1]
                        /\ ReadTells(R!FoldLeft(R!ReadRow, << >>, Tail(rows)), Tail(rows), n)
<1>1. PICK n \in Nat : /\ Len(rows) = n + 1 /\ DOMAIN Tail(rows) = 1 .. n
                       /\ \A p \in 1 .. n : Tail(rows)[p] = rows[p+1]
  BY TailIs
<1>2. ASSUME NEW i \in 2 .. n + 1 PROVE RowTyped(rows[i])
  <2>1. /\ rows[i].is \in {"sender", "receiver"}
        /\ {rows[i].num, rows[i].time, rows[i].ooo, rows[i].jit} \subseteq Int
    BY <1>1 DEF RowsOfTests
  <2> QED BY <2>1 DEF RowTyped
<1>3. \A p \in 1 .. n : p + 1 \in 2 .. n + 1
  BY <1>1
<1>4. \A p \in 1 .. n : RowTyped(Tail(rows)[p])
  BY <1>1, <1>2, <1>3
<1> DEFINE tail == Tail(rows)
<1>5. n \in Nat /\ DOMAIN tail = 1 .. n /\ \A p \in 1 .. n : RowTyped(tail[p])
  BY <1>1, <1>4
<1> HIDE DEF tail
<1>6. ReadTells(R!FoldLeft(R!ReadRow, << >>, tail), tail, n)
  BY <1>5, RowsRead
<1> QED BY <1>1, <1>6 DEF tail

LEMMA KeyOfRow == ASSUME NEW w PROVE R!Key(w) = <<w.flow, Arrived(w)>>
BY Zenon DEF R!Key, Arrived

(* If no flow lacks its row, no flow lacks that side. *)
LEMMA SideRead ==
  ASSUME NEW k, NEW is \in {"sender", "receiver"}, R!Has(k, is), RowsOfTests(Files[k]),
         NEW n \in Nat, Len(Files[k]) = n + 1,
         \A p \in 1 .. n : Tail(Files[k])[p] = Files[k][p+1],
         NEW flows, NEW it, FlowsTell(flows, Tail(Files[k]), n, it)
  PROVE  \A j \in 1 .. Len(flows) : flows[j][is] # << >>
<1> DEFINE rows == Files[k]
           tail == Tail(rows)
<1>0. ASSUME NEW x \in R!FlowsIn(k)
      PROVE  \E i \in 2 .. n + 1 : <<rows[i].it, rows[i].flow, rows[i].is>> = x \o <<is>>
  BY <1>0, Zenon DEF R!Has
<1>1. R!FlowsIn(k) = {<<rows[i].it, rows[i].flow>> : i \in 2 .. n + 1}
  BY Zenon DEF R!FlowsIn
<1>2. \A i, j \in 2 .. n + 1 : rows[i].it = rows[j].it /\ rows[i].flow = rows[j].flow =>
        R!Key(rows[i]) = R!Key(rows[j])
  <2>1. \A i, j \in 2 .. n + 1 : rows[i].it = rows[j].it /\ rows[i].flow = rows[j].flow =>
          Arrived(rows[i]) = Arrived(rows[j])
    BY Zenon DEF RowsOfTests
  <2> QED BY <2>1, KeyOfRow, Zenon
<1>3. \A p \in 1 .. n : tail[p] = rows[p+1]
  OBVIOUS
<1>4. \A p \in 1 .. n : p + 1 \in 2 .. n + 1
  OBVIOUS
<1>5. \A i \in 2 .. n + 1 : i - 1 \in 1 .. n /\ (i - 1) + 1 = i
  OBVIOUS
<1>6. FlowsTell(flows, tail, n, it)
  OBVIOUS
<1> HIDE DEF rows, tail
<1>7. SUFFICES ASSUME NEW j \in 1 .. Len(flows) PROVE flows[j][is] # << >>
  OBVIOUS
<1>8. PICK p \in 1 .. n : tail[p].it = it /\ R!Key(tail[p]) = flows[j].key
  BY <1>6 DEF FlowsTell
<1>9. p + 1 \in 2 .. n + 1 /\ tail[p] = rows[p+1]
  BY <1>3, <1>4, <1>8
<1> DEFINE x == <<rows[p+1].it, rows[p+1].flow>>
<1>10. x \in R!FlowsIn(k)
  BY <1>1, <1>9
<1>11. PICK i \in 2 .. n + 1 : <<rows[i].it, rows[i].flow, rows[i].is>> = x \o <<is>>
  BY <1>0, <1>10
<1>12. <<rows[i].it, rows[i].flow, rows[i].is>> = <<rows[p+1].it, rows[p+1].flow, is>>
  BY <1>11, Triple, Zenon
<1>13. rows[i].it = rows[p+1].it /\ rows[i].flow = rows[p+1].flow /\ rows[i].is = is
  BY <1>12
<1>14. R!Key(rows[i]) = R!Key(rows[p+1])
  BY <1>2, <1>9, <1>11, <1>13
<1> DEFINE q == i - 1
<1>15. q \in 1 .. n /\ tail[q] = rows[i]
  BY <1>3, <1>5, <1>11
<1> HIDE DEF q
<1>16. tail[q].it = it /\ tail[q].is = is /\ R!Key(tail[q]) = flows[j].key
  BY <1>8, <1>9, <1>13, <1>14, <1>15
<1>17. PICK l \in 1 .. Len(flows) : flows[l].key = R!Key(tail[q]) /\ flows[l][tail[q].is] # << >>
  BY <1>6, <1>15, <1>16 DEF FlowsTell
<1>18. l = j
  BY <1>6, <1>16, <1>17 DEF FlowsTell
<1> QED BY <1>16, <1>17, <1>18

Within(s, t) == \A j \in 1 .. Len(s) : \E p \in DOMAIN t : t[p] = s[j]

LEMMA WithinBoth ==
  ASSUME NEW s, s \in Seq(Elements(s)), NEW t, t \in Seq(Elements(t))
  PROVE  /\ s \o t \in Seq(Elements(s \o t)) /\ Within(t, s \o t)
         /\ \A x : Within(x, s) => Within(x, s \o t)
<1> DEFINE u == s \o t
           m == Len(s)
           n == Len(t)
<1>1. m \in Nat /\ n \in Nat /\ DOMAIN s = 1 .. m
  OBVIOUS
<1>2. /\ u \in Seq(Elements(u)) /\ Len(u) = m + n
      /\ \A i \in 1 .. m : u[i] = s[i]
      /\ \A i \in m + 1 .. m + n : u[i] = t[i-m]
  BY AppendedRows
<1> HIDE DEF u, m, n
<1>3. DOMAIN u = 1 .. m + n
  BY <1>2
<1>4. Within(t, u)
  <2>1. ASSUME NEW j \in 1 .. n PROVE \E p \in DOMAIN u : u[p] = t[j]
    <3>1. m + j \in m + 1 .. m + n /\ m + j \in 1 .. m + n /\ (m + j) - m = j
      BY <1>1
    <3>2. u[m+j] = t[j]
      BY <1>2, <3>1
    <3> QED BY <1>3, <3>1, <3>2
  <2> QED BY <2>1 DEF Within, n
<1>5. ASSUME NEW x, Within(x, s) PROVE Within(x, u)
  <2>1. \A p \in 1 .. m : p \in DOMAIN u /\ u[p] = s[p]
    BY <1>1, <1>2, <1>3
  <2> QED BY <1>1, <1>5, <2>1 DEF Within
<1> QED BY <1>2, <1>4, <1>5 DEF u

LEMMA WithinFlattened ==
  ASSUME NEW parts, NEW n \in Nat, Len(parts) = n, parts = [i \in 1 .. n |-> parts[i]],
         \A i \in 1 .. n : parts[i] \in Seq(Elements(parts[i]))
  PROVE  /\ \A k \in 1 .. n : Within(parts[k], R!FlattenSeq(parts))
         /\ R!FlattenSeq(parts) \in Seq(Elements(R!FlattenSeq(parts)))
<1>0. PICK f : Flattens(f, parts, n)
  BY FlattenedBy
<1>1. /\ f[0] = << >>
      /\ \A m \in 1 .. n : f[m] = IF m = 1 THEN parts[m] ELSE f[m-1] \o parts[m]
      /\ R!FlattenSeq(parts) = f[n]
  BY <1>0 DEF Flattens
<1> DEFINE Holds(m) == f[m] \in Seq(Elements(f[m])) /\ \A k \in 1 .. m : Within(parts[k], f[m])
           S == {m \in 0 .. n : Holds(m)}
<1>2. 0 \in S
  <2>1. << >> \in Seq(Elements(<< >>)) /\ 1 .. 0 = {}
    OBVIOUS
  <2>2. Holds(0)
    BY <1>1, <2>1, Zenon
  <2> HIDE DEF Holds
  <2> QED BY <2>2
<1>3. ASSUME NEW m \in 1 .. n, m - 1 \in S PROVE m \in S
  <2>0. Holds(m - 1) /\ m \in 0 .. n
    <3> HIDE DEF Holds
    <3> QED BY <1>3
  <2>1. CASE m = 1
    <3>1. f[m] = parts[m] /\ \A k \in 1 .. m : k = m
      BY <1>1, <2>1
    <3>2. Within(parts[m], parts[m])
      <4>1. parts[m] \in Seq(Elements(parts[m]))
        OBVIOUS
      <4>2. DOMAIN parts[m] = 1 .. Len(parts[m])
        BY <4>1
      <4> QED BY <4>2 DEF Within
    <3>3. f[m] \in Seq(Elements(f[m]))
      <4>1. parts[m] \in Seq(Elements(parts[m]))
        OBVIOUS
      <4> QED BY <3>1, <4>1, Zenon
    <3>4. \A k \in 1 .. m : Within(parts[k], f[m])
      BY <3>1, <3>2, Zenon
    <3>5. Holds(m)
      BY <3>3, <3>4
    <3> HIDE DEF Holds
    <3> QED BY <2>0, <3>5
  <2>2. CASE m # 1
    <3>1. f[m] = f[m-1] \o parts[m]
      BY <1>1, <2>2
    <3>2. f[m-1] \in Seq(Elements(f[m-1])) /\ parts[m] \in Seq(Elements(parts[m]))
      <4>1. parts[m] \in Seq(Elements(parts[m]))
        OBVIOUS
      <4> QED BY <2>0, <4>1, Zenon
    <3>3. /\ f[m-1] \o parts[m] \in Seq(Elements(f[m-1] \o parts[m]))
          /\ Within(parts[m], f[m-1] \o parts[m])
          /\ \A x : Within(x, f[m-1]) => Within(x, f[m-1] \o parts[m])
      BY <3>2, WithinBoth
    <3>4. f[m] \in Seq(Elements(f[m])) /\ Within(parts[m], f[m])
      BY <3>1, <3>3, Zenon
    <3>5. \A x : Within(x, f[m-1]) => Within(x, f[m])
      BY <3>1, <3>3, Zenon
    <3>6. \A k \in 1 .. m : k \in 1 .. m - 1 \/ k = m
      OBVIOUS
    <3>7. \A k \in 1 .. m : Within(parts[k], f[m])
      BY <2>0, <3>4, <3>5, <3>6
    <3>8. Holds(m)
      BY <3>4, <3>7
    <3> HIDE DEF Holds
    <3> QED BY <2>0, <3>8
  <2> QED BY <2>1, <2>2
<1> HIDE DEF S
<1>4. n \in S
  BY <1>2, <1>3, SetReaches
<1> QED BY <1>1, <1>4 DEF S

LEMMA HeardRead ==
  ASSUME NEW res, NEW rows, NEW m, ReadTells(res, rows, m), ~ R!Unheard(res)
  PROVE  \A i \in 1 .. Len(res) : \A j \in 1 .. Len(res[i].flows) :
           res[i].flows[j].receiver # << >>
<1> DEFINE n == Len(res)
           parts == [i \in DOMAIN res |-> res[i].flows]
           all == R!FlattenSeq(parts)
<1>1. res \in Seq(Elements(res)) /\ n \in Nat /\ DOMAIN res = 1 .. n
  BY DEF ReadTells
<1>2. R!FlowsOf(res) = all
  BY DEF R!FlowsOf
<1>3. ASSUME NEW p \in DOMAIN all PROVE all[p].receiver # << >>
  BY <1>2, <1>3, Zenon DEF R!Unheard
<1>4. \A i \in 1 .. n : parts[i] = res[i].flows
  BY <1>1
<1>5. \A i \in 1 .. n : res[i].flows \in Seq(Elements(res[i].flows))
  BY DEF ReadTells, FlowsTell
<1> HIDE DEF n
<1>6. Len(parts) = n /\ parts = [i \in 1 .. n |-> parts[i]]
  BY <1>1
<1> HIDE DEF parts
<1>7. \A i \in 1 .. n : Within(parts[i], all)
  BY <1>1, <1>4, <1>5, <1>6, WithinFlattened
<1> HIDE DEF all
<1>8. \A i \in 1 .. n : Within(res[i].flows, all)
  BY <1>4, <1>7
<1> QED BY <1>3, <1>8 DEF Within, n

-----------------------------------------------------------------------------
(* Loss and delay (set_pkt_loss, set_fist_pkt_delay). *)

SheetTyped(sh) ==
  /\ sh = [lines |-> sh.lines, last |-> sh.last]
  /\ sh.lines \in Seq(Elements(sh.lines)) /\ sh.last \in Nat /\ sh.last <= Len(sh.lines)
  /\ FlowsPaired(sh.lines, sh.last)

(* The flag `skip' is unset by the line of a sender and by no other. *)
LEMMA SecondsAre ==
  ASSUME NEW sh, SheetTyped(sh)
  PROVE  R!Seconds(sh) = {i \in 2 .. sh.last : sh.lines[i].is = "receiver"}
<1> DEFINE n == sh.last
           lines == sh.lines
           Flow1(i) == lines[i].a = "address"
           Other(i) == lines[i].is # "sender"
           h == CHOOSE g : g = [i \in 1 .. n |-> Flow1(i) => (i > 1 /\ ~g[i-1])]
           e == [i \in 1 .. n |-> Other(i)]
<1>1. n \in Nat /\ FlowsPaired(lines, n)
  BY DEF SheetTyped
<1>2. R!Seconds(sh) = {i \in 2 .. n : Flow1(i) /\ ~h[i-1]}
  BY Zenon DEF R!Seconds
<1> HIDE DEF n, lines
<1>3. ASSUME NEW i \in 1 .. n
      PROVE  /\ Flow1(i) <=> lines[i].is \in {"sender", "receiver"}
             /\ lines[i].is = "receiver" => i > 1 /\ i - 1 \in 1 .. n /\ ~Other(i-1)
             /\ i > 1 /\ ~Other(i-1) => lines[i].is = "receiver"
  <2>1. IsLine(lines[i])
    BY <1>1 DEF FlowsPaired
  <2>2. lines[i].is = "receiver" => i > 1 /\ lines[i-1].is = "sender"
    BY <1>1 DEF FlowsPaired
  <2>3. i > 1 => i - 1 \in 1 .. n /\ (i - 1) + 1 = i
    BY <1>1
  <2>4. i > 1 /\ lines[i-1].is = "sender" => lines[i].is = "receiver"
    BY <1>1, <2>3 DEF FlowsPaired
  <2> QED BY <2>1, <2>2, <2>3, <2>4 DEF IsLine
<1>4. ASSUME NEW i \in 1 .. n
      PROVE  Other(i) <=> (Flow1(i) => (i > 1 /\ ~Other(i-1)))
  BY <1>3
<1>5. \A i \in 1 .. n : Other(i) \in BOOLEAN
  OBVIOUS
<1> HIDE DEF Flow1, Other
<1>6. e = [i \in 1 .. n |-> Flow1(i) => (i > 1 /\ ~e[i-1])]
  <2>1. ASSUME NEW i \in 1 .. n
        PROVE  Other(i) <=> (Flow1(i) => (i > 1 /\ ~e[i-1]))
    <3>1. i > 1 => i - 1 \in 1 .. n
      BY <1>1
    <3>2. i > 1 => (e[i-1] <=> Other(i-1))
      BY <3>1
    <3> HIDE DEF e
    <3> QED BY <1>4, <3>2
  <2>2. e = [i \in 1 .. n |-> Other(i)]
    OBVIOUS
  <2> HIDE DEF e
  <2> DEFINE G(i) == Flow1(i) => (i > 1 /\ ~e[i-1])
  <2>3. \A i \in 1 .. n : Other(i) = G(i)
    BY <1>5, <2>1
  <2> HIDE DEF G
  <2>4. e = [i \in 1 .. n |-> G(i)]
    BY <2>2, <2>3
  <2> QED BY <2>4, Zenon DEF G
<1>7. h = [i \in 1 .. n |-> Flow1(i) => (i > 1 /\ ~h[i-1])]
  <2> HIDE DEF e
  <2> QED BY <1>6, Zenon
<1> HIDE DEF e, h
<1>8. \A i \in 1 .. n : h[i] <=> (Flow1(i) => (i > 1 /\ ~h[i-1]))
  BY <1>7
<1> DEFINE S == {i \in 0 .. n : \A j \in 1 .. i : h[j] <=> Other(j)}
<1>9. 0 \in S
  <2>1. 1 .. 0 = {}
    OBVIOUS
  <2> QED BY <1>1, <2>1
<1>10. ASSUME NEW i \in 1 .. n, i - 1 \in S PROVE i \in S
  <2>1. \A j \in 1 .. i - 1 : h[j] <=> Other(j)
    BY <1>10
  <2>2. i > 1 => i - 1 \in 1 .. i - 1
    BY <1>1
  <2>3. h[i] <=> Other(i)
    BY <1>4, <1>8, <2>1, <2>2
  <2>4. \A j \in 1 .. i : j \in 1 .. i - 1 \/ j = i
    BY <1>1
  <2> QED BY <1>1, <2>1, <2>3, <2>4
<1> HIDE DEF S
<1>11. n \in S
  BY <1>1, <1>9, <1>10, SetReaches
<1>12. \A i \in 1 .. n : h[i] <=> Other(i)
  BY <1>11 DEF S
<1>13. ASSUME NEW i \in 2 .. n PROVE Flow1(i) /\ ~h[i-1] <=> lines[i].is = "receiver"
  <2>1. i \in 1 .. n /\ i > 1 /\ i - 1 \in 1 .. n
    BY <1>1
  <2>2. h[i-1] <=> Other(i-1)
    BY <1>12, <2>1
  <2> QED BY <1>3, <2>1, <2>2
<1>14. R!Seconds(sh) = {i \in 2 .. n : lines[i].is = "receiver"}
  BY <1>2, <1>13
<1> QED BY <1>14 DEF n, lines

(* Line m is line l with the cells that it lacked. *)
Filling(l, m, cells, D) ==
  /\ IsLine(m) /\ m.a = l.a /\ m.flow = l.flow /\ m.is = l.is
  /\ DOMAIN m.c = DOMAIN l.c \cup D
  /\ \A x \in DOMAIN l.c : m.c[x] = l.c[x]
  /\ \A x \in D \ DOMAIN l.c : m.c[x] = cells[x]

LEMMA FilledIs ==
  ASSUME NEW l, IsLine(l), NEW D, NEW cells, DOMAIN cells = D
  PROVE  Filling(l, R!Filled(l, cells), cells, D)
<1> DEFINE c == [x \in DOMAIN l.c \cup D |-> IF x \in DOMAIN l.c THEN l.c[x] ELSE cells[x]]
           m == [l EXCEPT !.c = c]
<1>1. R!Filled(l, cells) = m
  BY Zenon DEF R!Filled
<1>2. /\ DOMAIN c = DOMAIN l.c \cup D
      /\ \A x \in DOMAIN l.c : c[x] = l.c[x]
      /\ \A x \in D \ DOMAIN l.c : c[x] = cells[x]
  OBVIOUS
<1> HIDE DEF c
<1>3. m = [a |-> l.a, flow |-> l.flow, is |-> l.is, e |-> l.e, c |-> c]
  <2>1. l = [a |-> l.a, flow |-> l.flow, is |-> l.is, e |-> l.e, c |-> l.c]
    BY DEF IsLine
  <2> QED BY <2>1
<1> HIDE DEF m
<1>4. m.a = l.a /\ m.flow = l.flow /\ m.is = l.is /\ m.e = l.e /\ m.c = c
  BY <1>3
<1>5. /\ l.a = "address" <=> l.is \in {"sender", "receiver"}
      /\ l.a = "address" => /\ "H" \in DOMAIN l.c /\ "I" \in DOMAIN l.c
                            /\ l.c["H"] \in Fraction /\ l.c["I"] \in Fraction
  BY DEF IsLine
<1>6. l.a = "address" => /\ "H" \in DOMAIN c /\ "I" \in DOMAIN c
                         /\ c["H"] \in Fraction /\ c["I"] \in Fraction
  BY <1>2, <1>5
<1>7. IsLine(m)
  BY <1>3, <1>4, <1>5, <1>6 DEF IsLine
<1> QED BY <1>1, <1>2, <1>4, <1>7 DEF Filling

(* The sheet t is sh with such cells in the lines of receivers. *)
SheetFilled(sh, t, cols, D) ==
  /\ SheetTyped(t) /\ t.last = sh.last /\ Len(t.lines) = Len(sh.lines)
  /\ \A i \in 1 .. sh.last :
       IF sh.lines[i].is = "receiver" THEN Filling(sh.lines[i], t.lines[i], cols[i], D)
                                      ELSE t.lines[i] = sh.lines[i]

LEMMA WithFills ==
  ASSUME NEW sh, SheetTyped(sh), NEW D, NEW cols, DOMAIN cols = R!Seconds(sh),
         \A i \in DOMAIN cols : DOMAIN cols[i] = D
  PROVE  SheetFilled(sh, R!With(sh, cols), cols, D)
<1> DEFINE n == sh.last
           N == Len(sh.lines)
           l == sh.lines
           m == [i \in DOMAIN l |-> IF i \in DOMAIN cols THEN R!Filled(l[i], cols[i]) ELSE l[i]]
           t == [lines |-> m, last |-> n]
<1>1. /\ sh = [lines |-> l, last |-> n] /\ l \in Seq(Elements(l)) /\ n \in Nat /\ n <= N
      /\ FlowsPaired(l, n) /\ N \in Nat /\ DOMAIN l = 1 .. N
  BY DEF SheetTyped
<1>2. R!With(sh, cols) = t
  <2>1. R!With(sh, cols) = [sh EXCEPT !.lines = m]
    BY Zenon DEF R!With
  <2> HIDE DEF m, l, n
  <2>2. [sh EXCEPT !.lines = m] = t
    BY <1>1
  <2> QED BY <2>1, <2>2
<1>3. DOMAIN cols = {i \in 2 .. n : l[i].is = "receiver"}
  BY SecondsAre
<1> HIDE DEF l, n, N
<1>4. \A i \in 1 .. n : i \in DOMAIN l
  BY <1>1
<1>5. \A i \in 1 .. n : l[i].is = "receiver" <=> i \in DOMAIN cols
  <2> TAKE i \in 1 .. n
  <2>1. i \in 2 .. n \/ i = 1
    BY <1>1
  <2>2. l[i].is = "receiver" => i > 1
    BY <1>1 DEF FlowsPaired
  <2>3. i > 1 => i \in 2 .. n
    BY <2>1
  <2>4. i \in DOMAIN cols => l[i].is = "receiver"
    BY <1>3
  <2> QED BY <1>3, <2>2, <2>3, <2>4
<1>6. ASSUME NEW i \in 1 .. n
      PROVE  IF l[i].is = "receiver" THEN Filling(l[i], m[i], cols[i], D) ELSE m[i] = l[i]
  <2>1. IsLine(l[i])
    BY <1>1 DEF FlowsPaired
  <2>2. m[i] = IF l[i].is = "receiver" THEN R!Filled(l[i], cols[i]) ELSE l[i]
    BY <1>4, <1>5
  <2> HIDE DEF m
  <2>3. CASE l[i].is = "receiver"
    <3>1. DOMAIN cols[i] = D
      BY <1>5, <2>3
    <3>2. Filling(l[i], R!Filled(l[i], cols[i]), cols[i], D)
      BY <2>1, <3>1, FilledIs
    <3> QED BY <2>2, <2>3, <3>2
  <2> QED BY <2>2, <2>3
<1>7. m \in Seq(Elements(m)) /\ Len(m) = N
  <2>1. m \in [1 .. N -> Elements(m)]
    BY <1>1 DEF Elements
  <2>2. DOMAIN m = 1 .. N
    BY <1>1
  <2> HIDE DEF m
  <2> QED BY <1>1, <2>1, <2>2
<1> HIDE DEF m
<1>8. ASSUME NEW i \in 1 .. n
      PROVE  IsLine(m[i]) /\ m[i].flow = l[i].flow /\ m[i].is = l[i].is
  <2>1. IsLine(l[i])
    BY <1>1 DEF FlowsPaired
  <2> QED BY <1>6, <2>1 DEF Filling
<1>9. FlowsPaired(m, n)
  <2>1. \A i \in 1 .. n : m[i].is = "receiver" =>
          i > 1 /\ m[i-1].is = "sender" /\ m[i-1].flow = m[i].flow
    <3> SUFFICES ASSUME NEW i \in 1 .. n, m[i].is = "receiver"
                 PROVE  i > 1 /\ m[i-1].is = "sender" /\ m[i-1].flow = m[i].flow
      OBVIOUS
    <3>1. i > 1 /\ l[i-1].is = "sender" /\ l[i-1].flow = l[i].flow
      BY <1>1, <1>8 DEF FlowsPaired
    <3>2. i - 1 \in 1 .. n
      BY <1>1, <3>1
    <3> QED BY <1>8, <3>1, <3>2
  <2>2. \A i \in 1 .. n : m[i].is = "sender" => i < n /\ m[i+1].is = "receiver"
    <3> SUFFICES ASSUME NEW i \in 1 .. n, m[i].is = "sender"
                 PROVE  i < n /\ m[i+1].is = "receiver"
      OBVIOUS
    <3>1. i < n /\ l[i+1].is = "receiver"
      BY <1>1, <1>8 DEF FlowsPaired
    <3>2. i + 1 \in 1 .. n
      BY <1>1, <3>1
    <3> QED BY <1>8, <3>1, <3>2
  <2> QED BY <1>8, <2>1, <2>2 DEF FlowsPaired
<1>10. t.lines = m /\ t.last = n /\ t = [lines |-> t.lines, last |-> t.last]
  OBVIOUS
<1> HIDE DEF t
<1>11. SheetTyped(t)
  BY <1>1, <1>7, <1>9, <1>10 DEF SheetTyped
<1>12. SheetFilled(sh, t, cols, D)
  BY <1>6, <1>7, <1>10, <1>11 DEF SheetFilled, l, n, N
<1> QED BY <1>2, <1>12

LossTold(sh) ==
  \A i \in 1 .. sh.last :
    LET l == sh.lines IN
    /\ "M" \in DOMAIN l[i].c <=> l[i].is = "receiver"
    /\ l[i].is = "receiver" => l[i].c["M"] = R!Minus(l[i-1].c["H"], l[i].c["H"])
DelayTold(sh) ==
  \A i \in 1 .. sh.last :
    sh.lines[i].is = "receiver" =>
      sh.lines[i].c["O"] = R!Minus(sh.lines[i].c["I"], sh.lines[i-1].c["I"])
RawSheet(sh)   == SheetTyped(sh) /\ \A i \in 1 .. sh.last : Unfilled(sh.lines[i])
LossSheet(sh)  == /\ SheetTyped(sh) /\ LossTold(sh)
                  /\ \A i \in 1 .. sh.last : "O" \notin DOMAIN sh.lines[i].c
DelaySheet(sh) == SheetTyped(sh) /\ LossTold(sh) /\ DelayTold(sh)

(* The cells of the lines of a flow. *)
LEMMA PairOf ==
  ASSUME NEW sh, SheetTyped(sh), NEW i \in 1 .. sh.last, sh.lines[i].is = "receiver"
  PROVE  /\ i - 1 \in 1 .. sh.last /\ i \in R!Seconds(sh) /\ sh.lines[i-1].is = "sender"
         /\ sh.lines[i-1].flow = sh.lines[i].flow
         /\ "H" \in DOMAIN sh.lines[i].c /\ "H" \in DOMAIN sh.lines[i-1].c
         /\ "I" \in DOMAIN sh.lines[i].c /\ "I" \in DOMAIN sh.lines[i-1].c
         /\ sh.lines[i].c["H"] \in Fraction /\ sh.lines[i-1].c["H"] \in Fraction
<1> DEFINE n == sh.last
           l == sh.lines
<1>1. n \in Nat /\ FlowsPaired(l, n)
  BY DEF SheetTyped
<1>2. R!Seconds(sh) = {j \in 2 .. n : l[j].is = "receiver"}
  BY SecondsAre
<1>0. i \in 1 .. n /\ l[i].is = "receiver"
  OBVIOUS
<1> HIDE DEF l, n
<1>3. i > 1 /\ l[i-1].is = "sender" /\ l[i-1].flow = l[i].flow
  BY <1>0, <1>1 DEF FlowsPaired
<1>4. i - 1 \in 1 .. n /\ i \in 2 .. n
  BY <1>0, <1>1, <1>3
<1>5. IsLine(l[i]) /\ IsLine(l[i-1])
  BY <1>0, <1>1, <1>4 DEF FlowsPaired
<1>6. l[i].a = "address" /\ l[i-1].a = "address"
  BY <1>0, <1>3, <1>5 DEF IsLine
<1>7. /\ "H" \in DOMAIN l[i].c /\ "H" \in DOMAIN l[i-1].c
      /\ "I" \in DOMAIN l[i].c /\ "I" \in DOMAIN l[i-1].c
      /\ l[i].c["H"] \in Fraction /\ l[i-1].c["H"] \in Fraction
  BY <1>5, <1>6 DEF IsLine
<1>8. i \in R!Seconds(sh)
  BY <1>0, <1>2, <1>4
<1> QED BY <1>3, <1>4, <1>7, <1>8 DEF l, n

LEMMA LossFilled ==
  ASSUME NEW sh, RawSheet(sh)
  PROVE  LossSheet(R!PktLoss(sh)) /\ R!PktLoss(sh).last = sh.last
<1> DEFINE lost(i) == R!Minus(sh.lines[i-1].c.H, sh.lines[i].c.H)
           part(i) == R!Times(R!Over(lost(i), sh.lines[i].c.H), R!Whole(100))
           cols == [i \in R!Seconds(sh) |-> [M |-> lost(i), N |-> part(i)]]
           t == R!PktLoss(sh)
<1>0. SheetTyped(sh)
  BY DEF RawSheet
<1>1. t = R!With(sh, cols)
  BY Zenon DEF R!PktLoss
<1> HIDE DEF part
<1>2. /\ DOMAIN cols = R!Seconds(sh)
      /\ \A i \in R!Seconds(sh) : DOMAIN cols[i] = {"M", "N"} /\ cols[i]["M"] = lost(i)
  OBVIOUS
<1> HIDE DEF cols, t
<1>3. SheetFilled(sh, t, cols, {"M", "N"})
  BY <1>0, <1>1, <1>2, WithFills
<1>4. SheetTyped(t) /\ t.last = sh.last
  BY <1>3 DEF SheetFilled
<1>5. ASSUME NEW i \in 1 .. sh.last
      PROVE  /\ t.lines[i].is = sh.lines[i].is
             /\ "H" \in DOMAIN sh.lines[i].c => t.lines[i].c["H"] = sh.lines[i].c["H"]
             /\ "M" \in DOMAIN t.lines[i].c <=> sh.lines[i].is = "receiver"
             /\ "O" \notin DOMAIN t.lines[i].c
             /\ sh.lines[i].is = "receiver" => t.lines[i].c["M"] = cols[i]["M"]
  <2>1. Unfilled(sh.lines[i])
    BY DEF RawSheet
  <2>2. CASE sh.lines[i].is = "receiver"
    <3>1. Filling(sh.lines[i], t.lines[i], cols[i], {"M", "N"})
      BY <1>3, <2>2 DEF SheetFilled
    <3> QED BY <2>1, <2>2, <3>1 DEF Filling, Unfilled
  <2>3. CASE sh.lines[i].is # "receiver"
    <3>1. t.lines[i] = sh.lines[i]
      BY <1>3, <2>3 DEF SheetFilled
    <3> QED BY <2>1, <2>3, <3>1 DEF Unfilled
  <2> QED BY <2>2, <2>3
<1>6. ASSUME NEW i \in 1 .. sh.last, sh.lines[i].is = "receiver"
      PROVE  t.lines[i].c["M"] = R!Minus(t.lines[i-1].c["H"], t.lines[i].c["H"])
  <2>1. /\ i - 1 \in 1 .. sh.last /\ i \in R!Seconds(sh)
        /\ "H" \in DOMAIN sh.lines[i].c /\ "H" \in DOMAIN sh.lines[i-1].c
    BY <1>0, <1>6, PairOf
  <2>2. t.lines[i].c["M"] = lost(i)
    BY <1>2, <1>5, <1>6, <2>1
  <2>3. t.lines[i].c["H"] = sh.lines[i].c.H /\ t.lines[i-1].c["H"] = sh.lines[i-1].c.H
    BY <1>5, <2>1
  <2> QED BY <2>2, <2>3
<1>7. LossTold(t)
  BY <1>4, <1>5, <1>6 DEF LossTold
<1> QED BY <1>4, <1>5, <1>7 DEF LossSheet, t

LEMMA DelayFilled ==
  ASSUME NEW sh, LossSheet(sh)
  PROVE  DelaySheet(R!FirstPktDelay(sh)) /\ R!FirstPktDelay(sh).last = sh.last
<1> DEFINE delay(i) == R!Minus(sh.lines[i].c.I, sh.lines[i-1].c.I)
           cols == [i \in R!Seconds(sh) |-> [O |-> delay(i)]]
           t == R!FirstPktDelay(sh)
<1>0. SheetTyped(sh) /\ LossTold(sh)
  BY DEF LossSheet
<1>1. t = R!With(sh, cols)
  BY Zenon DEF R!FirstPktDelay
<1>2. /\ DOMAIN cols = R!Seconds(sh)
      /\ \A i \in R!Seconds(sh) : DOMAIN cols[i] = {"O"} /\ cols[i]["O"] = delay(i)
  OBVIOUS
<1> HIDE DEF cols, t
<1>3. SheetFilled(sh, t, cols, {"O"})
  BY <1>0, <1>1, <1>2, WithFills
<1>4. SheetTyped(t) /\ t.last = sh.last
  BY <1>3 DEF SheetFilled
<1>5. ASSUME NEW i \in 1 .. sh.last
      PROVE  /\ t.lines[i].is = sh.lines[i].is
             /\ \A x \in DOMAIN sh.lines[i].c : t.lines[i].c[x] = sh.lines[i].c[x]
             /\ "M" \in DOMAIN t.lines[i].c <=> "M" \in DOMAIN sh.lines[i].c
             /\ sh.lines[i].is = "receiver" => t.lines[i].c["O"] = cols[i]["O"]
  <2>1. "O" \notin DOMAIN sh.lines[i].c
    BY DEF LossSheet
  <2>2. CASE sh.lines[i].is = "receiver"
    <3>1. Filling(sh.lines[i], t.lines[i], cols[i], {"O"})
      BY <1>3, <2>2 DEF SheetFilled
    <3> QED BY <2>1, <2>2, <3>1 DEF Filling
  <2>3. CASE sh.lines[i].is # "receiver"
    <3>1. t.lines[i] = sh.lines[i]
      BY <1>3, <2>3 DEF SheetFilled
    <3> QED BY <2>3, <3>1
  <2> QED BY <2>2, <2>3
<1>6. ASSUME NEW i \in 1 .. sh.last, sh.lines[i].is = "receiver"
      PROVE  /\ t.lines[i].c["M"] = R!Minus(t.lines[i-1].c["H"], t.lines[i].c["H"])
             /\ t.lines[i].c["O"] = R!Minus(t.lines[i].c["I"], t.lines[i-1].c["I"])
  <2>1. /\ i - 1 \in 1 .. sh.last /\ i \in R!Seconds(sh)
        /\ "H" \in DOMAIN sh.lines[i].c /\ "H" \in DOMAIN sh.lines[i-1].c
        /\ "I" \in DOMAIN sh.lines[i].c /\ "I" \in DOMAIN sh.lines[i-1].c
    BY <1>0, <1>6, PairOf
  <2>2. t.lines[i].c["O"] = delay(i)
    BY <1>2, <1>5, <1>6, <2>1
  <2>3. t.lines[i].c["I"] = sh.lines[i].c.I /\ t.lines[i-1].c["I"] = sh.lines[i-1].c.I
    BY <1>5, <2>1
  <2>4. t.lines[i].c["H"] = sh.lines[i].c["H"] /\ t.lines[i-1].c["H"] = sh.lines[i-1].c["H"]
    BY <1>5, <2>1
  <2>5. /\ "M" \in DOMAIN sh.lines[i].c
        /\ sh.lines[i].c["M"] = R!Minus(sh.lines[i-1].c["H"], sh.lines[i].c["H"])
    BY <1>0, <1>6 DEF LossTold
  <2>6. t.lines[i].c["M"] = sh.lines[i].c["M"]
    BY <1>5, <2>5
  <2> QED BY <2>2, <2>3, <2>4, <2>5, <2>6
<1>7. ASSUME NEW i \in 1 .. sh.last
      PROVE  "M" \in DOMAIN t.lines[i].c <=> t.lines[i].is = "receiver"
  BY <1>0, <1>5 DEF LossTold
<1>8. LossTold(t) /\ DelayTold(t)
  BY <1>4, <1>5, <1>6, <1>7 DEF LossTold, DelayTold
<1> QED BY <1>4, <1>8 DEF DelaySheet, t

-----------------------------------------------------------------------------
(* The calculations are put below the flows (set_calculations,             *)
(* set_Emergency_calculation).                                             *)

LEMMA LinesAreSeq ==
  ASSUME NEW n \in Nat, NEW f, f = [i \in 1 .. n |-> f[i]]
  PROVE  f \in Seq(Elements(f))
<1>1. DOMAIN f = 1 .. n
  OBVIOUS
<1>2. f \in [1 .. n -> Elements(f)]
  BY <1>1 DEF Elements
<1> QED BY <1>2

LEMMA TuplesAreSeq ==
  ASSUME NEW a, NEW b, NEW c, NEW d
  PROVE  /\ <<a>> \in Seq(Elements(<<a>>)) /\ <<a, b>> \in Seq(Elements(<<a, b>>))
         /\ <<a, b, c, d>> \in Seq(Elements(<<a, b, c, d>>))
<1> DEFINE S == {a, b, c, d}
<1>1. <<a>> \in Seq(S) /\ <<a, b>> \in Seq(S) /\ <<a, b, c, d>> \in Seq(S)
  OBVIOUS
<1> HIDE DEF S
<1> QED BY <1>1, ElementsOfSeq

IsSeq(s) == s \in Seq(Elements(s))
LEMMA AppendedIsSeq ==
  ASSUME NEW s, IsSeq(s), NEW t, IsSeq(t)
  PROVE  IsSeq(s \o t)
BY AppendedRows DEF IsSeq

LEMMA BlockIsSeq ==
  ASSUME NEW k, NEW d
  PROVE  IsSeq(R!Block(k, d))
<1> DEFINE blank == R!Blank
           title == R!Line("Calculations", << >>, << >>)
           five == [n \in 1 .. 5 |->
                      R!Line(R!headers_lines[n], <<d>>,
                        [B |-> R!Mean(R!Kept(R!Column(book[k], R!Averages[n], d)))])]
           sixth == R!Line(R!headers_lines[6], <<d>>, [B |-> spread[k][d]])
           four == [n \in 1 .. 4 |-> R!IntResultLines(d)[n + 6]]
           cells == [B |-> R!FromDb, C |-> R!FromDb]
           id == R!Line("Switch ID", << >>, << >>)
           each == [n \in 1 .. NumSwitches |-> R!Line("switch", <<d>>, cells)]
           mean == R!Line("Mean", <<d>>, cells)
           deviation == R!Line("Standard Deviation", <<d>>, cells)
<1>1. R!CalculationLines(k, d) = <<blank, blank, blank, title>> \o five \o <<sixth>>
  BY Zenon DEF R!CalculationLines
<1>2. R!SwitchLines(d) = <<blank, id>> \o each \o <<mean, deviation>>
  BY Zenon DEF R!SwitchLines
<1>3. R!Block(k, d) = R!CalculationLines(k, d) \o four \o R!SwitchLines(d)
  BY Zenon DEF R!Block
<1>4. /\ five = [n \in 1 .. 5 |-> five[n]] /\ four = [n \in 1 .. 4 |-> four[n]]
      /\ each = [n \in 1 .. NumSwitches |-> each[n]]
  OBVIOUS
<1> HIDE DEF five, four, each, blank, title, sixth, id, mean, deviation
<1>5. IsSeq(five) /\ IsSeq(four) /\ IsSeq(each)
  <2>1. 5 \in Nat /\ 4 \in Nat /\ NumSwitches \in Nat
    BY SheetsTyped
  <2> QED BY <1>4, <2>1, LinesAreSeq DEF IsSeq
<1>6. /\ IsSeq(<<blank, blank, blank, title>>) /\ IsSeq(<<sixth>>)
      /\ IsSeq(<<blank, id>>) /\ IsSeq(<<mean, deviation>>)
  BY TuplesAreSeq DEF IsSeq
<1>7. IsSeq(R!CalculationLines(k, d))
  BY <1>1, <1>5, <1>6, AppendedIsSeq
<1>8. IsSeq(R!SwitchLines(d))
  BY <1>2, <1>5, <1>6, AppendedIsSeq
<1> QED BY <1>3, <1>5, <1>7, <1>8, AppendedIsSeq

LEMMA BlocksAreSeq ==
  ASSUME NEW k
  PROVE  IsSeq(R!FlattenSeq([n \in DOMAIN ScenarioDscps |-> R!Block(k, ScenarioDscps[n])]))
<1> DEFINE parts == [n \in DOMAIN ScenarioDscps |-> R!Block(k, ScenarioDscps[n])]
           m == Len(ScenarioDscps)
<1>1. m \in Nat /\ DOMAIN ScenarioDscps = 1 .. m
  BY SheetsTyped
<1>2. \A n \in 1 .. m : parts[n] \in Seq(Elements(parts[n]))
  <2> TAKE n \in 1 .. m
  <2>1. parts[n] = R!Block(k, ScenarioDscps[n])
    BY <1>1
  <2>2. IsSeq(parts[n])
    BY <2>1, BlockIsSeq
  <2> HIDE DEF parts
  <2> QED BY <2>2 DEF IsSeq
<1> HIDE DEF m
<1>3. Len(parts) = m /\ parts = [n \in 1 .. m |-> parts[n]]
  BY <1>1
<1> HIDE DEF parts
<1>4. IsSeq(R!FlattenSeq(parts))
  BY <1>1, <1>2, <1>3, WithinFlattened DEF IsSeq
<1> QED BY <1>4 DEF parts

LEMMA AddedBelow ==
  ASSUME NEW sh, DelaySheet(sh), NEW more, IsSeq(more)
  PROVE  DelaySheet([sh EXCEPT !.lines = @ \o more])
<1> DEFINE t == [sh EXCEPT !.lines = @ \o more]
           l == sh.lines
           m == l \o more
           n == sh.last
<1>1. /\ sh = [lines |-> l, last |-> n] /\ l \in Seq(Elements(l)) /\ n \in Nat /\ n <= Len(l)
      /\ FlowsPaired(l, n)
  BY DEF DelaySheet, SheetTyped
<1>2. /\ m \in Seq(Elements(m)) /\ Len(m) = Len(l) + Len(more)
      /\ \A i \in 1 .. Len(l) : m[i] = l[i]
  BY <1>1, AppendedRows DEF IsSeq
<1>3. Len(l) \in Nat /\ Len(more) \in Nat
  BY <1>1 DEF IsSeq
<1>4. t.lines = m /\ t.last = n /\ t = [lines |-> t.lines, last |-> t.last]
  <2>1. t = [sh EXCEPT !.lines = m]
    BY Zenon
  <2> HIDE DEF t, m, l, n
  <2>2. t = [lines |-> m, last |-> n]
    BY <1>1, <2>1
  <2> QED BY <2>2
<1> HIDE DEF t, m
<1>5. \A i \in 1 .. n : m[i] = l[i]
  BY <1>1, <1>2, <1>3
<1>0. LossTold(sh) /\ DelayTold(sh)
  BY DEF DelaySheet
<1>6. \A i \in 1 .. n : l[i].is = "receiver" => i - 1 \in 1 .. n /\ m[i-1] = l[i-1]
  <2> SUFFICES ASSUME NEW i \in 1 .. n, l[i].is = "receiver"
               PROVE  i - 1 \in 1 .. n /\ m[i-1] = l[i-1]
    OBVIOUS
  <2>1. i > 1
    BY <1>1 DEF FlowsPaired
  <2>2. i - 1 \in 1 .. n
    BY <1>1, <2>1
  <2> QED BY <1>5, <2>2
<1>7. FlowsPaired(m, n)
  <2>1. \A i \in 1 .. n : i < n => i + 1 \in 1 .. n
    BY <1>1
  <2> QED BY <1>1, <1>5, <1>6, <2>1 DEF FlowsPaired
<1>8. SheetTyped(t)
  BY <1>1, <1>2, <1>3, <1>4, <1>7 DEF SheetTyped
<1>9. LossTold(t)
  BY <1>0, <1>4, <1>5, <1>6 DEF LossTold
<1>10. DelayTold(t)
  BY <1>0, <1>4, <1>5, <1>6 DEF DelayTold
<1> QED BY <1>8, <1>9, <1>10 DEF DelaySheet, t

LEMMA SheetTells ==
  ASSUME NEW sh, DelaySheet(sh), NEW i \in 2 .. sh.last
  PROVE  /\ R!Cell(sh.lines[i], "M") # R!None <=> sh.lines[i].is = "receiver"
         /\ sh.lines[i].is = "receiver" =>
              /\ sh.lines[i-1].flow = sh.lines[i].flow /\ sh.lines[i-1].is = "sender"
              /\ sh.lines[i].c.M = R!Minus(sh.lines[i-1].c.H, sh.lines[i].c.H)
              /\ sh.lines[i].c.O = R!Minus(sh.lines[i].c.I, sh.lines[i-1].c.I)
<1>1. SheetTyped(sh) /\ LossTold(sh) /\ DelayTold(sh) /\ sh.last \in Nat
  BY DEF DelaySheet, SheetTyped
<1>2. i \in 1 .. sh.last
  BY <1>1
<1>3. R!None \notin Fraction
  BY DEF R!None, Fraction
<1>4. R!Cell(sh.lines[i], "M") =
        IF "M" \in DOMAIN sh.lines[i].c THEN sh.lines[i].c["M"] ELSE R!None
  BY DEF R!Cell
<1>5. CASE sh.lines[i].is = "receiver"
  <2>1. /\ sh.lines[i-1].is = "sender" /\ sh.lines[i-1].flow = sh.lines[i].flow
        /\ sh.lines[i].c["H"] \in Fraction /\ sh.lines[i-1].c["H"] \in Fraction
    BY <1>1, <1>2, <1>5, PairOf
  <2>2. /\ "M" \in DOMAIN sh.lines[i].c
        /\ sh.lines[i].c["M"] = R!Minus(sh.lines[i-1].c["H"], sh.lines[i].c["H"])
    BY <1>1, <1>2, <1>5 DEF LossTold
  <2>3. sh.lines[i].c["O"] = R!Minus(sh.lines[i].c["I"], sh.lines[i-1].c["I"])
    BY <1>1, <1>2, <1>5 DEF DelayTold
  <2>4. sh.lines[i].c["M"] \in Fraction
    BY <2>1, <2>2, MinusType
  <2> QED BY <1>3, <1>4, <1>5, <2>1, <2>2, <2>3, <2>4
<1>6. CASE sh.lines[i].is # "receiver"
  <2>1. "M" \notin DOMAIN sh.lines[i].c
    BY <1>1, <1>2, <1>6 DEF LossTold
  <2> QED BY <1>4, <1>6, <2>1
<1> QED BY <1>5, <1>6

-----------------------------------------------------------------------------
(* The file that is processed is one of a test. *)

ToolRow(w) ==
  /\ RowTyped(w) /\ w.flow \in Flow /\ Arrived(w) = SeenAt[w.flow]
FileOfTests ==
  \/ test.pc = "menu" /\ file \in Earlier
  \/ \A i \in DOMAIN file.rows : i > 1 => ToolRow(file.rows[i])

(* Sender and receivers of a flow write rows of one key. *)
LEMMA RowsAreOfTools ==
  ASSUME TypeOK, NEW x \in Process
  PROVE  \A i \in DOMAIN Rows(x) : ToolRow(Rows(x)[i])
<1>1. CASE x \in Sender
  <2> DEFINE f == x[2]
             row == [is |-> "sender", it |-> x[1], host |-> f, flow |-> f,
                     dst |-> SentTo[f], dscp |-> Dscp[f],
                     num |-> Count[f] - snd[x].failed, time |-> 0, ooo |-> 0, jit |-> 0]
  <2>1. Rows(x) = <<row>>
    BY <1>1, Zenon DEF Rows, SenderRows
  <2>2. f \in Flow /\ Count[f] \in Nat /\ snd[x].failed \in Nat
    <3>1. snd[x] \in SenderState
      BY <1>1, SenderTyped
    <3> QED BY <1>1, <3>1, TestParameters DEF Sender, SenderState
  <2>3. row.flow = f /\ row.is = "sender" /\ row.dscp = Dscp[f] /\ row.dst = SentTo[f]
        /\ row.num \in Int /\ row.time \in Int /\ row.ooo \in Int /\ row.jit \in Int
    BY <2>2
  <2> HIDE DEF f, row
  <2>4. Arrived(row) = IF Dscp[f] \in DOMAIN DscpIps THEN DscpIps[Dscp[f]] ELSE SentTo[f]
    BY <2>3 DEF Arrived
  <2>5. Arrived(row) = SeenAt[f]
    BY <2>2, <2>4, GroupsKnown
  <2>6. ToolRow(row)
    BY <2>2, <2>3, <2>5 DEF ToolRow, RowTyped
  <2>7. DOMAIN <<row>> = {1} /\ <<row>>[1] = row
    OBVIOUS
  <2> QED BY <2>1, <2>6, <2>7
<1>2. CASE x \in Receiver
  <2>1. Rows(x) = ReceiverRows(x) /\ rcv[x].flows \in Seq(Metrics)
    BY <1>2, ProcessesDiffer, ReceiverTyped DEF Rows, ReceiverState
  <2> DEFINE m(i) == rcv[x].flows[i]
             row(i) == [is |-> "receiver", it |-> x[1], host |-> x[2], flow |-> m(i).flow,
                        dst |-> SeenAt[m(i).flow], dscp |-> Dscp[m(i).flow], num |-> m(i).num,
                        time |-> 1, ooo |-> Cardinality(OutOfOrder(m(i).seqs)), jit |-> 0]
  <2>2. Rows(x) = [i \in DOMAIN rcv[x].flows |-> row(i)]
    BY <2>1, Zenon DEF ReceiverRows
  <2>3. ASSUME NEW i \in DOMAIN rcv[x].flows
        PROVE  ToolRow(row(i))
    <3>1. m(i) \in Metrics
      BY <2>1
    <3>2. m(i).flow \in Flow /\ m(i).num \in Nat /\ m(i).seqs \in Seq(Nat)
      BY <3>1 DEF Metrics
    <3> HIDE DEF m
    <3>3. Cardinality(OutOfOrder(m(i).seqs)) \in Nat
      <4> DEFINE q == m(i).seqs
                 k == Len(q)
      <4>1. DOMAIN q = 1 .. k /\ k \in Nat
        BY <3>2
      <4> HIDE DEF q
      <4>2. OutOfOrder(q) \subseteq 1 .. k
        BY <4>1 DEF OutOfOrder
      <4>3. IsFiniteSet(1 .. k)
        BY <4>1, FS_Interval
      <4>4. IsFiniteSet(OutOfOrder(q))
        BY <4>2, <4>3, FS_Subset
      <4> QED BY <4>4, FS_CardinalityType DEF q
    <3> DEFINE late == Cardinality(OutOfOrder(m(i).seqs))
               w == row(i)
               f == m(i).flow
    <3>4. late \in Int
      BY <3>3
    <3> HIDE DEF late
    <3>5. w = [is |-> "receiver", it |-> x[1], host |-> x[2], flow |-> f,
               dst |-> SeenAt[f], dscp |-> Dscp[f], num |-> m(i).num,
               time |-> 1, ooo |-> late, jit |-> 0]
      BY Zenon DEF late
    <3> HIDE DEF w, f
    <3>6. w.flow = f /\ w.is = "receiver" /\ w.dst = SeenAt[f]
          /\ w.num \in Int /\ w.time \in Int /\ w.ooo \in Int /\ w.jit \in Int
      BY <3>2, <3>4, <3>5
    <3>7. Arrived(w) = SeenAt[f]
      BY <3>6 DEF Arrived
    <3>8. ToolRow(w)
      BY <3>2, <3>6, <3>7 DEF ToolRow, RowTyped, f
    <3> QED BY <3>8 DEF w
  <2> HIDE DEF row
  <2> QED BY <2>2, <2>3
<1> QED BY <1>1, <1>2 DEF Process

LEMMA CloseKeepsTools ==
  ASSUME TypeOK, FileAsFound, NEW x \in Process, Close(x),
         \A i \in DOMAIN file.rows : i > 1 => ToolRow(file.rows[i])
  PROVE  \A i \in DOMAIN file'.rows : i > 1 => ToolRow(file'.rows[i])
<1>1. PICK m \in Nat :
        /\ Len(file.rows) <= m /\ DOMAIN file'.rows = 1 .. m + Len(Rows(x))
        /\ DOMAIN file.rows = 1 .. Len(file.rows) /\ Len(file.rows) \in Nat
        /\ Len(file'.rows) = m + Len(Rows(x)) /\ Len(Rows(x)) \in Nat
        /\ \A i \in 1 .. Len(file.rows) : file'.rows[i] = file.rows[i]
        /\ \A i \in Len(file.rows) + 1 .. m : file'.rows[i] = HEADER
        /\ \A j \in 1 .. Len(Rows(x)) : file'.rows[m+j] = Rows(x)[j]
  BY WrittenBelow
<1> DEFINE n == Len(file.rows)
           k == Len(Rows(x))
<1>2. HeaderFirst(file'.rows)
  BY WrittenTyped DEF Close
<1>3. Rows(x) \in Seq(Elements(Rows(x)))
  BY RowsTyped
<1>4. DOMAIN Rows(x) = 1 .. k
  BY <1>3
<1>5. \A j \in 1 .. k : ToolRow(Rows(x)[j])
  BY <1>4, RowsAreOfTools
<1>6. n \in Nat /\ k \in Nat /\ m \in Nat /\ n <= m
  BY <1>1
<1>7. DOMAIN file'.rows = 1 .. m + k /\ DOMAIN file.rows = 1 .. n
  BY <1>1
<1>8. SUFFICES ASSUME NEW i \in 1 .. m + k, i > 1 PROVE ToolRow(file'.rows[i])
  BY <1>7
<1>9. CASE i \in 1 .. n
  <2>1. file'.rows[i] = file.rows[i]
    BY <1>1, <1>9
  <2> QED BY <1>7, <1>8, <1>9, <2>1
<1>10. CASE i \in n + 1 .. m
  <2>1. file'.rows[i] = HEADER
    BY <1>1, <1>10
  <2> QED BY <1>2, <1>7, <1>8, <2>1 DEF HeaderFirst
<1>11. CASE i \in m + 1 .. m + k
  <2>1. i - m \in 1 .. k /\ m + (i - m) = i
    BY <1>6, <1>11
  <2>2. file'.rows[m + (i - m)] = Rows(x)[i - m]
    BY <1>1, <2>1
  <2> QED BY <1>5, <2>1, <2>2
<1>12. i \in 1 .. n \/ i \in n + 1 .. m \/ i \in m + 1 .. m + k
  BY <1>6, <1>8
<1> QED BY <1>9, <1>10, <1>11, <1>12

LEMMA InitFileOfTests == Init => FileOfTests
<1> SUFFICES ASSUME Init PROVE FileOfTests
  OBVIOUS
<1>1. test.pc = "menu" /\ (file \in Earlier \/ file = Absent)
  BY DEF Init
<1>2. CASE file = Absent
  <2>1. file.rows = << >> /\ DOMAIN << >> = {}
    BY <1>2 DEF Absent
  <2> QED BY <2>1 DEF FileOfTests
<1> QED BY <1>1, <1>2 DEF FileOfTests

LEMMA NextFileOfTests ==
  ASSUME IInv, FileOfTests, [Next]_vars
  PROVE  FileOfTests'
<1>1. TypeOK /\ FileAsFound
  BY DEF IInv
<1>2. test.pc = "menu" => \A x \in Process : Pc(x).pc \notin {"lock", "write"}
  BY DEF IInv, InTime, Ended, Waiting
<1>3. CASE StartTest
  <2>1. file' = Absent
    BY <1>3 DEF StartTest
  <2>2. file'.rows = << >> /\ DOMAIN << >> = {}
    BY <2>1 DEF Absent
  <2> QED BY <2>2 DEF FileOfTests
<1>4. CASE StartIteration \/ StartFlows \/ EndIteration
  <2>1. file' = file /\ test.pc # "menu"
    BY <1>4 DEF StartIteration, StartFlows, EndIteration
  <2> QED BY <2>1 DEF FileOfTests
<1>5. CASE Tick \/ UNCHANGED vars
  <2>1. UNCHANGED <<test, file>>
    BY <1>5 DEF Tick, vars
  <2> QED BY <2>1 DEF FileOfTests
<1>6. CASE \E s \in Sender : SendStarts(s) \/ SendPacket(s) \/ SendEnds(s)
  <2>1. UNCHANGED <<test, file>>
    BY <1>6 DEF SendStarts, SendPacket, SendEnds
  <2> QED BY <2>1 DEF FileOfTests
<1>7. CASE \E r \in Receiver : ReceiveStarts(r) \/ ProcessPacket(r) \/ SniffEnds(r) \/ Join(r)
  <2>1. UNCHANGED <<test, file>>
    BY <1>7 DEF ReceiveStarts, ProcessPacket, SniffEnds, Join
  <2> QED BY <2>1 DEF FileOfTests
<1>8. CASE \E c \in net : Deliver(c)
  <2>1. UNCHANGED <<test, file>>
    BY <1>8 DEF Deliver
  <2> QED BY <2>1 DEF FileOfTests
<1>9. ASSUME NEW x \in Process, Open(x) PROVE FileOfTests'
  <2>1. test.pc # "menu" /\ file' = [file EXCEPT !.exists = TRUE]
    BY <1>2, <1>9 DEF Open
  <2>2. file'.rows = file.rows
    BY <1>1, <2>1 DEF TypeOK
  <2> QED BY <2>1, <2>2 DEF FileOfTests
<1>10. ASSUME NEW x \in Process, Close(x) PROVE FileOfTests'
  <2>1. test.pc # "menu"
    BY <1>2, <1>10 DEF Close
  <2>2. \A i \in DOMAIN file.rows : i > 1 => ToolRow(file.rows[i])
    BY <2>1 DEF FileOfTests
  <2>3. \A i \in DOMAIN file'.rows : i > 1 => ToolRow(file'.rows[i])
    BY <1>1, <1>10, <2>2, CloseKeepsTools
  <2> QED BY <2>3 DEF FileOfTests
<1> QED BY <1>3, <1>4, <1>5, <1>6, <1>7, <1>8, <1>9, <1>10 DEF Next, Export

LEMMA FilesAreOfTests ==
  ASSUME IInv, FileOfTests, test.pc = "menu", file.exists
  PROVE  \A k \in 1 .. 2 : RowsOfTests(Files[k])
<1>1. RowsOfTests(Baseline)
  BY FilesOfTests
<1>2. RowsOfTests(file.rows)
  <2>1. CASE file \in Earlier
    BY <2>1, FilesOfTests
  <2>2. CASE \A i \in DOMAIN file.rows : i > 1 => ToolRow(file.rows[i])
    <3> DEFINE rows == file.rows
    <3>1. rows \in Seq(Elements(rows))
      BY DEF IInv, TypeOK
    <3>2. lock = Nobody
      <4>1. Ended
        BY DEF IInv, InTime
      <4>2. \A x \in Process : Pc(x).pc # "write"
        BY <4>1 DEF Ended, Waiting
      <4> QED BY <4>2 DEF IInv, OneWriter, TypeOK
    <3>3. rows # << >>
      BY <3>2 DEF IInv, FileAsFound
    <3>4. \A i \in 2 .. Len(rows) : ToolRow(rows[i])
      <4>1. \A i \in 2 .. Len(rows) : i \in 1 .. Len(rows) /\ i > 1
        BY <3>1
      <4>2. DOMAIN rows = 1 .. Len(rows)
        BY <3>1
      <4> QED BY <2>2, <4>1, <4>2
    <3> HIDE DEF rows
    <3>5. ASSUME NEW i \in 2 .. Len(rows)
          PROVE  /\ rows[i].is \in {"sender", "receiver"}
                 /\ {rows[i].num, rows[i].time, rows[i].ooo, rows[i].jit} \subseteq Int
      BY <3>4 DEF ToolRow, RowTyped
    <3>6. ASSUME NEW i \in 2 .. Len(rows), NEW j \in 2 .. Len(rows), rows[i].flow = rows[j].flow
          PROVE  Arrived(rows[i]) = Arrived(rows[j])
      BY <3>4, <3>6 DEF ToolRow
    <3>7. RowsOfTests(rows)
      BY <3>1, <3>3, <3>5, <3>6 DEF RowsOfTests
    <3> QED BY <3>7 DEF rows
  <2> QED BY <2>1, <2>2 DEF FileOfTests
<1>3. Files[1] = file.rows /\ Files[2] = Baseline
  BY DEF Files
<1>4. \A k \in 1 .. 2 : k = 1 \/ k = 2
  OBVIOUS
<1> QED BY <1>1, <1>2, <1>3, <1>4

-----------------------------------------------------------------------------
(* The steps of main. *)

(* What is read of file k. *)
ReadOf(k, res) ==
  \E n \in Nat : /\ Len(Files[k]) = n + 1
                 /\ \A p \in 1 .. n : Tail(Files[k])[p] = Files[k][p+1]
                 /\ ReadTells(res, Tail(Files[k]), n)
(* What a sheet is like at a stage of main. *)
SheetAt(st, sh) ==
  /\ st \in {"read", "jitter", "export", "loss"} => RawSheet(sh)
  /\ st = "delay" => LossSheet(sh)
  /\ st \in {"calculate", "variation", "compare", "graphs", "done"} => DelaySheet(sh)
BookInv ==
  /\ book \in Seq(Elements(book))
  /\ stage = "read" => Len(book) < 2
  /\ stage \in {"jitter", "export"} => Len(book) < 2 /\ ReadOf(R!File, results)
  /\ stage = "export" => ~ R!Unheard(results)
  /\ \A k \in 1 .. Len(book) : R!Has(k, "sender") => SheetAt(stage, book[k])

LEMMA ExportedSheet ==
  ASSUME NEW k, RowsOfTests(Files[k]), NEW res, ReadOf(k, res), ~ R!Unheard(res),
         R!Has(k, "sender")
  PROVE  RawSheet([lines |-> R!RawLines(res), last |-> Len(R!RawLines(res))])
<1>1. PICK n \in Nat : /\ Len(Files[k]) = n + 1
                       /\ \A p \in 1 .. n : Tail(Files[k])[p] = Files[k][p+1]
                       /\ ReadTells(res, Tail(Files[k]), n)
  BY DEF ReadOf
<1> DEFINE lines == R!RawLines(res)
           sh == [lines |-> lines, last |-> Len(lines)]
<1>2. ASSUME NEW i \in 1 .. Len(res)
      PROVE  \A j \in 1 .. Len(res[i].flows) : res[i].flows[j].sender # << >>
  <2>1. FlowsTell(res[i].flows, Tail(Files[k]), n, res[i].it)
    BY <1>1 DEF ReadTells
  <2>2. "sender" \in {"sender", "receiver"}
    OBVIOUS
  <2>3. \A j \in 1 .. Len(res[i].flows) : res[i].flows[j]["sender"] # << >>
    BY <1>1, <2>1, <2>2, SideRead
  <2> QED BY <2>3
<1>3. \A i \in 1 .. Len(res) : \A j \in 1 .. Len(res[i].flows) :
        res[i].flows[j].receiver # << >>
  BY <1>1, HeardRead
<1>4. Exported(lines)
  BY <1>1, <1>2, <1>3, RawExported
<1> HIDE DEF lines
<1>5. sh.lines = lines /\ sh.last = Len(lines) /\ sh = [lines |-> sh.lines, last |-> sh.last]
  OBVIOUS
<1> HIDE DEF sh
<1>6. lines \in Seq(Elements(lines)) /\ Len(lines) \in Nat /\ FlowsPaired(lines, Len(lines))
  BY <1>4 DEF Exported
<1>7. SheetTyped(sh)
  BY <1>5, <1>6 DEF SheetTyped
<1>8. RawSheet(sh)
  BY <1>4, <1>5, <1>7 DEF RawSheet, Exported
<1> QED BY <1>8 DEF sh, lines

(* The files stay as they are while they are processed. *)
LEMMA FilesStay ==
  ASSUME UNCHANGED vars
  PROVE  /\ Files' = Files
         /\ \A k : R!Has(k, "sender")' <=> R!Has(k, "sender")
         /\ \A k, res : ReadOf(k, res)' <=> ReadOf(k, res)
<1>1. file' = file
  BY DEF vars
<1>2. Files' = Files
  BY <1>1 DEF Files
<1>3. ASSUME NEW k PROVE R!Has(k, "sender")' <=> R!Has(k, "sender")
  BY <1>2, Zenon DEF R!Has, R!FlowsIn
<1>4. ASSUME NEW k, NEW res PROVE ReadOf(k, res)' <=> ReadOf(k, res)
  BY <1>2, Zenon DEF ReadOf
<1> QED BY <1>2, <1>3, <1>4

(* A step that changes every sheet by itself. *)
LEMMA SheetsChange ==
  ASSUME BookInv, UNCHANGED vars, book' = [k \in DOMAIN book |-> book'[k]],
         stage' \notin {"read", "jitter", "export"},
         \A k \in 1 .. Len(book) : SheetAt(stage, book[k]) => SheetAt(stage', book'[k])
  PROVE  BookInv'
<1> DEFINE n == Len(book)
<1>1. n \in Nat /\ DOMAIN book = 1 .. n
  BY DEF BookInv
<1>2. book' \in Seq(Elements(book')) /\ Len(book') = n
  <2>1. book' = [k \in 1 .. n |-> book'[k]]
    BY <1>1
  <2> HIDE DEF n
  <2> QED BY <1>1, <2>1, LinesAreSeq
<1>3. \A k \in 1 .. n : R!Has(k, "sender")' => SheetAt(stage', book'[k])
  BY FilesStay DEF BookInv
<1> QED BY <1>2, <1>3 DEF BookInv

LEMMA InitBook == MInit => BookInv
<1> SUFFICES ASSUME MInit PROVE BookInv
  OBVIOUS
<1>1. stage = "idle" /\ book = << >>
  BY DEF MInit, R!InitResults
<1>2. << >> \in Seq(Elements(<< >>)) /\ Len(<< >>) = 0
  OBVIOUS
<1> QED BY <1>1, <1>2 DEF BookInv, SheetAt

LEMMA TestingKeepsBook == ASSUME BookInv, Testing PROVE BookInv'
<1>1. stage = "idle" /\ stage' = stage /\ book' = book
  BY DEF Testing, processing
<1>2. book' \in Seq(Elements(book'))
  BY <1>1 DEF BookInv
<1> QED BY <1>1, <1>2 DEF BookInv, SheetAt

LEMMA StartKeepsBook == ASSUME BookInv, R!Start PROVE BookInv'
<1>1. stage' = "read" /\ book' = << >>
  BY DEF R!Start
<1>2. << >> \in Seq(Elements(<< >>)) /\ Len(<< >>) = 0 /\ 1 .. 0 = {}
  OBVIOUS
<1> QED BY <1>1, <1>2 DEF BookInv

(* read_raw_results *)
LEMMA ReadKeepsBook ==
  ASSUME BookInv, IInv, FileOfTests, Processing, R!ReadCsvFiles
  PROVE  BookInv'
<1>1. UNCHANGED vars /\ test.pc = "menu" /\ file.exists
  BY DEF Processing
<1>2. /\ stage = "read" /\ stage' = "jitter" /\ book' = book
      /\ results' = R!FoldLeft(R!ReadRow, << >>, Tail(Files[R!File]))
  BY Zenon DEF R!ReadCsvFiles
<1>3. Len(book) < 2 /\ Len(book) \in Nat
  BY <1>2 DEF BookInv
<1>4. R!File \in 1 .. 2 /\ R!File' = R!File
  BY <1>2, <1>3 DEF R!File
<1>5. RowsOfTests(Files[R!File])
  BY <1>1, <1>4, FilesAreOfTests
<1>6. ReadOf(R!File, results')
  <2> DEFINE rows == Files[R!File]
  <2>1. RowsOfTests(rows) /\ results' = R!FoldLeft(R!ReadRow, << >>, Tail(rows))
    BY <1>2, <1>5
  <2> HIDE DEF rows
  <2>2. \E n \in Nat : /\ Len(rows) = n + 1
                       /\ \A p \in 1 .. n : Tail(rows)[p] = rows[p+1]
                       /\ ReadTells(results', Tail(rows), n)
    BY <2>1, FileRead
  <2> QED BY <2>2 DEF ReadOf, rows
<1>7. ReadOf(R!File, results)'
  BY <1>1, <1>4, <1>6, FilesStay
<1>8. \A k \in 1 .. Len(book) : R!Has(k, "sender")' => SheetAt(stage', book'[k])
  BY <1>1, <1>2, FilesStay DEF BookInv, SheetAt
<1> QED BY <1>2, <1>3, <1>7, <1>8 DEF BookInv

LEMMA JitterKeepsBook ==
  ASSUME BookInv, UNCHANGED vars, R!StdJitter
  PROVE  BookInv'
<1>1. /\ stage = "jitter" /\ stage' = "export" /\ book' = book /\ results' = results
      /\ ~ R!Unheard(results)
  BY Zenon DEF R!StdJitter
<1>2. ReadOf(R!File, results)' /\ ~ R!Unheard(results)'
  <2>1. R!File' = R!File
    BY <1>1 DEF R!File
  <2>2. ReadOf(R!File, results)
    BY <1>1 DEF BookInv
  <2> QED BY <1>1, <2>1, <2>2, FilesStay
<1>3. \A k \in 1 .. Len(book) : R!Has(k, "sender")' => SheetAt(stage', book'[k])
  BY <1>1, FilesStay DEF BookInv, SheetAt
<1> QED BY <1>1, <1>2, <1>3 DEF BookInv

(* export_raw_results *)
LEMMA ExportKeepsBook ==
  ASSUME BookInv, IInv, FileOfTests, Processing, R!ExportRawResults
  PROVE  BookInv'
<1> DEFINE sheet == [lines |-> R!RawLines(results), last |-> Len(R!RawLines(results))]
           n == Len(book)
<1>1. UNCHANGED vars /\ test.pc = "menu" /\ file.exists
  BY DEF Processing
<1>2. /\ stage = "export" /\ book' = Append(book, sheet)
      /\ stage' = IF Len(book') < Len(Files) THEN "read" ELSE "loss"
  BY Zenon DEF R!ExportRawResults
<1>3. n < 2 /\ n \in Nat /\ DOMAIN book = 1 .. n
  BY <1>2 DEF BookInv
<1>4. R!File \in 1 .. 2 /\ R!File = n + 1
  BY <1>3 DEF R!File
<1>5. RowsOfTests(Files[R!File])
  BY <1>1, <1>4, FilesAreOfTests
<1>6. ReadOf(R!File, results) /\ ~ R!Unheard(results)
  BY <1>2 DEF BookInv
<1>7. R!Has(R!File, "sender") => RawSheet(sheet)
  BY <1>5, <1>6, ExportedSheet
<1> HIDE DEF sheet
<1>8. /\ Len(book') = n + 1 /\ book'[n+1] = sheet
      /\ \A k \in 1 .. n : book'[k] = book[k]
      /\ book' \in Seq(Elements(book) \cup {sheet})
  BY <1>2 DEF BookInv
<1>9. book' \in Seq(Elements(book'))
  BY <1>8, ElementsOfSeq
<1>10. stage' \in {"read", "loss"} /\ (stage' = "read" => Len(book') < 2)
  <2>1. Len(Files) = 2
    BY DEF Files
  <2> QED BY <1>2, <2>1
<1>11. ASSUME NEW k \in 1 .. Len(book'), R!Has(k, "sender")'
       PROVE  RawSheet(book'[k])
  <2>1. R!Has(k, "sender")
    BY <1>1, <1>11, FilesStay
  <2>2. CASE k \in 1 .. n
    BY <1>2, <1>8, <2>1, <2>2 DEF BookInv, SheetAt
  <2>3. CASE k = n + 1
    BY <1>4, <1>7, <1>8, <2>1, <2>3
  <2> QED BY <1>3, <1>8, <2>2, <2>3
<1>12. \A k \in 1 .. Len(book') : R!Has(k, "sender")' => SheetAt(stage', book'[k])
  BY <1>10, <1>11 DEF SheetAt
<1> QED BY <1>9, <1>10, <1>12 DEF BookInv

LEMMA LossKeepsBook ==
  ASSUME BookInv, UNCHANGED vars, R!SetPktLoss
  PROVE  BookInv'
<1>1. /\ stage = "loss" /\ stage' = "delay"
      /\ book' = [k \in DOMAIN book |-> R!PktLoss(book[k])]
  BY Zenon DEF R!SetPktLoss
<1>2. DOMAIN book = 1 .. Len(book)
  BY DEF BookInv
<1>3. \A k \in 1 .. Len(book) : SheetAt(stage, book[k]) => SheetAt(stage', book'[k])
  BY <1>1, <1>2, LossFilled DEF SheetAt
<1> QED BY <1>1, <1>3, SheetsChange

LEMMA DelayKeepsBook ==
  ASSUME BookInv, UNCHANGED vars, R!SetFirstPktDelay
  PROVE  BookInv'
<1>1. /\ stage = "delay" /\ stage' = "calculate"
      /\ book' = [k \in DOMAIN book |-> R!FirstPktDelay(book[k])]
  BY Zenon DEF R!SetFirstPktDelay
<1>2. DOMAIN book = 1 .. Len(book)
  BY DEF BookInv
<1>3. \A k \in 1 .. Len(book) : SheetAt(stage, book[k]) => SheetAt(stage', book'[k])
  BY <1>1, <1>2, DelayFilled DEF SheetAt
<1> QED BY <1>1, <1>3, SheetsChange

LEMMA CalculationsKeepBook ==
  ASSUME BookInv, UNCHANGED vars, R!SetCalculations
  PROVE  BookInv'
<1> DEFINE more(k) == R!FlattenSeq([n \in DOMAIN ScenarioDscps |-> R!Block(k, ScenarioDscps[n])])
<1>1. /\ stage = "calculate" /\ stage' = "variation"
      /\ book' = [k \in DOMAIN book |-> [book[k] EXCEPT !.lines = @ \o more(k)]]
  BY Zenon DEF R!SetCalculations
<1>2. DOMAIN book = 1 .. Len(book)
  BY DEF BookInv
<1>3. \A k : IsSeq(more(k))
  BY BlocksAreSeq
<1> HIDE DEF more
<1>4. ASSUME NEW k \in 1 .. Len(book), DelaySheet(book[k]) PROVE DelaySheet(book'[k])
  <2>1. book'[k] = [book[k] EXCEPT !.lines = @ \o more(k)]
    BY <1>1, <1>2, Zenon
  <2>2. DelaySheet([book[k] EXCEPT !.lines = @ \o more(k)])
    BY <1>3, <1>4, AddedBelow
  <2> QED BY <2>1, <2>2, Zenon
<1>5. \A k \in 1 .. Len(book) : SheetAt(stage, book[k]) => SheetAt(stage', book'[k])
  BY <1>1, <1>4 DEF SheetAt
<1>6. book' = [k \in DOMAIN book |-> book'[k]]
  BY <1>1, Zenon
<1> QED BY <1>1, <1>5, <1>6, SheetsChange

LEMMA VariationKeepsBook ==
  ASSUME BookInv, UNCHANGED vars, R!SetVariation
  PROVE  BookInv'
<1> DEFINE title == R!Line("Flows Types", << >>, << >>)
           first == R!Line(R!headers_lines[4], <<R!All>>, [x \in {"B", "C", "D"} |-> R!Formula])
           flow == R!Line("AVG Flow Delay", <<R!All>>, [x \in {"B", "C", "D"} |-> R!Formula])
           blank == R!Blank
           more == <<blank, blank, blank, blank, blank, title, first, flow>>
<1>1. /\ stage = "variation" /\ stage' = "compare"
      /\ book' = [k \in DOMAIN book |-> [book[k] EXCEPT !.lines = @ \o more]]
  BY Zenon DEF R!SetVariation
<1>2. DOMAIN book = 1 .. Len(book)
  BY DEF BookInv
<1> HIDE DEF title, first, flow, blank
<1>3. IsSeq(more)
  <2>1. more \in Seq({blank, title, first, flow})
    OBVIOUS
  <2> HIDE DEF more
  <2> QED BY <2>1, ElementsOfSeq DEF IsSeq
<1> HIDE DEF more
<1>4. ASSUME NEW k \in 1 .. Len(book), DelaySheet(book[k]) PROVE DelaySheet(book'[k])
  <2>1. book'[k] = [book[k] EXCEPT !.lines = @ \o more]
    BY <1>1, <1>2, Zenon
  <2>2. DelaySheet([book[k] EXCEPT !.lines = @ \o more])
    BY <1>3, <1>4, AddedBelow
  <2> QED BY <2>1, <2>2, Zenon
<1>5. \A k \in 1 .. Len(book) : SheetAt(stage, book[k]) => SheetAt(stage', book'[k])
  BY <1>1, <1>4 DEF SheetAt
<1>6. book' = [k \in DOMAIN book |-> book'[k]]
  BY <1>1, Zenon
<1> QED BY <1>1, <1>5, <1>6, SheetsChange

(* The steps that leave the sheets alone. *)
LEMMA RestKeepsBook ==
  ASSUME BookInv, UNCHANGED vars,
         R!SetComparisonSheet \/ R!CreateGraphs \/ R!Fail \/ UNCHANGED processing
  PROVE  BookInv'
<1>1. book' = book
  BY Zenon DEF R!SetComparisonSheet, R!CreateGraphs, R!Fail, processing
<1>2. CASE R!SetComparisonSheet \/ R!CreateGraphs \/ R!Fail
  <2>1. /\ stage' \in {"graphs", "done", "failed"}
        /\ stage' = "graphs" => stage = "compare"
        /\ stage' = "done" => stage = "graphs"
    BY <1>2 DEF R!SetComparisonSheet, R!CreateGraphs, R!Fail
  <2>2. \A k \in 1 .. Len(book) : R!Has(k, "sender")' => SheetAt(stage', book'[k])
    BY <1>1, <2>1, FilesStay DEF BookInv, SheetAt
  <2> QED BY <1>1, <2>1, <2>2 DEF BookInv
<1>3. CASE UNCHANGED processing
  <2>1. stage' = stage /\ results' = results /\ R!File' = R!File
    BY <1>1, <1>3 DEF processing, R!File
  <2>2. R!Unheard(results)' <=> R!Unheard(results)
    BY <2>1
  <2>3. ReadOf(R!File, results)' <=> ReadOf(R!File, results)
    BY <2>1, FilesStay
  <2>4. \A k \in 1 .. Len(book) : R!Has(k, "sender")' => SheetAt(stage', book'[k])
    BY <1>1, <2>1, FilesStay DEF BookInv
  <2> QED BY <1>1, <2>1, <2>2, <2>3, <2>4 DEF BookInv
<1> QED BY <1>2, <1>3

LEMMA NextBook ==
  ASSUME IInv, FileOfTests, BookInv, [MNext]_mvars
  PROVE  BookInv'
<1>1. CASE Testing
  BY <1>1, TestingKeepsBook
<1>2. CASE Processing
  <2>1. R!Process /\ UNCHANGED vars
    BY <1>2 DEF Processing
  <2> QED BY <1>2, <2>1, StartKeepsBook, ReadKeepsBook, JitterKeepsBook, ExportKeepsBook,
             LossKeepsBook, DelayKeepsBook, CalculationsKeepBook, VariationKeepsBook,
             RestKeepsBook DEF R!Process
<1>3. CASE UNCHANGED mvars
  <2>1. UNCHANGED vars /\ UNCHANGED processing
    BY <1>3 DEF mvars
  <2> QED BY <2>1, RestKeepsBook
<1> QED BY <1>1, <1>2, <1>3 DEF MNext

LEMMA BookTells == BookInv => LossOfItsFlow
<1> SUFFICES ASSUME BookInv, stage \in {"calculate", "variation", "compare", "graphs", "done"},
                    NEW k \in DOMAIN book, R!Has(k, "sender"), NEW i \in 2 .. book[k].last
             PROVE  LET l == book[k].lines IN
                    /\ R!Cell(l[i], "M") # R!None <=> l[i].is = "receiver"
                    /\ l[i].is = "receiver" =>
                         /\ l[i - 1].flow = l[i].flow /\ l[i - 1].is = "sender"
                         /\ l[i].c.M = R!Minus(l[i - 1].c.H, l[i].c.H)
                         /\ l[i].c.O = R!Minus(l[i].c.I, l[i - 1].c.I)
  BY Zenon DEF LossOfItsFlow, R!LossOfItsFlow
<1>1. k \in 1 .. Len(book)
  BY DEF BookInv
<1>2. DelaySheet(book[k])
  BY <1>1 DEF BookInv, SheetAt
<1> QED BY <1>2, SheetTells

-----------------------------------------------------------------------------
(* Processing a file runs beside the tests, and changes nothing of theirs. *)
LEMMA TestsGoOn == [MNext]_mvars => [Next]_vars
BY DEF MNext, Testing, Processing, mvars

(* Loss and delay (set_pkt_loss and set_fist_pkt_delay of                  *)
(* process_results.py) are worked out between the two lines of one flow,   *)
(* for all flows of all iterations, if the file has a row of each sender:  *)
(* in whatever order the processes of a test have written their rows.      *)
THEOREM LossIsOfItsFlow == MSpec => []LossOfItsFlow
<1>1. MInit => Init /\ FileOfTests /\ BookInv
  BY InitFileOfTests, InitBook DEF MInit
<1>2. IInv /\ FileOfTests /\ BookInv /\ [MNext]_mvars => FileOfTests' /\ BookInv'
  BY TestsGoOn, NextFileOfTests, NextBook
<1>3. Init => IInv
  BY InitIInv
<1>4. IInv /\ [MNext]_mvars => IInv'
  BY TestsGoOn, NextTyped, NextKeepsFile, NextInTime DEF IInv
<1> QED BY <1>1, <1>2, <1>3, <1>4, BookTells, PTL DEF MSpec
=============================================================================
