------------------------------ MODULE LoadTest ------------------------------
(***************************************************************************)
(* The load test (mininet/interface.py) and the traffic tools it starts    *)
(* (mininet/tools/send.py, receive.py).  In every iteration a receiver is  *)
(* started on each host and, a gap later, a sender for each flow, all in   *)
(* the background; the test sleeps for a time that should outlast them.    *)
(* When it ends, each process appends its rows to one CSV file, under a    *)
(* lock on a second file.                                                  *)
(*                                                                         *)
(* Time is in seconds.  It advances from deadline to deadline: what        *)
(* happens in between happens at the deadline before.  Arrival times and   *)
(* the jitter computed from them are left out: rows tell senders (time 0)  *)
(* from receivers (time 1) and hold no jitter.                             *)
(***************************************************************************)
EXTENDS Integers, Sequences, FiniteSets, SequencesExt

CONSTANTS
  Host,          \* hosts with a receiver
  Flow,          \* flows: one sender each
  Members,       \* the hosts that get the packets of a flow
  SentTo,        \* destination address of a flow, as its sender gives it
  SeenAt,        \* the same as the receivers see it: multicast changes it
  Dscp,          \* DSCP of a flow
  Count,         \* packet_number: packets of a flow in an iteration
  Duration, SenderReceiverGap, ExportResultsGap, NumIterations,
  StartUp,       \* longest time a process takes to start
  Transit,       \* longest time a packet is under way
  ExportTime,    \* longest time from the end of traffic to the end of export
  Reorders,      \* whether packets of a flow overtake each other
  MaxTests,      \* bound on the tests run from the menu
  MaxPackets,    \* bound on the packets sent in a test after the first ones
  Earlier        \* files an earlier test may have left

ASSUME TestParameters ==
  /\ Host \cap Flow = {} /\ Members \in [Flow -> SUBSET Host]
  /\ Count \in [Flow -> Nat] /\ NumIterations \in Nat \ {0} /\ MaxTests \in Nat
  /\ Duration \in Nat /\ SenderReceiverGap \in Nat /\ ExportResultsGap \in Nat
  /\ StartUp \in Nat /\ Transit \in Nat /\ ExportTime \in Nat
  /\ Reorders \in BOOLEAN /\ MaxPackets \in Nat

(* The computer and the network keep within the margins that interface.py  *)
(* leaves: the gap, 5 % of the traffic's time and 5 % of the receivers'.   *)
ASSUME WithinMargins ==
  /\ StartUp < SenderReceiverGap
  /\ StartUp + Transit < (Duration * 5) \div 100
  /\ LET timeout == (Duration * 105) \div 100 + SenderReceiverGap
     IN  StartUp + ExportTime < SenderReceiverGap + ExportResultsGap + (timeout * 5) \div 100

VARIABLES
  now,      \* seconds since the test was started
  test,     \* high_load_test: [pc, it, wake, runs]
  snd,      \* senders: [pc, since, n, failed, new]
  rcv,      \* receivers: [pc, since, queue, flows, new], and what was heard
  net,      \* copies of packets under way: [it, flow, seq, to, by]
  file,     \* the CSV file: [exists, rows]
  lock      \* owner of the lock on the second file

vars == <<now, test, snd, rcv, net, file, lock>>

Iteration == 1 .. NumIterations
Sender    == Iteration \X Flow
Receiver  == Iteration \X Host
Process   == Sender \cup Receiver
Pc(x)     == IF x \in Sender THEN snd[x] ELSE rcv[x]
Nobody    == <<0, 0>>
Absent    == [exists |-> FALSE, rows |-> << >>]
HEADER    == [is |-> "header"]
HeaderFirst(rows) == \A i \in DOMAIN rows : rows[i] = HEADER <=> i = 1
Elements(rows) == {rows[i] : i \in DOMAIN rows}

ASSUME EarlierFilesComplete ==
  \A f \in Earlier :
    /\ f = [exists |-> TRUE, rows |-> f.rows] /\ f.rows \in Seq(Elements(f.rows))
    /\ f.rows # << >> /\ HeaderFirst(f.rows)

-----------------------------------------------------------------------------
(* update_times: 5 % more than the traffic lasts, and 5 % more than that.  *)
ReceiverTimeoutTight == Duration + SenderReceiverGap  \* seeded fault: no margin
ReceiverTimeout == (Duration * 105) \div 100 + SenderReceiverGap
IterationSleepTight == ReceiverTimeout \* seeded fault: no time to export
IterationSleep  == (ReceiverTimeout * 105) \div 100 + ExportResultsGap

NewSender   == [pc |-> "off", since |-> 0, n |-> 0, failed |-> 0, new |-> FALSE]
NewReceiver == [pc |-> "off", since |-> 0, queue |-> << >>,
                flows |-> << >>, new |-> FALSE, heard |-> << >>]

(* By when the next thing has to happen; Tick does not pass any of them.   *)
DueAt(p, long) ==
  CASE p.pc = "launched" -> p.since + StartUp
    [] p.pc = "busy"     -> p.since + long
    [] OTHER             -> p.since + long + ExportTime
Waiting(p) == p.pc \notin {"off", "done"}
Deadlines ==
  {DueAt(snd[s], Duration) : s \in {x \in Sender : Waiting(snd[x])}}
    \cup {DueAt(rcv[r], ReceiverTimeout) : r \in {x \in Receiver : Waiting(rcv[x])}}
    \cup {c.by : c \in net}
    \cup (IF test.pc \in {"gap", "sleep"} THEN {test.wake} ELSE {})

Tick ==
  /\ \E d \in Deadlines : now' = d /\ \A e \in Deadlines : now < e /\ d <= e
  /\ UNCHANGED <<test, snd, rcv, net, file, lock>>

-----------------------------------------------------------------------------
(* The test.                                                               *)

Init ==
  /\ now = 0
  /\ test = [pc |-> "menu", it |-> 0, wake |-> 0, runs |-> 0]
  /\ snd = [s \in Sender |-> NewSender] /\ rcv = [r \in Receiver |-> NewReceiver]
  /\ net = {} /\ file \in Earlier \cup {Absent} /\ lock = Nobody

(* Receivers of an iteration, all in the background. *)
LaunchReceivers(i) ==
  rcv' = [r \in Receiver |-> IF r[1] = i
            THEN [NewReceiver EXCEPT !.pc = "launched", !.since = now] ELSE rcv[r]]

(* Option 2 of the menu.  The old file goes without a look at the lock; at *)
(* the menu no process is left (EndedBeforeNext).                          *)
StartTest ==
  /\ test.pc = "menu" /\ test.runs < MaxTests
  /\ now' = 0 /\ file' = Absent
  /\ test' = [pc |-> "start", it |-> 1, wake |-> 0, runs |-> test.runs + 1]
  /\ snd' = [s \in Sender |-> NewSender] /\ rcv' = [r \in Receiver |-> NewReceiver]
  /\ UNCHANGED <<net, lock>>

StartIteration ==
  /\ test.pc = "start"
  /\ LaunchReceivers(test.it)
  /\ test' = [test EXCEPT !.pc = "gap", !.wake = now + SenderReceiverGap]
  /\ UNCHANGED <<now, snd, net, file, lock>>

StartFlows ==
  /\ test.pc = "gap" /\ now >= test.wake
  /\ snd' = [s \in Sender |-> IF s[1] = test.it
               THEN [NewSender EXCEPT !.pc = "launched", !.since = now] ELSE snd[s]]
  /\ test' = [test EXCEPT !.pc = "sleep", !.wake = now + IterationSleep]
  /\ UNCHANGED <<now, rcv, net, file, lock>>

EndIteration ==
  /\ test.pc = "sleep" /\ now >= test.wake
  /\ test' = IF test.it < NumIterations
             THEN [test EXCEPT !.pc = "start", !.it = @ + 1]
             ELSE [test EXCEPT !.pc = "menu"]
  /\ UNCHANGED <<now, snd, rcv, net, file, lock>>

-----------------------------------------------------------------------------
(* send.py: the packets one after the other until they are all sent or the *)
(* time is up, a first one always; --i is below half a second, so that the *)
(* pause rounds to nothing.                                                *)

SetSnd(s, p) == snd' = [snd EXCEPT ![s] = p]

SendStarts(s) ==
  /\ snd[s].pc = "launched"
  /\ SetSnd(s, [snd[s] EXCEPT !.pc = "busy", !.since = now])
  /\ UNCHANGED <<now, test, rcv, net, file, lock>>

(* The network loses the copies for some of the members. *)
Copies(s, n, hs) ==
  {[it |-> s[1], flow |-> s[2], seq |-> n, to |-> h,
    by |-> snd[s].since + Duration + Transit] : h \in hs}

(* The time is not up; MaxPackets bounds the run. *)
GoesOn(s) ==
  /\ now - snd[s].since < Duration
  /\ SumFunction([x \in Sender |-> snd[x].n]) < MaxPackets

SendPacket(s) ==
  LET f == s[2]  n == snd[s].n + 1
  IN  /\ snd[s].pc = "busy" /\ n <= Count[f]
      /\ snd[s].n = 0 \/ GoesOn(s)
      /\ \/ /\ SetSnd(s, [snd[s] EXCEPT !.n = n])
            /\ \E hs \in SUBSET Members[f] : net' = net \cup Copies(s, n, hs)
         \/ /\ SetSnd(s, [snd[s] EXCEPT !.n = n, !.failed = @ + 1])
            /\ UNCHANGED net
      /\ UNCHANGED <<now, test, rcv, file, lock>>

SendEnds(s) ==
  /\ snd[s].pc = "busy"
  /\ snd[s].n = Count[s[2]] \/ (snd[s].n > 0 /\ now - snd[s].since >= Duration)
  /\ SetSnd(s, [snd[s] EXCEPT !.pc = "lock"])
  /\ UNCHANGED <<now, test, rcv, net, file, lock>>

(* Rows are written in the order of the dictionary: one for a sender,      *)
(* which takes all packets but the failed ones for sent ...                *)
SenderRows(s) ==
  << [is |-> "sender", it |-> s[1], host |-> s[2], flow |-> s[2], dst |-> SentTo[s[2]],
      dscp |-> Dscp[s[2]], num |-> Count[s[2]] - snd[s].failed,
      time |-> 0, ooo |-> 0, jit |-> 0] >>

-----------------------------------------------------------------------------
(* The network; copies overtake each other if Reorders.                    *)

(* Every receiver that sniffs on the host puts the packet on its queue.    *)
Deliver(c) ==
  /\ c \in net /\ net' = net \ {c}
  /\ Reorders \/ \A d \in net : <<d.it, d.flow, d.to>> = <<c.it, c.flow, c.to>>
                                  => d.seq >= c.seq
  /\ rcv' = [r \in Receiver |-> IF r[2] = c.to /\ rcv[r].pc = "busy"
               THEN LET p == [flow |-> c.flow, seq |-> c.seq]
                    IN  [rcv[r] EXCEPT !.queue = Append(@, p), !.heard = Append(@, p)]
               ELSE rcv[r]]
  /\ UNCHANGED <<now, test, snd, file, lock>>

-----------------------------------------------------------------------------
(* receive.py: the sniffer fills a queue, a thread empties it into the     *)
(* metrics of each flow; None on the queue tells the thread to end.        *)

SetRcv(r, p) == rcv' = [rcv EXCEPT ![r] = p]

ReceiveStarts(r) ==
  /\ rcv[r].pc = "launched"
  /\ SetRcv(r, [rcv[r] EXCEPT !.pc = "busy", !.since = now])
  /\ UNCHANGED <<now, test, snd, net, file, lock>>

(* process_packet: a flow is added to the dictionary by its first packet.  *)
Counted(flows, p) ==
  LET i == {x \in DOMAIN flows : flows[x].flow = p.flow}
  IN  IF i = {}
      THEN Append(flows, [flow |-> p.flow, num |-> 1, seqs |-> <<p.seq>>])
      ELSE [x \in DOMAIN flows |-> IF x \in i
              THEN [flows[x] EXCEPT !.num = @ + 1, !.seqs = Append(@, p.seq)]
              ELSE flows[x]]

ProcessPacket(r) ==
  /\ rcv[r].pc \in {"busy", "join"} /\ rcv[r].queue # << >>
  /\ SetRcv(r, [rcv[r] EXCEPT !.queue = Tail(@), !.flows = Counted(@, Head(rcv[r].queue))])
  /\ UNCHANGED <<now, test, snd, net, file, lock>>

SniffEnds(r) ==
  /\ rcv[r].pc = "busy" /\ now - rcv[r].since >= ReceiverTimeout
  /\ SetRcv(r, [rcv[r] EXCEPT !.pc = "join"])
  /\ UNCHANGED <<now, test, snd, net, file, lock>>

(* The thread is joined before the results are taken. *)
JoinEarly(r) ==      \* seeded fault: terminate without waiting for the thread
  /\ rcv[r].pc = "join"
  /\ SetRcv(r, [rcv[r] EXCEPT !.pc = "lock"])
  /\ UNCHANGED <<now, test, snd, net, file, lock>>
Join(r) ==
  /\ rcv[r].pc = "join" /\ rcv[r].queue = << >>
  /\ SetRcv(r, [rcv[r] EXCEPT !.pc = "lock"])
  /\ UNCHANGED <<now, test, snd, net, file, lock>>

(* terminate: a packet is out of order if a higher number came before it.  *)
Highest(seqs) ==
  LET h[i \in 0 .. Len(seqs)] ==
        IF i = 0 THEN 0 ELSE IF seqs[i] < h[i-1] THEN h[i-1] ELSE seqs[i]
  IN  h
OutOfOrder(seqs) == {i \in DOMAIN seqs : seqs[i] < Highest(seqs)[i-1]}

(* ... and one row per flow for a receiver. *)
ReceiverRows(r) ==
  [i \in DOMAIN rcv[r].flows |->
     LET m == rcv[r].flows[i]
     IN  [is |-> "receiver", it |-> r[1], host |-> r[2], flow |-> m.flow,
          dst |-> SeenAt[m.flow], dscp |-> Dscp[m.flow], num |-> m.num,
          time |-> 1, ooo |-> Cardinality(OutOfOrder(m.seqs)), jit |-> 0]]

-----------------------------------------------------------------------------
(* export_results of both tools.  The parameter `set' stores the process   *)
(* p, `rows' are what it appends.                                          *)

Move(x, p) ==
  IF x \in Sender THEN SetSnd(x, p) /\ UNCHANGED rcv ELSE SetRcv(x, p) /\ UNCHANGED snd
Rows(x) == IF x \in Sender THEN SenderRows(x) ELSE ReceiverRows(x)

OpenUnlocked(x) ==         \* seeded fault: no exclusive lock
  /\ Pc(x).pc = "lock"
  /\ lock' = x
  /\ Move(x, [Pc(x) EXCEPT !.pc = "write", !.new = ~file.exists])
  /\ file' = [file EXCEPT !.exists = TRUE]
  /\ UNCHANGED <<now, test, net>>
(* With the lock: is there a file?  Opening it creates it. *)
Open(x) ==
  /\ Pc(x).pc = "lock" /\ lock = Nobody
  /\ lock' = x
  /\ Move(x, [Pc(x) EXCEPT !.pc = "write", !.new = ~file.exists])
  /\ file' = [file EXCEPT !.exists = TRUE]
  /\ UNCHANGED <<now, test, net>>

Written(x) ==
  [file EXCEPT !.rows = @ \o (IF Pc(x).new THEN <<HEADER>> ELSE << >>) \o Rows(x)]
CloseLocked(x) ==          \* seeded fault: the lock is kept
  /\ Pc(x).pc = "write"
  /\ file' = Written(x) /\ lock' = lock
  /\ Move(x, [Pc(x) EXCEPT !.pc = "done", !.since = 0])
  /\ UNCHANGED <<now, test, net>>
(* Header and rows are buffered and reach the file when it is closed; then *)
(* the lock is released.                                                   *)
Close(x) ==
  /\ Pc(x).pc = "write"
  /\ file' = Written(x) /\ lock' = Nobody
  /\ Move(x, [Pc(x) EXCEPT !.pc = "done", !.since = 0])
  /\ UNCHANGED <<now, test, net>>

Export(x) == Open(x) \/ Close(x)

Next ==
  \/ Tick \/ StartTest \/ StartIteration \/ StartFlows \/ EndIteration
  \/ \E s \in Sender : SendStarts(s) \/ SendPacket(s) \/ SendEnds(s)
  \/ \E c \in net : Deliver(c)
  \/ \E r \in Receiver :
       ReceiveStarts(r) \/ ProcessPacket(r) \/ SniffEnds(r) \/ Join(r)
  \/ \E x \in Process : Export(x)

Spec == Init /\ [][Next]_vars

(* The operating system runs every process, and time goes on. *)
FairSpec == Spec /\ WF_vars(Next)

-----------------------------------------------------------------------------
(* Properties.                                                             *)

(* Whatever the order in which senders and receivers finish, the file has  *)
(* one header, on its first line; only who holds the lock can see less.    *)
FileWellFormed ==
  /\ HeaderFirst(file.rows)
  /\ file.exists /\ lock = Nobody => file.rows # << >>

(* A packet under way finds the receiver of its own iteration sniffing on  *)
(* its host and no other: the gap and the margins of update_times cover    *)
(* the start-up of both tools and the way through the network.             *)
SniffedWhileSent ==
  \A c \in net : \A r \in Receiver :
    r[2] = c.to => (rcv[r].pc = "busy" <=> r[1] = c.it)

Ended == \A x \in Process : ~Waiting(Pc(x))
(* The sleep of an iteration outlasts all it started: no process of it is  *)
(* alive and no packet under way when the next one, or the menu, comes.    *)
EndedBeforeNext ==
  test.pc \in {"start", "menu"} => Ended /\ net = {} /\ lock = Nobody

RowsOf(r) == {i \in DOMAIN file.rows : /\ file.rows[i].is = "receiver"
                                       /\ <<file.rows[i].it, file.rows[i].host>> = r}
HeardOf(r, f) == {i \in DOMAIN rcv[r].heard : rcv[r].heard[i].flow = f}
LateOf(r, f)  == {i \in HeardOf(r, f) :
                    \E j \in HeardOf(r, f) : j < i /\ rcv[r].heard[j].seq > rcv[r].heard[i].seq}
(* The rows of a receiver are those of the flows it heard, once each, and  *)
(* say what arrived, although a thread works off the queue behind it: how  *)
(* many packets, and how many of them after a later one.                   *)
RowsTellWhatArrived ==
  \A r \in Receiver : rcv[r].pc = "done" =>
    LET row == file.rows IN
    /\ \A i, j \in RowsOf(r) : row[i].flow = row[j].flow => i = j
    /\ {row[i].flow : i \in RowsOf(r)} = {p.flow : p \in ToSet(rcv[r].heard)}
    /\ \A i \in RowsOf(r) :
         /\ row[i].num = Cardinality(HeardOf(r, row[i].flow))
         /\ row[i].ooo = Cardinality(LateOf(r, row[i].flow))

(* A test comes to an end: no process waits for the lock for ever. *)
TestEnds == (test.pc # "menu") ~> (test.pc = "menu")

(* send.py calls what it puts in its row num_packets_successefuly_sent.    *)
SenderRowsTrue ==
  \A i \in DOMAIN file.rows : LET w == file.rows[i] IN
    w.is = "sender" => w.num = snd[<<w.it, w.flow>>].n - snd[<<w.it, w.flow>>].failed
=============================================================================
