----------------------------- MODULE SfcNetwork -----------------------------
(***************************************************************************)
(* Switches that run the P4 program of P4Switch, joined by lossy links,    *)
(* with hosts and telemetry collectors at their edge, while the controller *)
(* pushes the table entries of config/ and each takes effect on its own.   *)
(*                                                                         *)
(* A frame is a packet waiting to be processed by switch "at", on whose    *)
(* port "in" it arrived.  Its history h is not seen by any action: o is    *)
(* the packet as the host sent it, trace the switches it has left, served  *)
(* the switches whose service function it has been through, policy and     *)
(* todo0 the chain it was given and its length, hops the switches that     *)
(* forwarded it to one port.  A frame is removed from the set when it is processed, and  *)
(* no switch sends two copies to one port, so a set loses no frame.        *)
(***************************************************************************)
EXTENDS P4Switch, FiniteSets

CONSTANTS
  Link,          \* <<switch, port>> -> <<switch, port>> at the other end
  HostAt,        \* <<switch, port>> -> host attached there
  Offered,       \* the packets hosts may send
  Members,       \* the hosts behind each multicast address (README table)
  MaxSent,       \* bound: packets and probes sent in one behaviour
  Mixed,         \* bound: the packets that are sent in one behaviour with
                 \* others; any other packet has the network for itself
  MaxTrace,      \* bound: switches one frame passes (only a storm reaches it)
  Lossy,         \* whether links lose frames
  Probes,        \* <<switch, port>>: ports the controller sends probes to
  Push           \* the initial value of pending

ASSUME NetworkTyped ==
  /\ Link \in [DOMAIN Link -> Switch \X Port]
  /\ HostAt \in [DOMAIN HostAt -> Host] /\ DOMAIN HostAt \subseteq Switch \X Port
  /\ {"none", "onos"} \subseteq Addr
  /\ Offered \subseteq
       [host: Host, eth: EthTypes \ {"SFC"}, dmac: Addr, src: Addr, dst: Addr,
        l4: L4Kind, dscp: Dscp \ {DSCP_INT}, len: Length, lldp: {<< >>}]

(* Only ports that hosts are attached to are sources (config/INT_Tables).  *)
ASSUME SourcesAtEdge ==
  \A x \in DOMAIN Link :
    Link[x][2] \notin DOMAIN Config[Link[x][1]]["tb_set_source"]

(* Hosts send no probes, and no switch floods or rewrites one: neither the *)
(* address of a probe nor DSCP 0 is in a multicast table.                  *)
ASSUME ProbesStayPut ==
  /\ \A o \in Offered : o.eth # "LLDP"
  /\ Probes \subseteq Switch \X Port
  /\ \A s \in Switch : /\ "onos" \notin DOMAIN Config[s]["multicast"]
                       /\ 0 \notin DOMAIN Config[s]["multicast_dst_addr"]

(* A firewall is one from the start, and lists no multicast address        *)
(* (config/SFC/s2.txt): what a multicaster has turned into multicast does  *)
(* not get past it.                                                        *)
ASSUME FirewallsListHosts ==
  \A s \in Switch : 1 \in DOMAIN Config[s]["is_it_firewall"] =>
    /\ <<s, "is_it_firewall", 1>> \notin Push
    /\ \A t \in Switch : \A d \in DOMAIN Config[t]["multicast_dst_addr"] :
         Config[t]["multicast_dst_addr"][d].ip \notin DOMAIN Config[s]["l3_fireWall"]

VARIABLES
  frames,        \* frames waiting at a switch
  delivered,     \* what arrived at the hosts
  reports,       \* telemetry reports sent to the collectors
  punted,        \* packet-ins the switches sent to the controller
  seqNo,         \* register seq_number of each switch
  sent           \* the packets hosts have sent

vars == <<pending, frames, delivered, reports, punted, seqNo, sent>>

NoHistory(o) ==
  [o |-> o, trace |-> << >>, served |-> << >>, policy |-> << >>,
   todo0 |-> 0, hops |-> 0]

(* The LLDP probe the controller sends out of port x[2] of switch x[1],    *)
(* which it names.                                                         *)
ProbeFrom(x) ==
  [host |-> "onos", eth |-> "LLDP", dmac |-> "onos", src |-> "none",
   dst |-> "none", l4 |-> NoL4, dscp |-> 0, len |-> 0, lldp |-> x]

(* A packet as a host builds it: no SFC header, no INT headers. *)
FromHost(o) ==
  [eth |-> o.eth, dmac |-> o.dmac, src |-> o.src, dst |-> o.dst,
   l4 |-> o.l4, dscp |-> o.dscp, ecn |-> 0, ttl |-> MaxTtl, len |-> o.len,
   sc |-> 0, chain |-> << >>,
   int |-> FALSE, odscp |-> 0, shimLen |-> 0, stack |-> << >>]

Init ==
  /\ pending = Push
  /\ frames = {} /\ delivered = {} /\ reports = {} /\ punted = {}
  /\ seqNo = [s \in Switch |-> 0]
  /\ sent = {}

-----------------------------------------------------------------------------
(* Hosts, links and the controller. *)

HostSend(o) ==
  /\ o \notin sent /\ Cardinality(sent) < MaxSent
  /\ sent = {} \/ sent \cup {o} \subseteq Mixed
  /\ sent' = sent \cup {o}
  /\ frames' = frames \cup
       {[at |-> e[1], in |-> e[2], p |-> FromHost(o), h |-> NoHistory(o)] :
          e \in {x \in DOMAIN HostAt : HostAt[x] = o.host}}
  /\ UNCHANGED <<pending, delivered, reports, punted, seqNo>>

Lose(f) ==
  /\ Lossy /\ f \in frames
  /\ frames' = frames \ {f}
  /\ UNCHANGED <<pending, delivered, reports, punted, seqNo, sent>>

(***************************************************************************)
(* applyFlowRules and addGroup return before the switch has the entry, so  *)
(* entries of one command land in any order, on any switch.                *)
(***************************************************************************)
Install(e) ==
  /\ pending' = pending \ {e}
  /\ UNCHANGED <<frames, delivered, reports, punted, seqNo, sent>>

(* What leaves switch s on port o: a frame at the next switch, if any. *)
OnLink(s, o, p, h) ==
  IF <<s, o>> \in DOMAIN Link
  THEN {[at |-> Link[<<s, o>>][1], in |-> Link[<<s, o>>][2], p |-> p, h |-> h]}
  ELSE {}

(***************************************************************************)
(* ONOS link discovery hands a switch a packet-out; ingress obeys its port *)
(* and nothing in egress applies to it.                                    *)
(***************************************************************************)
PacketOut(x) ==
  LET p == [FromHost(ProbeFrom(x)) EXCEPT !.ttl = 0]
  IN  /\ x \in Probes /\ ProbeFrom(x) \notin sent /\ Cardinality(sent) < MaxSent
      /\ sent' = sent \cup {ProbeFrom(x)}
      /\ frames' = frames \cup OnLink(x[1], x[2], p, NoHistory(ProbeFrom(x)))
      /\ UNCHANGED <<pending, delivered, reports, punted, seqNo>>

-----------------------------------------------------------------------------
(* A switch takes a frame off a port: one action per way ingress can end. *)

Unforwarded(f) ==
  /\ frames' = frames \ {f}
  /\ UNCHANGED <<pending, delivered, reports, seqNo, sent>>

(* What clone_to_cpu preserves and egress restores of the ingress port. *)
PacketInUnrestored(f) == [at |-> f.at, in |-> NoPort, p |-> f.p, h |-> f.h]
PacketIn(f) == [at |-> f.at, in |-> f.in, p |-> f.p, h |-> f.h]

PuntToCpu(f) ==
  /\ f \in frames
  /\ ~ForThisSwitch(f.p) /\ AclHit(f.at, f.p)
  /\ punted' = IF /\ Config[f.at]["acl"][f.p.eth] = "clone_to_cpu"
                  /\ Hit(f.at, "sessions", 99)
               THEN punted \cup {PacketIn(f)}
               ELSE punted
  /\ Unforwarded(f)

DropAtIngress(f) ==
  /\ f \in frames
  /\ \/ ForThisSwitch(f.p)
     \/ /\ ~AclHit(f.at, f.p)
        /\ TtlExpired(f.p) \/ Blocked(f.at, f.p)
  /\ UNCHANGED punted
  /\ Unforwarded(f)

Outputs(f)  == Copies(f.at, f.in, f.p)
Encap(f)    == Encapsulated(f.at, f.in, f.p)
NewPolicy(f) == /\ DscpAtIngress(f.p) # 0
                /\ f.p.eth # "SFC" /\ Encap(f).eth = "SFC"
ServedHere(f) == DscpAtIngress(f.p) # 0 /\ Serves(f.at, Encap(f))

(* The history of f once its switch has processed it. *)
History(f) ==
  [f.h EXCEPT
     !.trace  = Append(@, f.at),
     !.served = IF ServedHere(f) THEN Append(@, f.at) ELSE @,
     !.policy = IF NewPolicy(f) THEN Encap(f).chain ELSE @,
     !.todo0  = IF NewPolicy(f) THEN Encap(f).sc ELSE @,
     !.hops   = IF Ingress(f.at, f.in, f.p).mcast_grp = 0 THEN @ + 1 ELSE @]

Report(f) ==
  LET c == IntTransit(f.at, f.p)
  IN  [node |-> SwitchId(f.at), seq |-> seqNo[f.at], src |-> c.src, dst |-> c.dst,
       dscp |-> c.odscp, stack |-> c.stack, h |-> History(f)]

Forward(f) ==
  /\ f \in frames
  /\ ~ForThisSwitch(f.p) /\ ~AclHit(f.at, f.p)
  /\ ~TtlExpired(f.p) /\ ~Blocked(f.at, f.p)
  /\ Len(f.h.trace) < MaxTrace
  /\ frames' = (frames \ {f}) \cup
       UNION {OnLink(f.at, c.port, c.p, History(f)) : c \in Outputs(f)}
  /\ delivered' = delivered \cup
       {[host |-> HostAt[<<f.at, c.port>>], p |-> c.p, h |-> History(f)] :
           c \in {d \in Outputs(f) : <<f.at, d.port>> \in DOMAIN HostAt}}
  /\ IF Reports(f.at, f.in, f.p)
     THEN /\ reports' = reports \cup {Report(f)}
          /\ seqNo' = [seqNo EXCEPT ![f.at] = NextSeq(@)]
     ELSE UNCHANGED <<reports, seqNo>>
  /\ UNCHANGED <<pending, punted, sent>>

Process(f) == PuntToCpu(f) \/ DropAtIngress(f) \/ Forward(f)

Next ==
  \/ \E o \in Offered : HostSend(o)
  \/ \E x \in Probes : PacketOut(x)
  \/ \E f \in frames : Lose(f)
  \/ \E f \in frames : Process(f)
  \/ \E e \in pending : Install(e)

Spec == Init /\ [][Next]_vars

(* A bmv2 switch keeps taking packets off its ports as long as there are any. *)
FairSpec == Spec /\ WF_vars(\E f \in frames : Process(f))

-----------------------------------------------------------------------------
(* What the deployment promises a packet. *)

Monitored(o) == \E x \in DOMAIN HostAt :
  /\ HostAt[x] = o.host
  /\ <<o.src, o.dst, o.l4>> \in DOMAIN Config[x[1]]["tb_int_source"]

(* The functions a packet of o has to visit, by the table of its switch. *)
Policy(o) ==
  LET x == CHOOSE y \in DOMAIN HostAt : HostAt[y] = o.host
      c == Config[x[1]]["sfc_classifier"]
  IN  IF o.l4 # NoL4 /\ o.dscp # 0 /\ o.dscp \in DOMAIN c
      THEN SubSeq(c[o.dscp].chain, 1, c[o.dscp].sc)
      ELSE << >>

(* The multicaster at the end of a chain turns some DSCPs into multicast. *)
Receivers(o) ==
  LET c == Policy(o)
      m == IF c = << >> THEN << >>
                        ELSE Config[c[Len(c)]]["multicast_dst_addr"]
  IN  IF o.dscp \in DOMAIN m THEN Members[m[o.dscp].ip] ELSE {o.dst}

-----------------------------------------------------------------------------
(* Safety. *)

Path  == Seq(Switch)
SeqNo == 0 .. SeqMod - 1
Sent  == Offered \cup {ProbeFrom(x) : x \in Probes}
Histories ==
  [o: Sent, trace: Path, served: Path, policy: Ids, todo0: Byte, hops: Nat]

(* Types of everything the switches, links and the controller hold. *)
TypeOK ==
  /\ pending \subseteq Push
  /\ frames \subseteq [at: Switch, in: Port, p: Packet, h: Histories]
  /\ delivered \subseteq [host: Host, p: Packet, h: Histories]
  /\ reports \subseteq [node: Nat, seq: SeqNo, src: Addr, dst: Addr,
                        dscp: Dscp, stack: Ids, h: Histories]
  /\ punted \subseteq [at: Switch, in: Port, p: Packet, h: Histories]
  /\ seqNo \in [Switch -> SeqNo]
  /\ sent \subseteq Sent

(***************************************************************************)
(* The SFC header and what has been done to the packet agree: sc functions *)
(* of its chain are left, they are the last ones, in order, each done one  *)
(* was done by a switch that offers it, and the header is gone exactly     *)
(* when none is left.  A classifier sees only packets straight from a      *)
(* host: no chain is imposed twice.  All of it holds while entries are     *)
(* still being installed, in any order.                                    *)
(***************************************************************************)
ChainMatchesHistory(p, h) ==
  /\ Len(h.served) <= Len(h.policy)
  /\ \A i \in DOMAIN h.served :
       h.policy[i] \in DOMAIN Config[h.served[i]]["sf_processing"]
  /\ p.eth = "SFC" =>
       /\ p.sc = h.todo0 - Len(h.served) /\ p.sc > 0
       /\ Len(p.chain) = Len(h.policy) - Len(h.served)
       /\ \A i \in DOMAIN p.chain : p.chain[i] = h.policy[i + Len(h.served)]
  /\ p.eth # "SFC" => Len(h.served) = h.todo0

ChainConsistent ==
  /\ \A f \in frames \cup delivered : ChainMatchesHistory(f.p, f.h)
  /\ \A f \in frames : f.in \in DOMAIN Config[f.at]["tb_set_source"] =>
                         f.h = NoHistory(f.h.o)

(* A host gets a packet only after all functions of its policy, in order. *)
ServedBeforeDelivery ==
  \A d \in delivered : d.h.served = Policy(d.h.o)

(* The hosts that get a packet are the ones it is for, README multicast    *)
(* table included, and each gets it once, whatever copies were made.       *)
RightReceiver ==
  /\ \A d \in delivered : d.host \in Receivers(d.h.o)
  /\ \A d, e \in delivered : d.host = e.host /\ d.h.o = e.h.o => d = e

(* SFC and INT are invisible to the hosts: header, DSCP and length are     *)
(* what the sender put in, whatever was added and removed on the way.      *)
HostSeesOriginal ==
  \A d \in delivered :
    /\ d.p.eth = d.h.o.eth /\ d.p.chain = << >>
    /\ ~d.p.int /\ d.p.stack = << >>
    /\ d.p.dscp = d.h.o.dscp /\ d.p.len = d.h.o.len

(* A report names the switches its packet passed, in order, and its DSCP,  *)
(* although the clone it is made from has none of this switch's changes.   *)
ReportedPathIsActual ==
  \A r \in reports :
    /\ r.dscp = r.h.o.dscp /\ r.node = r.h.trace[Len(r.h.trace)]
    /\ Len(r.stack) = Len(r.h.trace)
    /\ \A i \in DOMAIN r.stack :
         r.stack[i] = r.h.trace[Len(r.h.trace) + 1 - i]

(* One report per sink switch a monitored packet reached, and none for a   *)
(* switch that did not deliver it (README: INT Collector, multicast).      *)
OneReportPerSink ==
  \A o \in sent : \A s \in Switch :
    Cardinality({r \in reports : r.h.o = o /\ r.node = s}) =
      IF /\ o \in Offered /\ Monitored(o)
         /\ \E d \in delivered : d.h.o = o /\ d.h.trace[Len(d.h.trace)] = s
      THEN 1 ELSE 0

(* Every unicast hop costs exactly one TTL, on the SFC overlay and in IP,  *)
(* and the TTL never wraps below zero.                                     *)
TtlAccounts ==
  \A f \in frames \cup delivered :
    HasIPv4(f.p) => f.p.ttl + f.h.hops = MaxTtl

(* Nothing that has passed a firewall is bound for a destination that is   *)
(* not on its list: the mark to drop is not undone further down ingress.   *)
FirewallHolds ==
  \A f \in frames \cup delivered : \A i \in DOMAIN f.h.trace :
    LET s == f.h.trace[i]
    IN  1 \in DOMAIN Config[s]["is_it_firewall"] =>
          f.h.o.dst \in DOMAIN Config[s]["l3_fireWall"]

(* The link ONOS infers from a probe it gets back is a link that exists.   *)
LinksInferredExist ==
  \A u \in punted : u.h.o.eth = "LLDP" => Link[u.h.o.lldp] = <<u.at, u.in>>

(* The reports of a switch are numbered 0, 1, 2 ...: a gap the collector   *)
(* sees is a lost report.                                                  *)
ReportsNumbered ==
  \A s \in Switch :
    LET mine == {r \in reports : r.node = s}
    IN  {r.seq : r \in mine} = 0 .. Cardinality(mine) - 1

(* README "Multicasting/Broadcast": loops are prevented by the P4 code.    *)
BroadcastHasNoLoop ==
  \A f \in frames :
    f.h.o.dmac = "bcast" =>
      \A i, j \in DOMAIN f.h.trace : f.h.trace[i] = f.h.trace[j] => i = j

-----------------------------------------------------------------------------
(* The network implements the service: a frame that no switch has seen is  *)
(* owed its whole policy, one with an SFC header what the header lists.    *)
(* Discovery probes are none of the service's packets.                     *)

PolicyOf    == [o \in Offered |-> Policy(o)]
ReceiversOf == [o \in Offered |-> Receivers(o)]

OwedTo(f) == CASE f.h.trace = << >> -> PolicyOf[f.h.o]
               [] f.h.trace # << >> /\ f.p.eth = "SFC" ->
                    SubSeq(f.p.chain, 1, f.p.sc)
               [] OTHER -> << >>

Service == INSTANCE SfcService WITH
  Packets   <- Offered,
  Owed      <- PolicyOf,
  MeantFor  <- ReceiversOf,
  submitted <- sent \cap Offered,
  carried   <- {[o |-> f.h.o, todo |-> OwedTo(f)] :
                  f \in {g \in frames : g.h.o \in Offered}},
  arrived   <- {<<d.host, d.h.o>> : d \in delivered}

(* Refinement: every step of the network is one the service allows.        *)
ImplementsService == Service!ServiceSpec

-----------------------------------------------------------------------------
(* Liveness. *)

(* The network empties: no packet circulates for ever. *)
Drains == <>[](frames = {})

(* On links that lose nothing every host a packet is for gets it. *)
AllDelivered ==
  \A o \in Offered :
    (o \in sent) ~> (\A h \in ReceiversOf[o] :
                       \E d \in delivered : d.host = h /\ d.h.o = o)
=============================================================================
