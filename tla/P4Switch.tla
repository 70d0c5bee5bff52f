------------------------------ MODULE P4Switch ------------------------------
(***************************************************************************)
(* The P4 program of one switch (p4src/include): what the parser, the      *)
(* ingress control, the traffic manager and the egress control make of one *)
(* packet, as a function of the match-action entries the switch holds.     *)
(*                                                                         *)
(* Config[s][t] is table t of switch s when it is fully populated: a       *)
(* function from match keys to action data.  The controller pushes the     *)
(* entries one by one and each reaches its switch when it does: those that *)
(* have not are in the set pending, and a lookup hits only the others.     *)
(***************************************************************************)
EXTENDS Naturals, Sequences

CONSTANTS
  Switch,        \* the switches; the number of a switch is also its SF id
  Host,          \* the end hosts
  Port,          \* data-plane port numbers, all positive and below 511
  Addr,          \* what stands for MAC and IP addresses
  L4Kind,        \* transport: NoL4 (neither TCP nor UDP) or a kind of flow
  NoL4,
  Config,        \* Config[s][table][key] = action data
  MaxTtl         \* the TTL a host puts into a packet

VARIABLE pending \* the entries <<switch, table, key>> not yet in their table

DSCP_INT  == 23             \* 0x17: signals that INT headers follow
ANY       == 255            \* the wildcard of a ternary key
CpuPort   == 255
NoPort    == 0              \* egress_spec as the parser leaves it
DropPort  == 511            \* what mark_to_drop writes
Word8     == 256
Word16    == Word8 * Word8
SeqMod    == Word16 * 64    \* 22 bits
ShimBytes == 4
INT_HEADER_WORD       == 3
INT_TOTAL_HEADER_SIZE == 16
MAX_HOPS  == 4              \* entries of the SFC header stack

(***************************************************************************)
(* The parsed headers.  The SFC header is valid exactly when the ethertype *)
(* is SFC; chain is the part of the SFC stack that is still on the packet. *)
(* odscp and shimLen are the two fields of the INT shim the program reads, *)
(* stack the INT metadata, newest hop first: the switch id of each hop.    *)
(***************************************************************************)
Dscp     == 0 .. 63
Ecn      == 0 .. 3
Byte     == 0 .. Word8 - 1
Length   == 0 .. Word16 - 1
Ids      == Seq(Nat)
EthTypes == {"IPV4", "SFC", "LLDP", "ARP"}

Packet ==
  [eth: EthTypes, dmac: Addr, src: Addr, dst: Addr, l4: L4Kind, dscp: Dscp,
   ecn: Ecn, ttl: Byte, len: Length, sc: Byte, chain: Ids,
   int: BOOLEAN, odscp: Dscp, shimLen: Byte, stack: Ids]

(* What the parameters of the P4 actions make of the entries' data.  A     *)
(* chain entry always fills the four places of the header stack.           *)
ASSUME ConstantsTyped ==
  NoL4 \in L4Kind /\ MaxTtl \in Byte \ {0} /\ {NoPort, DropPort} \cap Port = {}

ASSUME TablesTyped ==
  \A s \in Switch :
    /\ \A d \in DOMAIN Config[s]["sfc_classifier"] :
         /\ Config[s]["sfc_classifier"][d].sc \in 1 .. MAX_HOPS
         /\ Config[s]["sfc_classifier"][d].chain \in Seq(Nat)
         /\ Len(Config[s]["sfc_classifier"][d].chain) = MAX_HOPS
    /\ \A k \in DOMAIN Config[s]["ipv4_lpm"] :
         Config[s]["ipv4_lpm"][k] \in Addr
    /\ \A d \in DOMAIN Config[s]["multicast_dst_addr"] :
         /\ Config[s]["multicast_dst_addr"][d].mac \in Addr
         /\ Config[s]["multicast_dst_addr"][d].ip \in Addr
    /\ \A a \in DOMAIN Config[s]["multicast"] :
         Config[s]["multicast"][a] \in Nat \ {0}
    /\ \A k \in DOMAIN Config[s]["tb_int_insert"] :
         Config[s]["tb_int_insert"][k] \in Nat
    /\ \A t \in {"tb_int_inst_0003", "tb_int_inst_0407"} :
         \A k \in DOMAIN Config[s][t] : Config[s][t][k] \in Nat

(* A lookup hits when the entry exists and has reached the switch. *)
Hit(s, t, k) == k \in DOMAIN Config[s][t] /\ <<s, t, k>> \notin pending

HasIPv4(p) == p.eth \in {"IPV4", "SFC"}
HasL4(p)   == HasIPv4(p) /\ p.l4 # NoL4

-----------------------------------------------------------------------------
(* Ingress: the branches that end the control early. *)

(* A standard LLDP frame is left with egress_spec = 0: no port has it. *)
ForThisSwitch(p) == p.eth = "LLDP" /\ p.dmac = "lldp"

AclHit(s, p) == Hit(s, "acl", p.eth)

TtlExpired(p) == HasIPv4(p) /\ p.ttl = 0

(* Seeded fault: the firewall looks the sender up. *)
BlockedBySource(s, p) ==
  Hit(s, "is_it_firewall", 1) /\ ~Hit(s, "l3_fireWall", p.src)

Blocked(s, p) == Hit(s, "is_it_firewall", 1) /\ ~Hit(s, "l3_fireWall", p.dst)

-----------------------------------------------------------------------------
(* Ingress: service function chaining. *)

DscpAtIngress(p) == IF p.int THEN p.odscp ELSE p.dscp

IsSource(s, in, p) == HasL4(p) /\ Hit(s, "tb_set_source", in)

(* Seeded fault: any port encapsulates, not only the sources. *)
EncapsulatedAnywhere(s, in, p) ==
  IF p.eth # "SFC" /\ HasL4(p) /\ Hit(s, "sfc_classifier", p.dscp)
  THEN [p EXCEPT !.eth   = "SFC",
                 !.sc    = Config[s]["sfc_classifier"][p.dscp].sc,
                 !.chain = Config[s]["sfc_classifier"][p.dscp].chain]
  ELSE p

Encapsulated(s, in, p) ==
  IF /\ p.eth # "SFC"
     /\ IsSource(s, in, p)
     /\ Hit(s, "sfc_classifier", p.dscp)
  THEN [p EXCEPT !.eth   = "SFC",
                 !.sc    = Config[s]["sfc_classifier"][p.dscp].sc,
                 !.chain = Config[s]["sfc_classifier"][p.dscp].chain]
  ELSE p

(* sf_processing: this switch offers the function on top of the stack. *)
Serves(s, p) ==
  /\ p.eth = "SFC"
  /\ p.chain # << >>
  /\ Hit(s, "sf_processing", p.chain[1])

(* Seeded faults: the count, or the stack, is not updated. *)
ServedWithoutCount(s, p) ==
  IF Serves(s, p) THEN [p EXCEPT !.chain = Tail(@)] ELSE p
ServedWithoutPop(s, p) ==
  IF Serves(s, p) THEN [p EXCEPT !.sc = (@ + Word8 - 1) % Word8] ELSE p

Served(s, p) ==
  IF Serves(s, p)
  THEN [p EXCEPT !.sc = (@ + Word8 - 1) % Word8, !.chain = Tail(@)]
  ELSE p

(* Seeded fault: off by one, the last function is skipped. *)
DecapsulatedEarly(p) ==
  IF p.eth = "SFC" /\ p.sc <= 1
  THEN [p EXCEPT !.eth = "IPV4", !.chain = << >>]
  ELSE p

Decapsulated(p) ==
  IF p.eth = "SFC" /\ p.sc = 0
  THEN [p EXCEPT !.eth = "IPV4", !.chain = << >>]
  ELSE p

AfterSfc(s, in, p) ==
  IF DscpAtIngress(p) = 0
  THEN p
  ELSE Decapsulated(Served(s, Encapsulated(s, in, p)))

(* sfc_egress hits, so sfc_forwarded is set and L3 forwarding is skipped. *)
SfcForwards(s, p) ==
  /\ DscpAtIngress(p) # 0
  /\ p.eth = "SFC"
  /\ p.chain # << >>
  /\ Hit(s, "sfc_egress", p.chain[1])

-----------------------------------------------------------------------------
(***************************************************************************)
(* Ingress: forwarding.  The metadata that leaves ingress with the packet: *)
(* egress_spec, mcast_grp and the three multicast flags.                   *)
(***************************************************************************)
Routed(p, port) ==
  [p |-> p, egress_spec |-> port, mcast_grp |-> 0, is_multicaster |-> FALSE,
   is_multicast |-> FALSE, became_multicast |-> FALSE]

(* Seeded fault: the overlay does not count its hops. *)
SfcForwardKeepsTtl(s, p) == Routed(p, Config[s]["sfc_egress"][p.chain[1]])

SfcForward(s, p) ==
  Routed([p EXCEPT !.ttl = @ - 1], Config[s]["sfc_egress"][p.chain[1]])

Multicaster(s) == Hit(s, "multicaster", 1)

(* Seeded fault: the DSCP in the header, which INT has replaced. *)
SetDstAddrByHeader(s, p) ==
  IF Multicaster(s) /\ Hit(s, "multicast_dst_addr", p.dscp)
  THEN LET a == Config[s]["multicast_dst_addr"][p.dscp]
       IN  [p EXCEPT !.dmac = a.mac, !.dst = a.ip]
  ELSE p

SetDstAddr(s, p) ==
  IF Multicaster(s) /\ Hit(s, "multicast_dst_addr", DscpAtIngress(p))
  THEN LET a == Config[s]["multicast_dst_addr"][DscpAtIngress(p)]
       IN  [p EXCEPT !.dmac = a.mac, !.dst = a.ip]
  ELSE p

(***************************************************************************)
(* ipv4_lpm matches the destination, the DSCP at ingress and the ECN bits. *)
(* Every entry of config/ either fixes all three (priority 90) or leaves   *)
(* the last two open (priority 70).                                        *)
(***************************************************************************)
L3Keys(p) == << <<p.dst, DscpAtIngress(p), p.ecn>>, <<p.dst, ANY, ANY>> >>
L3Hit(s, p) == HasIPv4(p) /\ \E i \in 1 .. 2 : Hit(s, "ipv4_lpm", L3Keys(p)[i])
NextMac(s, p) ==
  IF Hit(s, "ipv4_lpm", L3Keys(p)[1])
  THEN Config[s]["ipv4_lpm"][L3Keys(p)[1]]
  ELSE Config[s]["ipv4_lpm"][L3Keys(p)[2]]

Ipv4Forward(s, p) ==
  [p EXCEPT !.dmac = NextMac(s, p), !.ttl = @ - 1, !.ecn = 1]

UnicastPort(s, p) ==
  IF Hit(s, "unicast", p.dmac) THEN Config[s]["unicast"][p.dmac] ELSE DropPort

SetMulticastGroup(s, p) ==
  [Routed(p, NoPort) EXCEPT !.mcast_grp = Config[s]["multicast"][p.dmac],
                            !.is_multicast = TRUE,
                            !.became_multicast = TRUE]

L3Forward(s, p) ==
  LET q == SetDstAddr(s, p)
      r == CASE L3Hit(s, q) ->
                  LET u == Ipv4Forward(s, q) IN Routed(u, UnicastPort(s, u))
             [] ~L3Hit(s, q) /\ Hit(s, "multicast", q.dmac) ->
                  SetMulticastGroup(s, q)
             [] OTHER -> Routed(q, DropPort)
  IN  [r EXCEPT !.is_multicaster = Multicaster(s)]

Forwarded(s, in, p) ==
  LET q == AfterSfc(s, in, p)
  IN  IF SfcForwards(s, q) THEN SfcForward(s, q) ELSE L3Forward(s, q)

-----------------------------------------------------------------------------
(* Ingress: in-band telemetry source and report clone. *)

(* Seeded fault: the whole TOS byte is written into the DSCP field. *)
IntSourceTos(s, in, p) ==
  IF IsSource(s, in, p) /\ Hit(s, "tb_int_source", <<p.src, p.dst, p.l4>>)
  THEN [p EXCEPT !.int = TRUE, !.odscp = p.dscp, !.dscp = 4 * DSCP_INT]
  ELSE p

IntSource(s, in, p) ==
  IF IsSource(s, in, p) /\ Hit(s, "tb_int_source", <<p.src, p.dst, p.l4>>)
  THEN [p EXCEPT !.int = TRUE, !.odscp = p.dscp, !.dscp = DSCP_INT,
                 !.shimLen = INT_HEADER_WORD, !.stack = << >>,
                 !.len = (@ + INT_TOTAL_HEADER_SIZE) % Word16]
  ELSE p

(* Seeded fault: multicast packets have no sink. *)
IsSinkUnicast(s, r) == HasL4(r.p) /\ Hit(s, "tb_set_sink", r.egress_spec)

(* What a packet must be at this switch to leave the INT domain here. *)
IsSink(s, r) ==
  \/ HasL4(r.p) /\ Hit(s, "tb_set_sink", r.egress_spec)
  \/ ~r.is_multicaster /\ r.mcast_grp # 0

(* The whole ingress control for a packet that no early branch ends. *)
Ingress(s, in, p) ==
  LET r == Forwarded(s, in, p)
  IN  [r EXCEPT !.p = IntSource(s, in, @)]

Cloned(s, r) == r.p.int /\ IsSink(s, r)

-----------------------------------------------------------------------------
(* Traffic manager: the ports that get a copy (external: bmv2's PRE). *)

CopyPorts(s, r) ==
  IF r.mcast_grp # 0
  THEN IF Hit(s, "groups", r.mcast_grp) THEN Config[s]["groups"][r.mcast_grp]
                                        ELSE {}
  ELSE {r.egress_spec} \ {DropPort}

-----------------------------------------------------------------------------
(* Egress. *)

(* Seeded fault: packets a multicaster has just made are guarded as well. *)
LoopGuardAlways(r, in, out) == r.is_multicast /\ in = out

LoopGuard(r, in, out) ==
  ~r.became_multicast /\ r.is_multicast /\ in = out

Words(s, t) == IF Hit(s, t, 15) THEN Config[s][t][15] ELSE 0
TransitWords(s) == Words(s, "tb_int_inst_0003") + Words(s, "tb_int_inst_0407")

SwitchId(s) == IF Hit(s, "tb_int_insert", 0) THEN Config[s]["tb_int_insert"][0]
                                             ELSE 0

(* Seeded fault: the new metadata goes below the old. *)
IntTransitBelow(s, p) ==
  IF p.int /\ Hit(s, "tb_int_insert", 0)
  THEN [p EXCEPT !.stack   = @ \o <<SwitchId(s)>>,
                 !.len     = (@ + 4 * TransitWords(s)) % Word16,
                 !.shimLen = (@ + TransitWords(s)) % Word8]
  ELSE p

IntTransit(s, p) ==
  IF p.int /\ Hit(s, "tb_int_insert", 0)
  THEN [p EXCEPT !.stack   = (IF Hit(s, "tb_int_inst_0003", 15)
                                THEN <<SwitchId(s)>> ELSE << >>) \o @,
                 !.len     = (@ + 4 * TransitWords(s)) % Word16,
                 !.shimLen = (@ + TransitWords(s)) % Word8]
  ELSE p

(* Seeded fault: the shim header itself is not subtracted. *)
IntSinkKeepsShim(p) ==
  [p EXCEPT !.int = FALSE, !.dscp = p.odscp, !.odscp = 0,
            !.len = (@ + Word16 - p.shimLen * 4) % Word16,
            !.shimLen = 0, !.stack = << >>]

IntSink(p) ==
  [p EXCEPT !.int = FALSE, !.dscp = p.odscp, !.odscp = 0,
            !.len = (@ + Word16 - (p.shimLen * 4 + ShimBytes)) % Word16,
            !.shimLen = 0, !.stack = << >>]

Egress(s, r) ==
  LET q == IntTransit(s, r.p)
  IN  IF q.int /\ IsSink(s, r) THEN IntSink(q) ELSE q

(***************************************************************************)
(* Every copy of packet p, arrived on port in, that leaves the switch: the *)
(* output port and the headers it carries.                                 *)
(***************************************************************************)
Copies(s, in, p) ==
  LET r == Ingress(s, in, p)
  IN  {[port |-> o, p |-> Egress(s, r)] :
         o \in {c \in CopyPorts(s, r) : ~LoopGuard(r, in, c)}}

(* increment_counter of the register seq_number. *)
NextSeqStuck(n) == n        \* seeded fault: never written back
NextSeq(n) == (n + 1) % SeqMod

(***************************************************************************)
(* The telemetry report.  The clone is the packet as it arrived, so one    *)
(* that had no INT header then yields none: it has not met the source yet. *)
(***************************************************************************)
Reports(s, in, p) ==
  /\ Cloned(s, Ingress(s, in, p))
  /\ p.int
  /\ Hit(s, "sessions", 100)
  /\ Hit(s, "tb_generate_report", 0)
=============================================================================
