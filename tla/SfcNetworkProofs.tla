-------------------------- MODULE SfcNetworkProofs --------------------------
(***************************************************************************)
(* Type correctness, the consistency of SFC header, TTL and history, the   *)
(* firewalls and the links that ONOS infers: for every network, every      *)
(* content of the tables and every order in which entries are installed.   *)
(* First the stages of the P4 program: what they do to the parts of a      *)
(* packet that the invariants of the network speak of.                     *)
(***************************************************************************)
EXTENDS SfcNetwork, TLAPS

-----------------------------------------------------------------------------
(* Header arithmetic: what is computed from header fields fits in one. *)

LEMMA Wraps ==
  ASSUME NEW n \in Nat, NEW m \in Nat \ {0}
  PROVE  n % m \in 0 .. m - 1
  OBVIOUS

LEMMA Word16Size == Word16 \in Nat /\ Word16 > 4 * Word8 + ShimBytes
  BY DEF Word16, Word8, ShimBytes

LEMMA LengthWraps ==
  ASSUME NEW n \in Nat
  PROVE  n % Word16 \in Length
  <1>1. Word16 \in Nat \ {0}
    BY Word16Size DEF Word8, ShimBytes
  <1> QED
    BY <1>1, Wraps DEF Length

LEMMA LengthGrows ==
  ASSUME NEW n \in Length, NEW k \in Nat
  PROVE  (n + k) % Word16 \in Length
  <1>1. n + k \in Nat
    BY Word16Size DEF Length
  <1> QED
    BY <1>1, LengthWraps

LEMMA LengthShrinks ==
  ASSUME NEW n \in Length, NEW b \in Byte
  PROVE  (n + Word16 - (b * 4 + ShimBytes)) % Word16 \in Length
  <1>1. n + Word16 - (b * 4 + ShimBytes) \in Nat
    BY Word16Size DEF Length, Byte, Word8, ShimBytes
  <1> QED
    BY <1>1, LengthWraps

LEMMA BytesAreNumbers == Byte \subseteq Nat
  BY DEF Byte, Word8

LEMMA ByteArithmetic ==
  ASSUME NEW n \in Byte, NEW k \in Nat
  PROVE  /\ (n + k) % Word8 \in Byte
         /\ (n + Word8 - 1) % Word8 \in Byte
         /\ n # 0 => n - 1 \in Byte /\ (n + Word8 - 1) % Word8 = n - 1
  BY DEF Byte, Word8

-----------------------------------------------------------------------------
(* Types: every stage makes a packet of a packet. *)

LEMMA ClassifierEntryType ==
  ASSUME NEW s \in Switch, NEW d \in DOMAIN Config[s]["sfc_classifier"]
  PROVE  /\ Config[s]["sfc_classifier"][d].sc \in Byte \ {0}
         /\ Config[s]["sfc_classifier"][d].chain \in Ids
  <1>1. 1 .. MAX_HOPS \subseteq Byte \ {0}
    BY DEF MAX_HOPS, Byte, Word8
  <1>2. /\ Config[s]["sfc_classifier"][d].sc \in 1 .. MAX_HOPS
        /\ Config[s]["sfc_classifier"][d].chain \in Seq(Nat)
    BY TablesTyped
  <1> QED
    BY <1>1, <1>2 DEF Ids

LEMMA EncapsulatedType ==
  ASSUME NEW s \in Switch, NEW in, NEW p \in Packet
  PROVE  Encapsulated(s, in, p) \in Packet
  <1> DEFINE d == p.dscp
             e == Config[s]["sfc_classifier"][d]
  <1>1. CASE d \notin DOMAIN Config[s]["sfc_classifier"]
    BY <1>1 DEF Encapsulated, Hit
  <1>2. CASE d \in DOMAIN Config[s]["sfc_classifier"]
    <2>1. e.sc \in Byte /\ e.chain \in Ids
      BY <1>2, ClassifierEntryType
    <2>2. "SFC" \in EthTypes
      BY DEF EthTypes
    <2> HIDE DEF e
    <2>3. [p EXCEPT !.eth = "SFC", !.sc = e.sc, !.chain = e.chain] \in Packet
      BY <2>1, <2>2 DEF Packet
    <2> QED
      BY <2>3 DEF Encapsulated, e
  <1> QED
    BY <1>1, <1>2

LEMMA ServedType ==
  ASSUME NEW s \in Switch, NEW p \in Packet
  PROVE  Served(s, p) \in Packet
  <1>1. CASE ~Serves(s, p)
    BY <1>1 DEF Served
  <1>2. CASE Serves(s, p)
    <2>1. p.chain \in Ids /\ p.sc \in Byte
      BY DEF Packet
    <2>2. Tail(p.chain) \in Ids
      BY <1>2, <2>1 DEF Serves, Ids
    <2>3. (p.sc + Word8 - 1) % Word8 \in Byte
      BY <2>1, ByteArithmetic
    <2> QED
      BY <1>2, <2>2, <2>3 DEF Served, Packet
  <1> QED
    BY <1>1, <1>2

LEMMA DecapsulatedType ==
  ASSUME NEW p \in Packet
  PROVE  Decapsulated(p) \in Packet
  <1>1. "IPV4" \in EthTypes /\ << >> \in Ids
    BY DEF EthTypes, Ids
  <1> QED
    BY <1>1 DEF Decapsulated, Packet

LEMMA AfterSfcType ==
  ASSUME NEW s \in Switch, NEW in, NEW p \in Packet
  PROVE  AfterSfc(s, in, p) \in Packet
  BY EncapsulatedType, ServedType, DecapsulatedType DEF AfterSfc

LEMMA SetDstAddrType ==
  ASSUME NEW s \in Switch, NEW p \in Packet
  PROVE  SetDstAddr(s, p) \in Packet
  <1> DEFINE d == DscpAtIngress(p)
             a == Config[s]["multicast_dst_addr"][d]
  <1>1. CASE d \notin DOMAIN Config[s]["multicast_dst_addr"]
    BY <1>1 DEF SetDstAddr, Hit
  <1>2. CASE d \in DOMAIN Config[s]["multicast_dst_addr"]
    <2>1. a.mac \in Addr /\ a.ip \in Addr
      BY <1>2, TablesTyped
    <2> HIDE DEF a
    <2>2. [p EXCEPT !.dmac = a.mac, !.dst = a.ip] \in Packet
      BY <2>1 DEF Packet
    <2> QED
      BY <2>2 DEF SetDstAddr, a
  <1> QED
    BY <1>1, <1>2

LEMMA TtlDecrement ==
  ASSUME NEW p \in Packet, ~TtlExpired(p), HasIPv4(p)
  PROVE  p.ttl - 1 \in Byte
  <1>1. p.ttl \in Byte
    BY DEF Packet
  <1>2. p.ttl # 0
    BY DEF TtlExpired
  <1> QED
    BY <1>1, <1>2, ByteArithmetic

LEMMA Ipv4ForwardType ==
  ASSUME NEW s \in Switch, NEW p \in Packet, ~TtlExpired(p), L3Hit(s, p)
  PROVE  Ipv4Forward(s, p) \in Packet
  <1>1. NextMac(s, p) \in Addr
    BY TablesTyped DEF NextMac, L3Hit, L3Keys, Hit
  <1>2. p.ttl - 1 \in Byte
    BY TtlDecrement DEF L3Hit
  <1>3. 1 \in Ecn
    BY DEF Ecn
  <1> QED
    BY <1>1, <1>2, <1>3 DEF Ipv4Forward, Packet

LEMMA IntSourceType ==
  ASSUME NEW s \in Switch, NEW in, NEW p \in Packet
  PROVE  IntSource(s, in, p) \in Packet
  <1>1. p.len \in Length
    BY DEF Packet
  <1>2. (p.len + INT_TOTAL_HEADER_SIZE) % Word16 \in Length
    BY <1>1, LengthGrows DEF INT_TOTAL_HEADER_SIZE
  <1>3. DSCP_INT \in Dscp /\ INT_HEADER_WORD \in Byte /\ << >> \in Ids
    BY DEF Dscp, DSCP_INT, INT_HEADER_WORD, Byte, Word8, Ids
  <1> QED
    BY <1>2, <1>3 DEF IntSource, Packet

LEMMA IntTransitType ==
  ASSUME NEW s \in Switch, NEW p \in Packet
  PROVE  IntTransit(s, p) \in Packet
  <1> DEFINE id == SwitchId(s)
             new == IF Hit(s, "tb_int_inst_0003", 15) THEN <<id>> ELSE << >>
  <1>1. CASE ~Hit(s, "tb_int_insert", 0)
    BY <1>1 DEF IntTransit
  <1>2. CASE Hit(s, "tb_int_insert", 0)
    <2>1. TransitWords(s) \in Nat
      BY TablesTyped DEF TransitWords, Words, Hit
    <2>2. id \in Nat
      BY TablesTyped DEF SwitchId, Hit
    <2>3. p.len \in Length /\ p.shimLen \in Byte /\ p.stack \in Ids
      BY DEF Packet
    <2>4. new \o p.stack \in Ids
      BY <2>2, <2>3 DEF Ids
    <2>5. (p.len + 4 * TransitWords(s)) % Word16 \in Length
      BY <2>1, <2>3, LengthGrows
    <2>6. (p.shimLen + TransitWords(s)) % Word8 \in Byte
      BY <2>1, <2>3, ByteArithmetic
    <2> HIDE DEF new
    <2>7. [p EXCEPT !.stack = new \o @, 
                    !.len = (@ + 4 * TransitWords(s)) % Word16,
                    !.shimLen = (@ + TransitWords(s)) % Word8] \in Packet
      BY <2>4, <2>5, <2>6 DEF Packet
    <2> QED
      BY <2>7 DEF IntTransit, new
  <1> QED
    BY <1>1, <1>2

LEMMA IntSinkType ==
  ASSUME NEW p \in Packet
  PROVE  IntSink(p) \in Packet
  <1>1. p.len \in Length /\ p.shimLen \in Byte
    BY DEF Packet
  <1>2. (p.len + Word16 - (p.shimLen * 4 + ShimBytes)) % Word16 \in Length
    BY <1>1, LengthShrinks
  <1>3. 0 \in Dscp /\ 0 \in Byte /\ << >> \in Ids
    BY DEF Dscp, Byte, Word8, Ids
  <1> QED
    BY <1>2, <1>3 DEF IntSink, Packet
-----------------------------------------------------------------------------
(* What the stages keep. *)

(* The two packets carry the same function chain, or none, and the same TTL *)
SameChain(p, q) == p.eth = q.eth /\ p.sc = q.sc /\ p.chain = q.chain

LEMMA AfterSfcKeeps ==
  ASSUME NEW s \in Switch, NEW in, NEW p \in Packet
  PROVE  /\ AfterSfc(s, in, p).ttl = p.ttl
         /\ HasIPv4(AfterSfc(s, in, p)) <=> HasIPv4(p)
  <1> DEFINE e == Encapsulated(s, in, p)
             v == Served(s, e)
  <1>1. e \in Packet /\ e.ttl = p.ttl /\ (HasIPv4(e) <=> HasIPv4(p))
    BY EncapsulatedType DEF Encapsulated, Packet, HasIPv4, IsSource, HasL4
  <1> HIDE DEF e
  <1>2. v \in Packet /\ v.ttl = e.ttl /\ v.eth = e.eth
    BY <1>1, ServedType DEF Served, Packet
  <1> HIDE DEF v
  <1>3. /\ Decapsulated(v).ttl = v.ttl
        /\ HasIPv4(Decapsulated(v)) <=> HasIPv4(v)
    BY <1>2 DEF Decapsulated, Packet, HasIPv4
  <1> QED
    BY <1>1, <1>2, <1>3 DEF AfterSfc, HasIPv4, e, v

LEMMA SetDstAddrKeeps ==
  ASSUME NEW s \in Switch, NEW p \in Packet
  PROVE  SameChain(SetDstAddr(s, p), p) /\ SetDstAddr(s, p).ttl = p.ttl
  BY DEF SetDstAddr, SameChain, Packet

LEMMA Ipv4ForwardKeeps ==
  ASSUME NEW s \in Switch, NEW p \in Packet
  PROVE  /\ SameChain(Ipv4Forward(s, p), p)
         /\ Ipv4Forward(s, p).ttl = p.ttl - 1
  BY DEF Ipv4Forward, SameChain, Packet

LEMMA IntKeeps ==
  ASSUME NEW s \in Switch, NEW in, NEW p \in Packet
  PROVE  /\ SameChain(IntSource(s, in, p), p) /\ IntSource(s, in, p).ttl = p.ttl
         /\ SameChain(IntTransit(s, p), p) /\ IntTransit(s, p).ttl = p.ttl
         /\ SameChain(IntSink(p), p) /\ IntSink(p).ttl = p.ttl
  <1>1. SameChain(IntSource(s, in, p), p) /\ IntSource(s, in, p).ttl = p.ttl
    BY DEF IntSource, SameChain, Packet
  <1>2. SameChain(IntTransit(s, p), p) /\ IntTransit(s, p).ttl = p.ttl
    BY DEF IntTransit, SameChain, Packet
  <1>3. SameChain(IntSink(p), p) /\ IntSink(p).ttl = p.ttl
    BY DEF IntSink, SameChain, Packet
  <1> QED
    BY <1>1, <1>2, <1>3

-----------------------------------------------------------------------------
(* What leaves ingress and egress. *)

(* r carries packet p with the same chain.  It costs one TTL to be sent to *)
(* a port and none to be sent to a multicast group.                        *)
Carries(r, p) ==
  /\ r.p \in Packet /\ SameChain(r.p, p)
  /\ r.mcast_grp # 0 => r.p.ttl = p.ttl
  /\ r.mcast_grp = 0 => r.egress_spec = DropPort \/ r.p.ttl = p.ttl - 1

LEMMA L3ForwardCarries ==
  ASSUME NEW s \in Switch, NEW p \in Packet, ~TtlExpired(p)
  PROVE  Carries(L3Forward(s, p), p)
  <1> DEFINE q == SetDstAddr(s, p)
             u == Ipv4Forward(s, q)
             g == Config[s]["multicast"][q.dmac]
             m == [is_multicaster |-> Multicaster(s)]
  <1>1. q \in Packet /\ SameChain(q, p) /\ q.ttl = p.ttl /\ ~TtlExpired(q)
    BY SetDstAddrType, SetDstAddrKeeps DEF SameChain, TtlExpired, HasIPv4
  <1>2. CASE L3Hit(s, q)
    <2>1. u \in Packet /\ SameChain(u, p) /\ u.ttl = p.ttl - 1
      BY <1>1, <1>2, Ipv4ForwardType, Ipv4ForwardKeeps DEF SameChain
    <2>2. L3Forward(s, p) = [Routed(u, UnicastPort(s, u)) EXCEPT
                               !.is_multicaster = Multicaster(s)]
      BY <1>2 DEF L3Forward
    <2> QED
      BY <2>1, <2>2 DEF Carries, Routed
  <1>3. CASE ~L3Hit(s, q) /\ Hit(s, "multicast", q.dmac)
    <2>1. g \in Nat \ {0}
      BY <1>3, TablesTyped DEF Hit
    <2>2. L3Forward(s, p) = [SetMulticastGroup(s, q) EXCEPT
                               !.is_multicaster = Multicaster(s)]
      BY <1>3 DEF L3Forward
    <2> QED
      BY <1>1, <2>1, <2>2 DEF Carries, SetMulticastGroup, Routed
  <1>4. CASE ~L3Hit(s, q) /\ ~Hit(s, "multicast", q.dmac)
    <2>1. L3Forward(s, p) = [Routed(q, DropPort) EXCEPT
                               !.is_multicaster = Multicaster(s)]
      BY <1>4 DEF L3Forward
    <2> QED
      BY <1>1, <2>1 DEF Carries, Routed
  <1> QED
    BY <1>2, <1>3, <1>4

LEMMA SfcForwardCarries ==
  ASSUME NEW s \in Switch, NEW p \in Packet, ~TtlExpired(p), p.eth = "SFC"
  PROVE  Carries(SfcForward(s, p), p)
  <1>1. p.ttl - 1 \in Byte
    BY TtlDecrement DEF HasIPv4
  <1>2. [p EXCEPT !.ttl = @ - 1] \in Packet
    BY <1>1 DEF Packet
  <1>3. /\ SameChain([p EXCEPT !.ttl = @ - 1], p)
        /\ [p EXCEPT !.ttl = @ - 1].ttl = p.ttl - 1
    BY DEF SameChain, Packet
  <1> QED
    BY <1>2, <1>3 DEF Carries, SfcForward, Routed

LEMMA IngressCarries ==
  ASSUME NEW s \in Switch, NEW in, NEW p \in Packet, ~TtlExpired(p)
  PROVE  Carries(Ingress(s, in, p), AfterSfc(s, in, p))
  <1> DEFINE q == AfterSfc(s, in, p)
             r == Forwarded(s, in, p)
  <1>1. q \in Packet /\ ~TtlExpired(q)
    BY AfterSfcType, AfterSfcKeeps DEF TtlExpired
  <1>2. Carries(r, q) /\ r \in [p: Packet, egress_spec: {r.egress_spec},
                               mcast_grp: {r.mcast_grp},
                               is_multicaster: {r.is_multicaster},
                               is_multicast: {r.is_multicast},
                               became_multicast: {r.became_multicast}]
    <2>1. CASE SfcForwards(s, q)
      BY <1>1, <2>1, SfcForwardCarries
         DEF SfcForwards, Forwarded, SfcForward, Routed, Carries
    <2>2. CASE ~SfcForwards(s, q)
      <3>1. r = L3Forward(s, q)
        BY <2>2 DEF Forwarded
      <3>2. Carries(r, q)
        BY <1>1, <3>1, L3ForwardCarries
      <3> QED
        BY <3>1, <3>2 DEF L3Forward, Routed, SetMulticastGroup, Carries
    <2> QED
      BY <2>1, <2>2
  <1> HIDE DEF q, r
  <1>3. /\ Ingress(s, in, p).p = IntSource(s, in, r.p)
        /\ Ingress(s, in, p).mcast_grp = r.mcast_grp
        /\ Ingress(s, in, p).egress_spec = r.egress_spec
    BY <1>2 DEF Ingress, r
  <1>4. /\ IntSource(s, in, r.p) \in Packet
        /\ SameChain(IntSource(s, in, r.p), r.p)
        /\ IntSource(s, in, r.p).ttl = r.p.ttl
    BY <1>2, IntSourceType, IntKeeps DEF Carries
  <1> QED
    BY <1>2, <1>3, <1>4 DEF Carries, SameChain, q

LEMMA EgressKeeps ==
  ASSUME NEW s \in Switch, NEW r, r.p \in Packet
  PROVE  /\ Egress(s, r) \in Packet
         /\ SameChain(Egress(s, r), r.p) /\ Egress(s, r).ttl = r.p.ttl
  <1> DEFINE q == IntTransit(s, r.p)
  <1>1. q \in Packet /\ SameChain(q, r.p) /\ q.ttl = r.p.ttl
    BY IntTransitType, IntKeeps
  <1>2. IntSink(q) \in Packet /\ SameChain(IntSink(q), q) /\ IntSink(q).ttl = q.ttl
    BY <1>1, IntSinkType, IntKeeps
  <1> QED
    BY <1>1, <1>2 DEF Egress, SameChain

(***************************************************************************)
(* The copies a switch sends out have the chain that the SFC stage left on *)
(* the packet, and have paid one TTL unless they went to a group.          *)
(***************************************************************************)
THEOREM CopyKeepsChain ==
  ASSUME NEW s \in Switch, NEW in, NEW p \in Packet, ~TtlExpired(p),
         NEW c \in Copies(s, in, p)
  PROVE  /\ c.p \in Packet
         /\ SameChain(c.p, AfterSfc(s, in, p))
         /\ c.p.ttl = IF Ingress(s, in, p).mcast_grp = 0 THEN p.ttl - 1
                                                         ELSE p.ttl
  <1> DEFINE r == Ingress(s, in, p)
  <1>1. Carries(r, AfterSfc(s, in, p)) /\ AfterSfc(s, in, p).ttl = p.ttl
    BY IngressCarries, AfterSfcKeeps
  <1>2. PICK o \in CopyPorts(s, r) : c = [port |-> o, p |-> Egress(s, r)]
    BY DEF Copies
  <1>3. r.mcast_grp = 0 => r.egress_spec # DropPort
    BY <1>2 DEF CopyPorts
  <1>4. /\ Egress(s, r) \in Packet
        /\ SameChain(Egress(s, r), r.p) /\ Egress(s, r).ttl = r.p.ttl
    BY <1>1, EgressKeeps DEF Carries
  <1>5. c.p = Egress(s, r)
    BY <1>2
  <1> QED
    BY <1>1, <1>3, <1>4, <1>5 DEF Carries, SameChain

-----------------------------------------------------------------------------
(* What hosts and the controller put on the network is well typed. *)

LEMMA FromHostType ==
  ASSUME NEW o \in Sent
  PROVE  /\ FromHost(o) \in Packet /\ NoHistory(o) \in Histories
         /\ FromHost(o).eth # "SFC"
  <1>1. /\ o.eth \in EthTypes \ {"SFC"} /\ o.dmac \in Addr /\ o.src \in Addr
        /\ o.dst \in Addr /\ o.l4 \in L4Kind /\ o.dscp \in Dscp
        /\ o.len \in Length
    <2>1. CASE o \in Offered
      BY <2>1, NetworkTyped
    <2>2. CASE o \in {ProbeFrom(x) : x \in Probes}
      <3>1. 0 \in Dscp /\ 0 \in Length /\ "LLDP" \in EthTypes
        BY Word16Size DEF Dscp, Length, Word8, ShimBytes, EthTypes
      <3> QED
        BY <2>2, <3>1, NetworkTyped, ConstantsTyped DEF ProbeFrom
    <2> QED
      BY <2>1, <2>2 DEF Sent
  <1>2. /\ 0 \in Ecn /\ 0 \in Byte /\ 0 \in Dscp /\ << >> \in Ids
        /\ << >> \in Path /\ MaxTtl \in Byte
    BY ConstantsTyped DEF Ecn, Byte, Word8, Dscp, Ids, Path
  <1> QED
    BY <1>1, <1>2 DEF FromHost, Packet, NoHistory, Histories

LEMMA HistoryType ==
  ASSUME TypeOK, NEW f \in frames
  PROVE  History(f) \in Histories
  <1>1. f.at \in Switch /\ f.h \in Histories /\ f.p \in Packet
    BY DEF TypeOK
  <1>2. /\ f.h.trace \in Path /\ f.h.served \in Path /\ f.h.policy \in Ids
        /\ f.h.todo0 \in Byte /\ f.h.hops \in Nat
    BY <1>1 DEF Histories
  <1>3. Encap(f).chain \in Ids /\ Encap(f).sc \in Byte
    BY <1>1, EncapsulatedType DEF Encap, Packet
  <1>4. Append(f.h.trace, f.at) \in Path /\ Append(f.h.served, f.at) \in Path
    BY <1>1, <1>2 DEF Path
  <1> DEFINE h == f.h
             sv == IF ServedHere(f) THEN Append(h.served, f.at) ELSE h.served
             po == IF NewPolicy(f) THEN Encap(f).chain ELSE h.policy
             to == IF NewPolicy(f) THEN Encap(f).sc ELSE h.todo0
             ho == IF Ingress(f.at, f.in, f.p).mcast_grp = 0 THEN h.hops + 1
                                                            ELSE h.hops
  <1>5. sv \in Path /\ po \in Ids /\ to \in Byte /\ ho \in Nat
    BY <1>2, <1>3, <1>4
  <1>6. History(f) = [h EXCEPT !.trace = Append(h.trace, f.at), !.served = sv,
                               !.policy = po, !.todo0 = to, !.hops = ho]
    BY <1>1 DEF History, Histories
  <1> HIDE DEF h, sv, po, to, ho
  <1>7. h \in Histories /\ Append(h.trace, f.at) \in Path
    BY <1>1, <1>4 DEF h
  <1> QED
    BY <1>5, <1>6, <1>7 DEF Histories

LEMMA OnLinkType ==
  ASSUME NEW s, NEW o, NEW p \in Packet, NEW h \in Histories
  PROVE  OnLink(s, o, p, h) \subseteq
           [at: Switch, in: Port, p: Packet, h: Histories]
  BY NetworkTyped DEF OnLink

LEMMA ReportType ==
  ASSUME TypeOK, NEW f \in frames
  PROVE  Report(f) \in [node: Nat, seq: SeqNo, src: Addr, dst: Addr,
                        dscp: Dscp, stack: Ids, h: Histories]
  <1> DEFINE c == IntTransit(f.at, f.p)
  <1>1. f.at \in Switch /\ f.p \in Packet /\ seqNo[f.at] \in SeqNo
    BY DEF TypeOK
  <1>2. c \in Packet
    BY <1>1, IntTransitType
  <1> HIDE DEF c
  <1>4. SwitchId(f.at) \in Nat
    BY <1>1, TablesTyped DEF SwitchId, Hit
  <1>3. c.src \in Addr /\ c.dst \in Addr /\ c.odscp \in Dscp /\ c.stack \in Ids
    BY <1>2 DEF Packet
  <1> QED
    BY <1>1, <1>3, <1>4, HistoryType DEF Report, c

-----------------------------------------------------------------------------
(* Every state is well typed: no field overflows and no entry is read from *)
(* a table that does not have it.                                          *)

THEOREM TypeCorrect == Spec => []TypeOK
<1>1. Init => TypeOK
  <2>1. SeqMod \in Nat \ {0}
    BY DEF SeqMod, Word16, Word8
  <2>2. 0 \in SeqNo
    BY <2>1 DEF SeqNo
  <2> QED
    BY <2>2 DEF Init, TypeOK
<1>2. TypeOK /\ [Next]_vars => TypeOK'
  <2> SUFFICES ASSUME TypeOK, [Next]_vars
               PROVE  TypeOK'
    OBVIOUS
  <2>1. ASSUME NEW o \in Offered, HostSend(o)
        PROVE  TypeOK'
    <3>1. FromHost(o) \in Packet /\ NoHistory(o) \in Histories /\ o \in Sent
      BY FromHostType DEF Sent
    <3>2. frames' \subseteq [at: Switch, in: Port, p: Packet, h: Histories]
      BY <2>1, <3>1, NetworkTyped DEF HostSend, TypeOK
    <3> QED
      BY <2>1, <3>1, <3>2 DEF HostSend, TypeOK
  <2>2. ASSUME NEW x \in Probes, PacketOut(x)
        PROVE  TypeOK'
    <3> DEFINE o == ProbeFrom(x)
               p == [FromHost(o) EXCEPT !.ttl = 0]
    <3>1. o \in Sent
      BY DEF Sent
    <3>2. 0 \in Byte
      BY DEF Byte, Word8
    <3>3. FromHost(o) \in Packet /\ NoHistory(o) \in Histories
      BY <3>1, FromHostType
    <3>4. p \in Packet
      BY <3>2, <3>3 DEF Packet
    <3>5. frames' \subseteq [at: Switch, in: Port, p: Packet, h: Histories]
      <4>1. frames' = frames \cup OnLink(x[1], x[2], p, NoHistory(o))
        BY <2>2 DEF PacketOut
      <4> QED
        BY <4>1, <3>3, <3>4, OnLinkType DEF TypeOK
    <3> QED
      BY <2>2, <3>1, <3>5 DEF PacketOut, TypeOK
  <2>3. ASSUME NEW f \in frames, Lose(f)
        PROVE  TypeOK'
    BY <2>3 DEF Lose, TypeOK
  <2>4. ASSUME NEW f \in frames, PuntToCpu(f)
        PROVE  TypeOK'
    BY <2>4 DEF PuntToCpu, PacketIn, Unforwarded, TypeOK
  <2>5. ASSUME NEW f \in frames, DropAtIngress(f)
        PROVE  TypeOK'
    BY <2>5 DEF DropAtIngress, Unforwarded, TypeOK
  <2>6. ASSUME NEW f \in frames, Forward(f)
        PROVE  TypeOK'
    <3>1. f.at \in Switch /\ f.p \in Packet /\ ~TtlExpired(f.p)
      BY <2>6 DEF Forward, TypeOK
    <3>2. \A c \in Outputs(f) : c.p \in Packet
      BY <3>1, CopyKeepsChain DEF Outputs
    <3>3. History(f) \in Histories
      BY HistoryType
    <3>4. frames' \subseteq [at: Switch, in: Port, p: Packet, h: Histories]
      <4>1. \A c \in Outputs(f) :
              OnLink(f.at, c.port, c.p, History(f)) \subseteq
                [at: Switch, in: Port, p: Packet, h: Histories]
        BY <3>2, <3>3, OnLinkType
      <4>2. frames' = (frames \ {f}) \cup
               UNION {OnLink(f.at, c.port, c.p, History(f)) : c \in Outputs(f)}
        BY <2>6 DEF Forward
      <4> QED
        BY <4>1, <4>2 DEF TypeOK
    <3>5. delivered' \subseteq [host: Host, p: Packet, h: Histories]
      <4>1. delivered' = delivered \cup
              {[host |-> HostAt[<<f.at, c.port>>], p |-> c.p, h |-> History(f)] :
                 c \in {d \in Outputs(f) : <<f.at, d.port>> \in DOMAIN HostAt}}
        BY <2>6 DEF Forward
      <4>2. \A c \in Outputs(f) : <<f.at, c.port>> \in DOMAIN HostAt =>
              [host |-> HostAt[<<f.at, c.port>>], p |-> c.p, h |-> History(f)]
                \in [host: Host, p: Packet, h: Histories]
        BY <3>2, <3>3, NetworkTyped
      <4> QED
        BY <4>1, <4>2 DEF TypeOK
    <3>6. /\ reports' \subseteq [node: Nat, seq: SeqNo, src: Addr, dst: Addr,
                                 dscp: Dscp, stack: Ids, h: Histories]
          /\ seqNo' \in [Switch -> SeqNo]
      <4>1. NextSeq(seqNo[f.at]) \in SeqNo
        <5>1. SeqMod \in Nat \ {0}
          BY DEF SeqMod, Word16, Word8
        <5>2. seqNo[f.at] + 1 \in Nat
          BY <3>1, <5>1 DEF TypeOK, SeqNo
        <5> QED
          BY <5>1, <5>2, Wraps DEF SeqNo, NextSeq
      <4> QED
        BY <2>6, <3>1, <4>1, ReportType DEF Forward, TypeOK
    <3> QED
      BY <2>6, <3>4, <3>5, <3>6 DEF Forward, TypeOK
  <2>7. ASSUME NEW e \in pending, Install(e)
        PROVE  TypeOK'
    BY <2>7 DEF Install, TypeOK
  <2>8. CASE UNCHANGED vars
    BY <2>8 DEF vars, TypeOK
  <2> QED
    BY <2>1, <2>2, <2>3, <2>4, <2>5, <2>6, <2>7, <2>8 DEF Next, Process
<1> QED
  BY <1>1, <1>2, PTL DEF Spec
-----------------------------------------------------------------------------
(***************************************************************************)
(* The SFC stage of one switch, step by step.  Agrees is what              *)
(* ChainMatchesHistory says, except that sc may have reached zero under an *)
(* SFC header that is about to be removed.                                 *)
(***************************************************************************)
Agrees(p, served, policy, todo0) ==
  /\ Len(served) <= Len(policy)
  /\ \A i \in DOMAIN served :
       policy[i] \in DOMAIN Config[served[i]]["sf_processing"]
  /\ p.eth = "SFC" =>
       /\ p.sc = todo0 - Len(served)
       /\ Len(p.chain) = Len(policy) - Len(served)
       /\ \A i \in DOMAIN p.chain : p.chain[i] = policy[i + Len(served)]
  /\ p.eth # "SFC" => Len(served) = todo0

(* sf_processing pops the function it does from chain and count alike. *)
LEMMA ServingAgrees ==
  ASSUME NEW s \in Switch, NEW p \in Packet, NEW served \in Path,
         NEW policy \in Ids, NEW todo0 \in Byte,
         Agrees(p, served, policy, todo0), p.eth = "SFC" => p.sc # 0,
         Serves(s, p)
  PROVE  Agrees(Served(s, p), Append(served, s), policy, todo0)
  <1> DEFINE v == Served(s, p)
             n == Len(served)
             now == Append(served, s)
  <1>1. /\ p.chain \in Seq(Nat) /\ p.chain # << >> /\ p.eth = "SFC"
        /\ p.sc \in Byte /\ p.sc # 0
    BY DEF Serves, Packet, Ids
  <1>2. v.eth = "SFC" /\ v.sc = p.sc - 1 /\ v.chain = Tail(p.chain)
    <2>1. v = [p EXCEPT !.sc = (@ + Word8 - 1) % Word8, !.chain = Tail(@)]
      BY DEF Served
    <2>2. (p.sc + Word8 - 1) % Word8 = p.sc - 1
      BY <1>1, ByteArithmetic
    <2> QED
      BY <1>1, <2>1, <2>2 DEF Packet
  <1>3. /\ now \in Seq(Switch) /\ Len(now) = n + 1 /\ n \in Nat
        /\ served \in Seq(Switch)
    BY DEF Path
  <1>4. /\ p.sc = todo0 - n /\ Len(p.chain) = Len(policy) - n
        /\ \A i \in DOMAIN p.chain : p.chain[i] = policy[i + n]
    BY <1>1 DEF Agrees
  <1>5. Len(p.chain) \in Nat \ {0} /\ Len(policy) \in Nat /\ policy \in Seq(Nat)
    BY <1>1 DEF Ids
  <1>6. /\ Tail(p.chain) \in Seq(Nat) /\ Len(Tail(p.chain)) = Len(p.chain) - 1
        /\ \A i \in 1 .. Len(p.chain) - 1 : Tail(p.chain)[i] = p.chain[i + 1]
    BY <1>1
  <1>7. Len(now) <= Len(policy)
    BY <1>3, <1>4, <1>5
  <1>8. ASSUME NEW i \in DOMAIN now
        PROVE  policy[i] \in DOMAIN Config[now[i]]["sf_processing"]
    <2>1. CASE i = n + 1
      <3>1. now[i] = s
        BY <1>3, <2>1
      <3>2. p.chain[1] = policy[1 + n]
        BY <1>1, <1>4, <1>5
      <3>3. p.chain[1] \in DOMAIN Config[s]["sf_processing"]
        BY DEF Serves, Hit
      <3> QED
        BY <1>3, <2>1, <3>1, <3>2, <3>3
    <2>2. CASE i # n + 1
      <3>1. i \in DOMAIN served /\ now[i] = served[i]
        BY <1>3, <2>2
      <3> QED
        BY <3>1 DEF Agrees
    <2> QED
      BY <2>1, <2>2
  <1>9. v.sc = todo0 - Len(now) /\ Len(v.chain) = Len(policy) - Len(now)
    <2>1. todo0 \in Nat /\ p.sc \in Nat
      BY <1>1, BytesAreNumbers
    <2> QED
      BY <2>1, <1>2, <1>3, <1>4, <1>5, <1>6
  <1>10. ASSUME NEW i \in DOMAIN v.chain
         PROVE  v.chain[i] = policy[i + Len(now)]
    <2>1. i \in 1 .. Len(p.chain) - 1
      BY <1>2, <1>6
    <2>2. i + 1 \in DOMAIN p.chain /\ v.chain[i] = p.chain[i + 1]
      BY <1>1, <1>2, <1>5, <1>6, <2>1
    <2>3. (i + 1) + n = i + Len(now)
      BY <1>3, <1>5, <2>1
    <2> QED
      BY <1>4, <2>2, <2>3
  <1> QED
    BY <1>2, <1>7, <1>8, <1>9, <1>10 DEF Agrees

(* The header goes when the count is zero, and then nothing is left to do. *)
LEMMA DecapsulatingAgrees ==
  ASSUME NEW p \in Packet, NEW served \in Path, NEW policy \in Ids,
         NEW todo0 \in Byte, Agrees(p, served, policy, todo0)
  PROVE  /\ Agrees(Decapsulated(p), served, policy, todo0)
         /\ Decapsulated(p).eth = "SFC" => Decapsulated(p).sc # 0
  <1>1. CASE p.eth = "SFC" /\ p.sc = 0
    <2>1. Decapsulated(p).eth = "IPV4"
      BY <1>1 DEF Decapsulated, Packet
    <2>2. Len(served) = todo0
      <3>1. Len(served) \in Nat /\ todo0 \in Nat
        BY DEF Path, Byte, Word8
      <3> QED
        BY <1>1, <3>1 DEF Agrees
    <2> QED
      BY <2>1, <2>2 DEF Agrees
  <1>2. CASE ~(p.eth = "SFC" /\ p.sc = 0)
    BY <1>2 DEF Decapsulated
  <1> QED
    BY <1>1, <1>2

(* A classifier imposes a chain on a packet that has none and has not been *)
(* served: it came straight from a host.                                   *)
LEMMA EncapsulatingAgrees ==
  ASSUME TypeOK, ChainConsistent, NEW f \in frames, DscpAtIngress(f.p) # 0
  PROVE  LET policy == IF NewPolicy(f) THEN Encap(f).chain ELSE f.h.policy
             todo0  == IF NewPolicy(f) THEN Encap(f).sc ELSE f.h.todo0
         IN  /\ Agrees(Encap(f), f.h.served, policy, todo0)
             /\ policy \in Ids /\ todo0 \in Byte
             /\ Encap(f).eth = "SFC" => Encap(f).sc # 0
  <1> DEFINE e == Encap(f)
             d == f.p.dscp
             c == Config[f.at]["sfc_classifier"][d]
  <1>1. /\ f.at \in Switch /\ f.p \in Packet /\ e \in Packet
        /\ f.h.policy \in Ids /\ f.h.todo0 \in Byte
    BY EncapsulatedType DEF TypeOK, Encap, Histories
  <1>2. ChainMatchesHistory(f.p, f.h)
    BY DEF ChainConsistent
  <1>3. CASE NewPolicy(f)
    <2>1. /\ f.p.eth # "SFC" /\ IsSource(f.at, f.in, f.p)
          /\ Hit(f.at, "sfc_classifier", d)
      BY <1>3 DEF NewPolicy, Encap, Encapsulated
    <2>2. c.sc \in Byte \ {0} /\ c.chain \in Ids
      BY <1>1, <2>1, ClassifierEntryType DEF Hit
    <2>3. e = [f.p EXCEPT !.eth = "SFC", !.sc = c.sc, !.chain = c.chain]
      BY <2>1 DEF Encap, Encapsulated
    <2> HIDE DEF c
    <2>4. e.eth = "SFC" /\ e.sc = c.sc /\ e.chain = c.chain
      BY <1>1, <2>3 DEF Packet
    <2>5. f.h.served = << >>
      <3>1. f.in \in DOMAIN Config[f.at]["tb_set_source"]
        BY <2>1 DEF IsSource, Hit
      <3>2. f.h = NoHistory(f.h.o)
        BY <3>1 DEF ChainConsistent
      <3>3. \A o : NoHistory(o).served = << >>
        BY DEF NoHistory
      <3> QED
        BY <3>2, <3>3
    <2>6. Agrees(e, f.h.served, e.chain, e.sc)
      <3>1. Len(f.h.served) = 0 /\ DOMAIN f.h.served = {}
        BY <2>5
      <3>2. e.chain \in Seq(Nat) /\ e.sc \in Nat
        BY <2>2, <2>4, BytesAreNumbers DEF Ids
      <3>3. /\ 0 <= Len(e.chain) /\ e.sc = e.sc - 0
            /\ Len(e.chain) = Len(e.chain) - 0
            /\ \A i \in DOMAIN e.chain : e.chain[i] = e.chain[i + 0]
        BY <3>2
      <3> QED
        BY <2>4, <3>1, <3>3 DEF Agrees
    <2> QED
      BY <1>3, <2>2, <2>4, <2>6
  <1>4. CASE ~NewPolicy(f)
    <2>1. e = f.p
      <3>1. CASE e.eth # "SFC"
        BY <3>1, <1>1 DEF Encap, Encapsulated, Packet
      <3>2. CASE f.p.eth = "SFC"
        BY <3>2 DEF Encap, Encapsulated
      <3> QED
        BY <1>4, <3>1, <3>2 DEF NewPolicy
    <2>2. Agrees(e, f.h.served, f.h.policy, f.h.todo0)
      BY <1>2, <2>1 DEF Agrees, ChainMatchesHistory
    <2>3. e.eth = "SFC" => e.sc # 0
      BY <1>1, <1>2, <2>1 DEF ChainMatchesHistory
    <2> QED
      BY <1>1, <1>4, <2>2, <2>3
  <1> QED
    BY <1>3, <1>4

(* What one switch does to header and history keeps them consistent. *)
LEMMA SfcStageConsistent ==
  ASSUME TypeOK, ChainConsistent, NEW f \in frames
  PROVE  ChainMatchesHistory(AfterSfc(f.at, f.in, f.p), History(f))
  <1> DEFINE e  == Encap(f)
             v  == Served(f.at, e)
             po == IF NewPolicy(f) THEN Encap(f).chain ELSE f.h.policy
             to == IF NewPolicy(f) THEN Encap(f).sc ELSE f.h.todo0
             sv == IF ServedHere(f) THEN Append(f.h.served, f.at)
                                    ELSE f.h.served
  <1>1. /\ f.at \in Switch /\ f.p \in Packet /\ e \in Packet
        /\ f.h \in Histories /\ f.h.served \in Path
        /\ f.h.policy \in Ids /\ f.h.todo0 \in Byte
    BY EncapsulatedType DEF TypeOK, Encap, Histories
  <1>2. /\ History(f).served = sv /\ History(f).policy = po
        /\ History(f).todo0 = to
    BY <1>1 DEF History, Histories
  <1>3. CASE DscpAtIngress(f.p) = 0
    <2>1. AfterSfc(f.at, f.in, f.p) = f.p
      BY <1>3 DEF AfterSfc
    <2>2. sv = f.h.served /\ po = f.h.policy /\ to = f.h.todo0
      BY <1>3 DEF ServedHere, NewPolicy
    <2>3. ChainMatchesHistory(f.p, f.h)
      BY DEF ChainConsistent
    <2> HIDE DEF sv, po, to
    <2> QED
      BY <1>2, <2>1, <2>2, <2>3 DEF ChainMatchesHistory
  <1>4. CASE DscpAtIngress(f.p) # 0
    <2>1. /\ Agrees(e, f.h.served, po, to) /\ po \in Ids /\ to \in Byte
          /\ e.eth = "SFC" => e.sc # 0
      BY <1>4, EncapsulatingAgrees
    <2> HIDE DEF po, to
    <2>2. v \in Packet /\ sv \in Path /\ Agrees(v, sv, po, to)
      <3>1. CASE Serves(f.at, e)
        <4>1. sv = Append(f.h.served, f.at) /\ sv \in Path
          BY <1>1, <1>4, <3>1 DEF ServedHere, Path
        <4>2. Agrees(v, Append(f.h.served, f.at), po, to)
          BY <1>1, <2>1, <3>1, ServingAgrees
        <4> QED
          BY <1>1, <4>1, <4>2, ServedType
      <3>2. CASE ~Serves(f.at, e)
        BY <1>1, <2>1, <3>2 DEF ServedHere, Served
      <3> QED
        BY <3>1, <3>2
    <2> HIDE DEF sv, v
    <2>3. /\ Agrees(Decapsulated(v), sv, po, to)
          /\ Decapsulated(v).eth = "SFC" => Decapsulated(v).sc # 0
      BY <2>1, <2>2, DecapsulatingAgrees
    <2>4. Decapsulated(v).sc \in Nat
      BY <2>2, DecapsulatedType, BytesAreNumbers DEF Packet
    <2>5. AfterSfc(f.at, f.in, f.p) = Decapsulated(v)
      BY <1>4 DEF AfterSfc, Encap, e, v
    <2> QED
      BY <1>2, <2>3, <2>4, <2>5 DEF Agrees, ChainMatchesHistory
  <1> QED
    BY <1>3, <1>4

(***************************************************************************)
(* In every reachable state the SFC header of a packet and the functions   *)
(* it has been through agree (sf_processing, sfc_encapsulation,            *)
(* sfc_decapsulation), whichever entries are installed.                    *)
(***************************************************************************)
THEOREM ChainsConsistent == Spec => []ChainConsistent
<1>1. Init => ChainConsistent
  BY DEF Init, ChainConsistent
<1>2. TypeOK /\ ChainConsistent /\ [Next]_vars => ChainConsistent'
  <2> SUFFICES ASSUME TypeOK, ChainConsistent, [Next]_vars
               PROVE  ChainConsistent'
    OBVIOUS
  <2> DEFINE Source(f) == f.in \in DOMAIN Config[f.at]["tb_set_source"]
             Good(f) == /\ ChainMatchesHistory(f.p, f.h)
                        /\ Source(f) => f.h = NoHistory(f.h.o)
  <2>0. ASSUME frames' \subseteq frames, delivered' = delivered
        PROVE  ChainConsistent'
    BY <2>0 DEF ChainConsistent, ChainMatchesHistory
  <2>1. ASSUME NEW o \in Sent, NEW p, p.eth # "SFC", NEW at, NEW in
        PROVE  Good([at |-> at, in |-> in, p |-> p, h |-> NoHistory(o)])
    BY <2>1 DEF ChainMatchesHistory, NoHistory
  <2>2. ASSUME NEW o \in Offered, HostSend(o)
        PROVE  ChainConsistent'
    <3>1. FromHost(o).eth # "SFC" /\ o \in Sent
      BY FromHostType DEF Sent
    <3>2. \A f \in frames' \ frames : Good(f)
      BY <2>1, <2>2, <3>1 DEF HostSend
    <3> QED
      BY <2>2, <3>2 DEF HostSend, ChainConsistent, ChainMatchesHistory
  <2>3. ASSUME NEW x \in Probes, PacketOut(x)
        PROVE  ChainConsistent'
    <3> DEFINE o == ProbeFrom(x)
               p == [FromHost(o) EXCEPT !.ttl = 0]
    <3>1. p.eth # "SFC" /\ o \in Sent
      BY FromHostType DEF Sent, FromHost
    <3>2. frames' = frames \cup OnLink(x[1], x[2], p, NoHistory(o))
      BY <2>3 DEF PacketOut
    <3> HIDE DEF p, o
    <3>3. \A f \in OnLink(x[1], x[2], p, NoHistory(o)) : Good(f)
      BY <2>1, <3>1 DEF OnLink
    <3> QED
      BY <2>3, <3>2, <3>3 DEF PacketOut, ChainConsistent, ChainMatchesHistory
  <2>4. ASSUME NEW f \in frames, Lose(f)
        PROVE  ChainConsistent'
    BY <2>0, <2>4 DEF Lose
  <2>5. ASSUME NEW f \in frames, PuntToCpu(f) \/ DropAtIngress(f)
        PROVE  ChainConsistent'
    BY <2>0, <2>5 DEF PuntToCpu, DropAtIngress, Unforwarded
  <2>6. ASSUME NEW f \in frames, Forward(f)
        PROVE  ChainConsistent'
    <3>1. f.at \in Switch /\ f.p \in Packet /\ ~TtlExpired(f.p)
      BY <2>6 DEF Forward, TypeOK
    <3>2. ASSUME NEW c \in Outputs(f)
          PROVE  ChainMatchesHistory(c.p, History(f))
      <4> DEFINE q == AfterSfc(f.at, f.in, f.p)
                 h == History(f)
      <4>1. SameChain(c.p, q)
        BY <3>1, CopyKeepsChain DEF Outputs
      <4>2. ChainMatchesHistory(q, h)
        BY SfcStageConsistent
      <4> HIDE DEF q, h
      <4>3. ChainMatchesHistory(c.p, h)
        BY <4>1, <4>2 DEF SameChain, ChainMatchesHistory
      <4> QED
        BY <4>3 DEF h
    <3>3. ASSUME NEW c \in Outputs(f),
                 NEW g \in OnLink(f.at, c.port, c.p, History(f))
          PROVE  Good(g)
      <4>1. g.p = c.p /\ g.h = History(f)
        BY DEF OnLink
      <4>2. ~Source(g)
        BY SourcesAtEdge DEF OnLink
      <4> QED
        BY <3>2, <4>1, <4>2
    <3>4. \A g \in frames' : Good(g)
      <4>1. frames' = (frames \ {f}) \cup
               UNION {OnLink(f.at, c.port, c.p, History(f)) : c \in Outputs(f)}
        BY <2>6 DEF Forward
      <4>2. \A g \in frames : Good(g)
        BY DEF ChainConsistent
      <4> HIDE DEF Good
      <4> QED
        BY <3>3, <4>1, <4>2
    <3>5. \A d \in delivered' : ChainMatchesHistory(d.p, d.h)
      <4>1. delivered' = delivered \cup
              {[host |-> HostAt[<<f.at, c.port>>], p |-> c.p, h |-> History(f)] :
                 c \in {d \in Outputs(f) : <<f.at, d.port>> \in DOMAIN HostAt}}
        BY <2>6 DEF Forward
      <4>2. \A d \in delivered : ChainMatchesHistory(d.p, d.h)
        BY DEF ChainConsistent
      <4>3. ASSUME NEW d \in delivered' \ delivered
            PROVE  \E c \in Outputs(f) : d.p = c.p /\ d.h = History(f)
        <5>1. PICK c \in Outputs(f) :
                d = [host |-> HostAt[<<f.at, c.port>>], p |-> c.p,
                     h |-> History(f)]
          BY <4>1, <4>3
        <5> QED
          BY <5>1
      <4> QED
        BY <3>2, <4>2, <4>3
    <3> QED
      BY <3>4, <3>5 DEF ChainConsistent, ChainMatchesHistory
  <2>7. ASSUME NEW e \in pending, Install(e)
        PROVE  ChainConsistent'
    BY <2>0, <2>7 DEF Install
  <2>8. CASE UNCHANGED vars
    BY <2>0, <2>8 DEF vars
  <2> QED
    BY <2>2, <2>3, <2>4, <2>5, <2>6, <2>7, <2>8 DEF Next, Process
<1> QED
  BY <1>1, <1>2, TypeCorrect, PTL DEF Spec
-----------------------------------------------------------------------------
(***************************************************************************)
(* In every reachable state an IP packet has paid one TTL for each switch  *)
(* that sent it to one port, over the SFC overlay (sfc_forward) as over IP *)
(* (ipv4_forward), and no subtraction went below zero.                     *)
(***************************************************************************)
THEOREM TtlIsAccounted == Spec => []TtlAccounts
<1> DEFINE Paid(p, h) == HasIPv4(p) => p.ttl + h.hops = MaxTtl
<1>1. Init => TtlAccounts
  BY DEF Init, TtlAccounts
<1>2. TypeOK /\ TtlAccounts /\ [Next]_vars => TtlAccounts'
  <2> SUFFICES ASSUME TypeOK, TtlAccounts, [Next]_vars
               PROVE  TtlAccounts'
    OBVIOUS
  <2>0. ASSUME frames' \subseteq frames, delivered' = delivered
        PROVE  TtlAccounts'
    BY <2>0 DEF TtlAccounts
  <2>1. ASSUME NEW o \in Offered, HostSend(o)
        PROVE  TtlAccounts'
    <3>1. Paid(FromHost(o), NoHistory(o))
      BY ConstantsTyped, BytesAreNumbers DEF FromHost, NoHistory
    <3>2. \A f \in frames' \ frames : f.p = FromHost(o) /\ f.h = NoHistory(o)
      BY <2>1 DEF HostSend
    <3> QED
      BY <2>1, <3>1, <3>2 DEF HostSend, TtlAccounts
  <2>2. ASSUME NEW x \in Probes, PacketOut(x)
        PROVE  TtlAccounts'
    <3> DEFINE o == ProbeFrom(x)
               p == [FromHost(o) EXCEPT !.ttl = 0]
    <3>1. ~HasIPv4(p)
      BY DEF HasIPv4, FromHost, ProbeFrom
    <3>2. frames' = frames \cup OnLink(x[1], x[2], p, NoHistory(o))
      BY <2>2 DEF PacketOut
    <3> HIDE DEF p, o
    <3>3. \A f \in OnLink(x[1], x[2], p, NoHistory(o)) : ~HasIPv4(f.p)
      BY <3>1 DEF OnLink
    <3> QED
      BY <2>2, <3>2, <3>3 DEF PacketOut, TtlAccounts
  <2>3. ASSUME NEW f \in frames, Lose(f)
        PROVE  TtlAccounts'
    BY <2>0, <2>3 DEF Lose
  <2>4. ASSUME NEW f \in frames, PuntToCpu(f) \/ DropAtIngress(f)
        PROVE  TtlAccounts'
    BY <2>0, <2>4 DEF PuntToCpu, DropAtIngress, Unforwarded
  <2>5. ASSUME NEW f \in frames, Forward(f)
        PROVE  TtlAccounts'
    <3>1. /\ f.at \in Switch /\ f.p \in Packet /\ ~TtlExpired(f.p)
          /\ f.h \in Histories /\ Paid(f.p, f.h)
      BY <2>5 DEF Forward, TypeOK, TtlAccounts
    <3>2. ASSUME NEW c \in Outputs(f)
          PROVE  Paid(c.p, History(f))
      <4> DEFINE q == AfterSfc(f.at, f.in, f.p)
                 n == IF Ingress(f.at, f.in, f.p).mcast_grp = 0 THEN 1 ELSE 0
      <4>1. f.p.ttl \in Nat /\ f.h.hops \in Nat /\ MaxTtl \in Nat
        BY <3>1, ConstantsTyped, BytesAreNumbers DEF Packet, Histories
      <4>2. HasIPv4(c.p) <=> HasIPv4(f.p)
        BY <3>1, CopyKeepsChain, AfterSfcKeeps DEF Outputs, SameChain, HasIPv4
      <4>3. c.p.ttl = f.p.ttl - n
        BY <3>1, <4>1, CopyKeepsChain DEF Outputs
      <4>4. History(f).hops = f.h.hops + n
        BY <3>1, <4>1 DEF History, Histories
      <4> HIDE DEF n
      <4>5. n \in Nat
        BY DEF n
      <4> QED
        BY <3>1, <4>1, <4>2, <4>3, <4>4, <4>5
    <3>3. \A g \in frames' : Paid(g.p, g.h)
      <4>1. frames' = (frames \ {f}) \cup
               UNION {OnLink(f.at, c.port, c.p, History(f)) : c \in Outputs(f)}
        BY <2>5 DEF Forward
      <4>2. \A c \in Outputs(f) :
              \A g \in OnLink(f.at, c.port, c.p, History(f)) :
                g.p = c.p /\ g.h = History(f)
        BY DEF OnLink
      <4>3. \A g \in frames : Paid(g.p, g.h)
        BY DEF TtlAccounts
      <4> QED
        BY <3>2, <4>1, <4>2, <4>3
    <3>4. \A d \in delivered' : Paid(d.p, d.h)
      <4>1. delivered' = delivered \cup
              {[host |-> HostAt[<<f.at, c.port>>], p |-> c.p, h |-> History(f)] :
                 c \in {d \in Outputs(f) : <<f.at, d.port>> \in DOMAIN HostAt}}
        BY <2>5 DEF Forward
      <4>2. \A d \in delivered : Paid(d.p, d.h)
        BY DEF TtlAccounts
      <4>3. ASSUME NEW d \in delivered' \ delivered
            PROVE  \E c \in Outputs(f) : d.p = c.p /\ d.h = History(f)
        <5>1. PICK c \in Outputs(f) :
                d = [host |-> HostAt[<<f.at, c.port>>], p |-> c.p,
                     h |-> History(f)]
          BY <4>1, <4>3
        <5> QED
          BY <5>1
      <4> QED
        BY <3>2, <4>2, <4>3
    <3> QED
      BY <3>3, <3>4 DEF TtlAccounts
  <2>6. ASSUME NEW e \in pending, Install(e)
        PROVE  TtlAccounts'
    BY <2>0, <2>6 DEF Install
  <2>7. CASE UNCHANGED vars
    BY <2>0, <2>7 DEF vars
  <2> QED
    BY <2>1, <2>2, <2>3, <2>4, <2>5, <2>6, <2>7 DEF Next, Process
<1> QED
  BY <1>1, <1>2, TypeCorrect, PTL DEF Spec

-----------------------------------------------------------------------------
(* What forwarding does to the destination of a packet and to a discovery  *)
(* probe: firewalls hold, and the links that ONOS infers exist.            *)

(* Addresses that multicasters write into packets. *)
GroupAddrs ==
  UNION {{Config[s]["multicast_dst_addr"][d].ip : d \in DOMAIN Config[s]["multicast_dst_addr"]}
           : s \in Switch}
SameDst(q, p) == q.dst = p.dst \/ q.dst \in GroupAddrs

-----------------------------------------------------------------------------
(* Only a multicaster changes the destination; SFC and INT do not.         *)

LEMMA AfterSfcKeepsDst ==
  ASSUME NEW s \in Switch, NEW in, NEW p \in Packet
  PROVE  AfterSfc(s, in, p).dst = p.dst
  <1> DEFINE e == Encapsulated(s, in, p)
             v == Served(s, e)
  <1>1. e \in Packet /\ e.dst = p.dst
    BY EncapsulatedType DEF Encapsulated, Packet
  <1> HIDE DEF e
  <1>2. v \in Packet /\ v.dst = e.dst
    BY <1>1, ServedType DEF Served, Packet
  <1> HIDE DEF v
  <1>3. Decapsulated(v).dst = v.dst
    BY <1>2 DEF Decapsulated, Packet
  <1> QED
    BY <1>1, <1>2, <1>3 DEF AfterSfc, e, v

LEMMA ForwardedDst ==
  ASSUME NEW s \in Switch, NEW in, NEW p \in Packet, ~TtlExpired(p)
  PROVE  LET r == Forwarded(s, in, p)
         IN  /\ r.p \in Packet /\ SameDst(r.p, p)
             /\ Ingress(s, in, p).p = IntSource(s, in, r.p)
  <1> DEFINE q == AfterSfc(s, in, p)
             m == SetDstAddr(s, q)
  <1>1. q \in Packet /\ q.dst = p.dst
    BY AfterSfcType, AfterSfcKeepsDst
  <1> HIDE DEF q
  <1>2. m \in Packet /\ (m.dst = q.dst \/ m.dst \in GroupAddrs)
    <2>1. m \in Packet
      BY <1>1, SetDstAddrType
    <2>2. CASE Multicaster(s) /\ Hit(s, "multicast_dst_addr", DscpAtIngress(q))
      <3>1. DscpAtIngress(q) \in DOMAIN Config[s]["multicast_dst_addr"]
        BY <2>2 DEF Hit
      <3>2. m.dst = Config[s]["multicast_dst_addr"][DscpAtIngress(q)].ip
        BY <1>1, <2>2 DEF SetDstAddr, Packet
      <3> QED
        BY <2>1, <3>1, <3>2 DEF GroupAddrs
    <2>3. CASE ~(Multicaster(s) /\ Hit(s, "multicast_dst_addr", DscpAtIngress(q)))
      BY <2>1, <2>3 DEF SetDstAddr
    <2> QED
      BY <2>2, <2>3
  <1> HIDE DEF m
  <1>3. ~TtlExpired(q) /\ (q.eth = "SFC" => Carries(SfcForward(s, q), q))
        /\ Carries(L3Forward(s, q), q)
    <2>1. ~TtlExpired(q)
      BY AfterSfcKeeps DEF TtlExpired, q
    <2> QED
      BY <1>1, <2>1, SfcForwardCarries, L3ForwardCarries
  <1>4. CASE SfcForwards(s, q)
    <2>1. /\ Forwarded(s, in, p) = SfcForward(s, q)
          /\ SfcForward(s, q).p.dst = q.dst /\ q.eth = "SFC"
      BY <1>1, <1>4 DEF SfcForwards, Forwarded, SfcForward, Routed, Packet, q
    <2>2. Ingress(s, in, p).p = IntSource(s, in, SfcForward(s, q).p)
      BY <2>1 DEF Ingress, SfcForward, Routed
    <2> QED
      BY <1>1, <1>3, <2>1, <2>2 DEF Carries, SameDst
  <1>5. CASE ~SfcForwards(s, q)
    <2>1. Forwarded(s, in, p) = L3Forward(s, q)
      BY <1>5 DEF Forwarded, q
    <2>2. Ipv4Forward(s, m).dst = m.dst
      BY <1>2 DEF Ipv4Forward, Packet
    <2>3. L3Forward(s, q).p.dst = m.dst
      BY <2>2 DEF L3Forward, m, Routed, SetMulticastGroup
    <2>4. Ingress(s, in, p).p = IntSource(s, in, L3Forward(s, q).p)
      BY <2>1 DEF Ingress, L3Forward, Routed, SetMulticastGroup
    <2> QED
      BY <1>1, <1>2, <1>3, <2>1, <2>3, <2>4 DEF Carries, SameDst
  <1> QED
    BY <1>4, <1>5

(* Every copy that leaves a switch has the destination it came with, or    *)
(* that of a group.                                                        *)
LEMMA CopyKeepsDst ==
  ASSUME NEW s \in Switch, NEW in, NEW p \in Packet, ~TtlExpired(p),
         NEW c \in Copies(s, in, p)
  PROVE  SameDst(c.p, p)
  <1> DEFINE r == Forwarded(s, in, p)
             i == Ingress(s, in, p)
  <1>1. r.p \in Packet /\ i.p = IntSource(s, in, r.p) /\ SameDst(r.p, p)
    BY ForwardedDst
  <1>2. i.p.dst = r.p.dst
    BY <1>1 DEF IntSource, Packet
  <1>3. c.p = Egress(s, i)
    BY DEF Copies
  <1> HIDE DEF i, r
  <1>6. i.p \in Packet
    BY <1>1, IntSourceType
  <1>4. IntTransit(s, i.p) \in Packet /\ IntTransit(s, i.p).dst = i.p.dst
    BY <1>6, IntTransitType DEF IntTransit, Packet
  <1>5. Egress(s, i).dst = i.p.dst
    BY <1>4 DEF Egress, IntSink, Packet
  <1> QED
    BY <1>1, <1>2, <1>3, <1>5 DEF SameDst
-----------------------------------------------------------------------------
(* A firewall that has let a packet pass had its first destination on its  *)
(* list: the present one is that or a group's, which no firewall lists.    *)

Passed(h) ==
  \A i \in DOMAIN h.trace :
    1 \in DOMAIN Config[h.trace[i]]["is_it_firewall"] =>
      h.o.dst \in DOMAIN Config[h.trace[i]]["l3_fireWall"]
DstKnown == \A f \in frames : f.p.dst = f.h.o.dst \/ f.p.dst \in GroupAddrs
FirewallInv == FirewallHolds /\ DstKnown

LEMMA FirewallsListNoGroup ==
  ASSUME NEW s \in Switch, 1 \in DOMAIN Config[s]["is_it_firewall"]
  PROVE  /\ <<s, "is_it_firewall", 1>> \notin Push
         /\ GroupAddrs \cap DOMAIN Config[s]["l3_fireWall"] = {}
  BY FirewallsListHosts DEF GroupAddrs

LEMMA HistoryGrows ==
  ASSUME NEW f \in frames, TypeOK
  PROVE  /\ History(f).trace = Append(f.h.trace, f.at) /\ History(f).o = f.h.o
         /\ f.h.trace \in Seq(Switch)
  BY DEF History, TypeOK, Histories, Path

LEMMA FirewallLetsListedPass ==
  ASSUME TypeOK, FirewallInv, NEW f \in frames, ~Blocked(f.at, f.p)
  PROVE  Passed(History(f))
  <1> DEFINE s == f.at
  <1>1. s \in Switch /\ f.h.trace \in Seq(Switch) /\ Passed(f.h)
    BY HistoryGrows DEF TypeOK, FirewallInv, FirewallHolds, Passed
  <1>2. 1 \in DOMAIN Config[s]["is_it_firewall"] => f.h.o.dst \in DOMAIN Config[s]["l3_fireWall"]
    <2> HAVE 1 \in DOMAIN Config[s]["is_it_firewall"]
    <2>1. Hit(s, "is_it_firewall", 1)
      BY <1>1, FirewallsListNoGroup DEF TypeOK, Hit
    <2>2. f.p.dst \in DOMAIN Config[s]["l3_fireWall"]
      BY <2>1 DEF Blocked, Hit
    <2> QED
      BY <1>1, <2>2, FirewallsListNoGroup DEF FirewallInv, DstKnown
  <1>3. ASSUME NEW i \in DOMAIN History(f).trace
        PROVE  \/ i \in DOMAIN f.h.trace /\ History(f).trace[i] = f.h.trace[i]
               \/ History(f).trace[i] = s
    BY <1>1, HistoryGrows
  <1> QED
    BY <1>1, <1>2, <1>3, HistoryGrows DEF Passed

(***************************************************************************)
(* In every reachable state, with the entries of other tables installed in *)
(* any order, nothing that has passed a firewall was sent to a destination *)
(* that the firewall does not list (is_it_firewall, l3_fireWall).          *)
(***************************************************************************)
THEOREM FirewallsHold == Spec => []FirewallHolds
<1>1. Init => FirewallInv
  BY DEF Init, FirewallInv, FirewallHolds, DstKnown
<1>2. TypeOK /\ FirewallInv /\ [Next]_vars => FirewallInv'
  <2> SUFFICES ASSUME TypeOK, FirewallInv, [Next]_vars
               PROVE  FirewallInv'
    OBVIOUS
  <2>0. ASSUME frames' \subseteq frames, delivered' = delivered
        PROVE  FirewallInv'
    BY <2>0 DEF FirewallInv, FirewallHolds, DstKnown
  <2> DEFINE Good(g) == Passed(g.h) /\ (g.p.dst = g.h.o.dst \/ g.p.dst \in GroupAddrs)
  <2>1. ASSUME \A g \in frames' \ frames : Good(g),
               \A d \in delivered' \ delivered : Passed(d.h)
        PROVE  FirewallInv'
    <3>1. \A g \in frames' : Good(g)
      BY <2>1 DEF FirewallInv, FirewallHolds, DstKnown, Passed
    <3>2. \A d \in delivered' : Passed(d.h)
      BY <2>1 DEF FirewallInv, FirewallHolds, Passed
    <3> QED
      BY <3>1, <3>2 DEF FirewallInv, FirewallHolds, DstKnown, Passed
  <2>2. ASSUME NEW o \in Offered, HostSend(o)
        PROVE  FirewallInv'
    <3>1. \A g \in frames' \ frames : g.p = FromHost(o) /\ g.h = NoHistory(o)
      BY <2>2 DEF HostSend
    <3>2. FromHost(o).dst = NoHistory(o).o.dst /\ Passed(NoHistory(o))
      BY DEF FromHost, NoHistory, Passed
    <3>3. \A g \in frames' \ frames : Good(g)
      BY <3>1, <3>2
    <3> QED
      BY <2>1, <2>2, <3>3 DEF HostSend
  <2>3. ASSUME NEW x \in Probes, PacketOut(x)
        PROVE  FirewallInv'
    <3> DEFINE o == ProbeFrom(x)
               p == [FromHost(o) EXCEPT !.ttl = 0]
    <3>1. p.dst = NoHistory(o).o.dst /\ Passed(NoHistory(o))
      BY DEF FromHost, NoHistory, Passed
    <3>2. frames' = frames \cup OnLink(x[1], x[2], p, NoHistory(o)) /\ delivered' = delivered
      BY <2>3 DEF PacketOut
    <3> HIDE DEF p, o
    <3>3. \A g \in frames' \ frames : Good(g)
      BY <3>1, <3>2 DEF OnLink
    <3> QED
      BY <2>1, <3>2, <3>3
  <2>4. ASSUME NEW f \in frames, Lose(f) \/ PuntToCpu(f) \/ DropAtIngress(f)
        PROVE  FirewallInv'
    BY <2>0, <2>4 DEF Lose, PuntToCpu, DropAtIngress, Unforwarded
  <2>5. ASSUME NEW f \in frames, Forward(f)
        PROVE  FirewallInv'
    <3>1. /\ f.at \in Switch /\ f.p \in Packet /\ ~TtlExpired(f.p) /\ ~Blocked(f.at, f.p)
          /\ History(f).o = f.h.o
      BY <2>5, HistoryGrows DEF Forward, TypeOK
    <3>2. Passed(History(f))
      BY <3>1, FirewallLetsListedPass
    <3>3. \A c \in Outputs(f) : c.p.dst = f.h.o.dst \/ c.p.dst \in GroupAddrs
      BY <3>1, CopyKeepsDst DEF Outputs, SameDst, FirewallInv, DstKnown
    <3>4. ASSUME NEW g \in frames' \ frames
          PROVE  Good(g)
      <4>1. PICK c \in Outputs(f) : g \in OnLink(f.at, c.port, c.p, History(f))
        BY <2>5 DEF Forward
      <4>2. g.p = c.p /\ g.h = History(f)
        BY <4>1 DEF OnLink
      <4>3. c.p.dst = f.h.o.dst \/ c.p.dst \in GroupAddrs
        BY <3>3, <4>1
      <4>4. Passed(g.h) /\ g.h.o = f.h.o
        BY <3>1, <3>2, <4>2
      <4> QED
        BY <4>2, <4>3, <4>4
    <3>5. ASSUME NEW d \in delivered' \ delivered
          PROVE  d.h = History(f)
      <4>1. PICK c \in Outputs(f) :
              d = [host |-> HostAt[<<f.at, c.port>>], p |-> c.p, h |-> History(f)]
        BY <2>5 DEF Forward
      <4> QED
        BY <4>1
    <3> QED
      BY <2>1, <3>2, <3>4, <3>5
  <2>6. ASSUME NEW e \in pending, Install(e)
        PROVE  FirewallInv'
    BY <2>0, <2>6 DEF Install
  <2>7. CASE UNCHANGED vars
    BY <2>0, <2>7 DEF vars
  <2> QED
    BY <2>2, <2>3, <2>4, <2>5, <2>6, <2>7 DEF Next, Process
<1>3. FirewallInv => FirewallHolds
  BY DEF FirewallInv
<1> QED
  BY <1>1, <1>2, <1>3, TypeCorrect, PTL DEF Spec
-----------------------------------------------------------------------------
(* A discovery probe is punted or dropped by the switch it comes to first: *)
(* nothing forwards one, whether the ACL has its entry or not.             *)

IsProbe(p) ==
  p.eth = "LLDP" /\ p.dmac = "onos" /\ p.dscp = 0 /\ ~p.int
AtItsLink(f) ==
  f.h.o.eth = "LLDP" => /\ IsProbe(f.p)
                        /\ f.h.o.lldp \in DOMAIN Link /\ Link[f.h.o.lldp] = <<f.at, f.in>>
ProbesAtLinks == \A f \in frames : AtItsLink(f)
DiscoveryInv == LinksInferredExist /\ ProbesAtLinks

LEMMA ProbesAreNotForwarded ==
  ASSUME NEW s \in Switch, NEW in, NEW p \in Packet, IsProbe(p)
  PROVE  Copies(s, in, p) = {}
  <1>1. DscpAtIngress(p) = 0 /\ AfterSfc(s, in, p) = p
    BY DEF IsProbe, DscpAtIngress, AfterSfc
  <1>2. SetDstAddr(s, p) = p
    BY <1>1, ProbesStayPut DEF SetDstAddr, Hit
  <1>3. ~L3Hit(s, p) /\ ~Hit(s, "multicast", p.dmac)
    BY ProbesStayPut DEF IsProbe, L3Hit, HasIPv4, Hit
  <1>4. Forwarded(s, in, p) = [Routed(p, DropPort) EXCEPT !.is_multicaster = Multicaster(s)]
    BY <1>1, <1>2, <1>3 DEF Forwarded, SfcForwards, L3Forward
  <1>5. Ingress(s, in, p).mcast_grp = 0 /\ Ingress(s, in, p).egress_spec = DropPort
    BY <1>4 DEF Ingress, Routed
  <1>6. CopyPorts(s, Ingress(s, in, p)) = {}
    BY <1>5 DEF CopyPorts
  <1> QED
    BY <1>6 DEF Copies

(***************************************************************************)
(* In every reachable state a packet-in of a probe names the port at the   *)
(* other end of the link it was sent out to: the links ONOS infers from    *)
(* probes (clone_to_cpu, PACKET_IN) exist, also while entries are on their *)
(* way.                                                                    *)
(***************************************************************************)
THEOREM InferredLinksExist == Spec => []LinksInferredExist
<1>1. Init => DiscoveryInv
  BY DEF Init, DiscoveryInv, LinksInferredExist, ProbesAtLinks
<1>2. TypeOK /\ DiscoveryInv /\ [Next]_vars => DiscoveryInv'
  <2> SUFFICES ASSUME TypeOK, DiscoveryInv, [Next]_vars
               PROVE  DiscoveryInv'
    OBVIOUS
  <2>0. ASSUME \A f \in frames' \ frames : AtItsLink(f), punted' = punted
        PROVE  DiscoveryInv'
    BY <2>0 DEF DiscoveryInv, ProbesAtLinks, LinksInferredExist, AtItsLink
  <2>1. ASSUME NEW o \in Offered, HostSend(o)
        PROVE  DiscoveryInv'
    <3>1. \A f \in frames' \ frames : f.h.o = o
      BY <2>1 DEF HostSend, NoHistory
    <3> QED
      BY <2>0, <2>1, <3>1, ProbesStayPut DEF HostSend, AtItsLink
  <2>2. ASSUME NEW x \in Probes, PacketOut(x)
        PROVE  DiscoveryInv'
    <3> DEFINE o == ProbeFrom(x)
               p == [FromHost(o) EXCEPT !.ttl = 0]
    <3>1. IsProbe(p) /\ NoHistory(o).o.lldp = x
      BY DEF IsProbe, FromHost, ProbeFrom, NoHistory
    <3>2. frames' = frames \cup OnLink(x[1], x[2], p, NoHistory(o)) /\ punted' = punted
      BY <2>2 DEF PacketOut
    <3> HIDE DEF p, o
    <3>3. ASSUME NEW f \in frames' \ frames
          PROVE  AtItsLink(f)
      <4>1. /\ <<x[1], x[2]>> \in DOMAIN Link
            /\ f.p = p /\ f.h = NoHistory(o)
            /\ <<f.at, f.in>> = <<Link[<<x[1], x[2]>>][1], Link[<<x[1], x[2]>>][2]>>
        BY <3>2 DEF OnLink
      <4>2. x = <<x[1], x[2]>> /\ Link[x] = <<f.at, f.in>>
        BY <4>1, ProbesStayPut, NetworkTyped
      <4> QED
        BY <3>1, <4>1, <4>2 DEF AtItsLink
    <3> QED
      BY <2>0, <3>2, <3>3
  <2>3. ASSUME NEW f \in frames, Lose(f) \/ DropAtIngress(f)
        PROVE  DiscoveryInv'
    BY <2>0, <2>3 DEF Lose, DropAtIngress, Unforwarded
  <2>4. ASSUME NEW f \in frames, PuntToCpu(f)
        PROVE  DiscoveryInv'
    <3>1. AtItsLink(f) /\ frames' \subseteq frames
      BY <2>4 DEF DiscoveryInv, ProbesAtLinks, PuntToCpu, Unforwarded
    <3>2. punted' \subseteq punted \cup {PacketIn(f)}
      BY <2>4 DEF PuntToCpu
    <3>3. PacketIn(f).h = f.h /\ PacketIn(f).at = f.at /\ PacketIn(f).in = f.in
      BY DEF PacketIn
    <3>4. LinksInferredExist'
      BY <3>1, <3>2, <3>3 DEF LinksInferredExist, AtItsLink, DiscoveryInv
    <3> QED
      BY <3>1, <3>4 DEF DiscoveryInv, ProbesAtLinks, AtItsLink
  <2>5. ASSUME NEW f \in frames, Forward(f)
        PROVE  DiscoveryInv'
    <3>1. f.at \in Switch /\ f.p \in Packet /\ AtItsLink(f) /\ History(f).o = f.h.o
      BY HistoryGrows DEF TypeOK, DiscoveryInv, ProbesAtLinks
    <3>2. f.h.o.eth = "LLDP" => Outputs(f) = {}
      BY <3>1, ProbesAreNotForwarded DEF AtItsLink, Outputs
    <3>3. ASSUME NEW g \in frames' \ frames
          PROVE  AtItsLink(g)
      <4>1. PICK c \in Outputs(f) : g \in OnLink(f.at, c.port, c.p, History(f))
        BY <2>5 DEF Forward
      <4>2. g.h = History(f)
        BY <4>1 DEF OnLink
      <4> QED
        BY <3>1, <3>2, <4>1, <4>2 DEF AtItsLink
    <3> QED
      BY <2>0, <2>5, <3>3 DEF Forward
  <2>6. ASSUME NEW e \in pending, Install(e)
        PROVE  DiscoveryInv'
    BY <2>0, <2>6 DEF Install
  <2>7. CASE UNCHANGED vars
    BY <2>0, <2>7 DEF vars
  <2> QED
    BY <2>1, <2>2, <2>3, <2>4, <2>5, <2>6, <2>7 DEF Next, Process
<1>3. DiscoveryInv => LinksInferredExist
  BY DEF DiscoveryInv
<1> QED
  BY <1>1, <1>2, <1>3, TypeCorrect, PTL DEF Spec
=============================================================================
