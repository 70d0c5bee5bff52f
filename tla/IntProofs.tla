------------------------------ MODULE IntProofs ------------------------------
(***************************************************************************)
(* In-band telemetry, for every network that follows DeploymentRules: what *)
(* INT adds to a packet can be taken off again, the stack of a packet is   *)
(* its path, and reports are numbered.  Where a theorem needs a table to   *)
(* be complete before the first packet it says so; the entries of all      *)
(* others may arrive in any order.                                         *)
(***************************************************************************)
EXTENDS DeploymentRules, SfcNetworkProofs, FiniteSetTheorems

-----------------------------------------------------------------------------
(* A step adds a frame in one of three ways, and reports or delivers only  *)
(* by forwarding.                                                          *)

IsSent(g, o) ==
  /\ o \in Offered /\ o \notin sent /\ sent' = sent \cup {o}
  /\ g.p = FromHost(o) /\ g.h = NoHistory(o)
  /\ <<g.at, g.in>> \in DOMAIN HostAt /\ HostAt[<<g.at, g.in>>] = o.host
IsProbed(g, x) ==
  /\ x \in Probes
  /\ g.p = [FromHost(ProbeFrom(x)) EXCEPT !.ttl = 0]
  /\ g.h = NoHistory(ProbeFrom(x))
IsPassedOn(g, f, c) ==
  /\ f \in frames /\ Forward(f) /\ c \in Outputs(f)
  /\ <<f.at, c.port>> \in DOMAIN Link
  /\ <<g.at, g.in>> = Link[<<f.at, c.port>>]
  /\ g.p = c.p /\ g.h = History(f)
IsDelivered(d, f, c) ==
  /\ f \in frames /\ Forward(f) /\ c \in Outputs(f)
  /\ <<f.at, c.port>> \in DOMAIN HostAt
  /\ d.host = HostAt[<<f.at, c.port>>] /\ d.p = c.p /\ d.h = History(f)

LEMMA NewFrames ==
  ASSUME [Next]_vars, NEW g \in frames' \ frames
  PROVE  \/ \E o \in Offered : IsSent(g, o)
         \/ \E x \in Probes : IsProbed(g, x)
         \/ \E f \in frames : \E c \in Outputs(f) : IsPassedOn(g, f, c)
  <1>1. ASSUME NEW o \in Offered, HostSend(o)
        PROVE  IsSent(g, o)
    <2>1. PICK e \in DOMAIN HostAt :
            /\ HostAt[e] = o.host
            /\ g = [at |-> e[1], in |-> e[2], p |-> FromHost(o),
                    h |-> NoHistory(o)]
      BY <1>1 DEF HostSend
    <2>2. <<g.at, g.in>> = e
      BY <2>1, NetworkTyped
    <2> QED
      BY <1>1, <2>1, <2>2 DEF HostSend, IsSent
  <1>2. ASSUME NEW x \in Probes, PacketOut(x)
        PROVE  IsProbed(g, x)
    BY <1>2 DEF PacketOut, OnLink, IsProbed
  <1>3. ASSUME NEW f \in frames, Forward(f)
        PROVE  \E c \in Outputs(f) : IsPassedOn(g, f, c)
    <2>1. PICK c \in Outputs(f) : g \in OnLink(f.at, c.port, c.p, History(f))
      BY <1>3 DEF Forward
    <2>2. /\ <<f.at, c.port>> \in DOMAIN Link
          /\ g = [at |-> Link[<<f.at, c.port>>][1],
                  in |-> Link[<<f.at, c.port>>][2], p |-> c.p, h |-> History(f)]
      BY <2>1 DEF OnLink
    <2>3. <<g.at, g.in>> = Link[<<f.at, c.port>>]
      BY <2>2, NetworkTyped
    <2> QED
      BY <1>3, <2>2, <2>3 DEF IsPassedOn
  <1>4. ASSUME NEW f \in frames, Lose(f) \/ PuntToCpu(f) \/ DropAtIngress(f)
        PROVE  FALSE
    BY <1>4 DEF Lose, PuntToCpu, DropAtIngress, Unforwarded
  <1>5. ASSUME NEW e \in pending, Install(e)
        PROVE  FALSE
    BY <1>5 DEF Install
  <1>6. CASE UNCHANGED vars
    BY <1>6 DEF vars
  <1> QED
    BY <1>1, <1>2, <1>3, <1>4, <1>5, <1>6 DEF Next, Process

LEMMA NewDeliveries ==
  ASSUME [Next]_vars, NEW d \in delivered' \ delivered
  PROVE  \E f \in frames : \E c \in Outputs(f) : IsDelivered(d, f, c)
  <1>1. PICK f \in frames : Forward(f)
    BY DEF Next, HostSend, PacketOut, Lose, Process, PuntToCpu, DropAtIngress,
           Unforwarded, Install, vars
  <1>2. PICK c \in {e \in Outputs(f) : <<f.at, e.port>> \in DOMAIN HostAt} :
          d = [host |-> HostAt[<<f.at, c.port>>], p |-> c.p, h |-> History(f)]
    BY <1>1 DEF Forward
  <1> QED
    BY <1>1, <1>2 DEF IsDelivered

LEMMA NewReports ==
  ASSUME [Next]_vars
  PROVE  \/ UNCHANGED <<reports, seqNo>>
         \/ \E f \in frames :
              /\ Forward(f) /\ Reports(f.at, f.in, f.p)
              /\ reports' = reports \cup {Report(f)}
              /\ seqNo' = [seqNo EXCEPT ![f.at] = NextSeq(@)]
  BY DEF Next, HostSend, PacketOut, Lose, Process, PuntToCpu, DropAtIngress,
         Unforwarded, Install, vars, Forward

LEMMA Forwarding ==
  ASSUME TypeOK, NEW f \in frames, Forward(f)
  PROVE  /\ f.at \in Switch /\ f.p \in Packet /\ f.h \in Histories
         /\ ~TtlExpired(f.p) /\ Len(f.h.trace) < MaxTrace
         /\ History(f).o = f.h.o /\ History(f) \in Histories
         /\ History(f).trace = Append(f.h.trace, f.at)
         /\ Len(History(f).trace) = Len(f.h.trace) + 1
         /\ Len(f.h.trace) \in Nat
  <1>1. f.at \in Switch /\ f.p \in Packet /\ f.h \in Histories
    BY DEF TypeOK
  <1>2. f.h.trace \in Seq(Switch) /\ History(f).trace = Append(f.h.trace, f.at)
    BY HistoryGrows
  <1> QED
    BY <1>1, <1>2, HistoryGrows, HistoryType DEF Forward
-----------------------------------------------------------------------------
(* The telemetry header and what it hides.  What a switch adds to the      *)
(* length is what the shim says, so that a sink can take it off again.     *)

SameInt(q, p) ==
  /\ q.l4 = p.l4 /\ q.dscp = p.dscp /\ q.len = p.len /\ q.int = p.int
  /\ q.odscp = p.odscp /\ q.shimLen = p.shimLen /\ q.stack = p.stack

WordsPerHop == CHOOSE k \in Byte : HopWords(k)

(* p is the packet o after at most n switches. *)
IntAgrees(p, o, n) ==
  /\ p.l4 = o.l4
  /\ p.int => /\ p.odscp = o.dscp
              /\ p.shimLen <= INT_HEADER_WORD + n * WordsPerHop
              /\ p.len = (o.len + 4 * p.shimLen + ShimBytes) % Word16
  /\ ~p.int => p.dscp = o.dscp /\ p.len = o.len /\ p.stack = << >>

EthAgrees(p, o) ==
  /\ p.eth = "SFC" \/ p.int => o.eth = "IPV4"
  /\ p.int => o.l4 # NoL4
  /\ p.eth # "SFC" => p.eth = o.eth /\ p.chain = << >>

LEMMA HopWordsFit ==
  /\ WordsPerHop \in Byte
  /\ INT_HEADER_WORD + MaxTrace * WordsPerHop < Word8
  /\ \A s \in Switch : TransitWords(s) \in Nat /\ TransitWords(s) <= WordsPerHop
  <1>1. WordsPerHop \in Byte /\ HopWords(WordsPerHop)
    BY ShimFits DEF WordsPerHop
  <1>2. ASSUME NEW s \in Switch
        PROVE  TransitWords(s) \in Nat /\ TransitWords(s) <= WordsPerHop
    <2> DEFINE a == Config[s]["tb_int_inst_0003"]
               b == Config[s]["tb_int_inst_0407"]
               x == IF 15 \in DOMAIN a THEN a[15] ELSE 0
               y == IF 15 \in DOMAIN b THEN b[15] ELSE 0
               u == Words(s, "tb_int_inst_0003")
               v == Words(s, "tb_int_inst_0407")
    <2>1. x \in Nat /\ y \in Nat
      BY TablesTyped
    <2>2. (u = x \/ u = 0) /\ (v = y \/ v = 0)
      BY DEF Words, Hit
    <2>3. x + y <= WordsPerHop
      BY <1>1 DEF HopWords
    <2>4. WordsPerHop \in Nat
      BY <1>1, BytesAreNumbers
    <2>5. TransitWords(s) = u + v
      BY DEF TransitWords
    <2> HIDE DEF x, y, u, v
    <2> QED
      BY <2>1, <2>2, <2>3, <2>4, <2>5
  <1> QED
    BY <1>1, <1>2 DEF HopWords

LEMMA OneHopMore ==
  ASSUME NEW n \in Nat, NEW k \in Nat
  PROVE  /\ (n + 1) * k = n * k + k /\ n * k \in Nat
         /\ n < MaxTrace => n * k + k <= MaxTrace * k
  <1>1. (n + 1) * k = n * k + k /\ n * k \in Nat
    OBVIOUS
  <1>2. ASSUME n < MaxTrace
        PROVE  n * k + k <= MaxTrace * k
    <2> DEFINE j == MaxTrace - (n + 1)
    <2>1. MaxTrace \in Nat /\ j \in Nat /\ MaxTrace = (n + 1) + j
      BY <1>2, ShimFits
    <2> HIDE DEF j
    <2>2. ((n + 1) + j) * k = (n + 1) * k + j * k /\ j * k \in Nat
      BY <2>1
    <2> QED
      BY <1>1, <2>1, <2>2
  <1> QED
    BY <1>1, <1>2

LEMMA LengthsAreNumbers ==
  Length \subseteq Nat
  BY Word16Size DEF Length

LEMMA ModPlus ==
  ASSUME NEW a \in Nat, NEW b \in Nat
  PROVE  ((a % Word16) + b) % Word16 = (a + b) % Word16
  BY DEF Word16, Word8

LEMMA ModMinus ==
  ASSUME NEW a \in Length, NEW b \in Nat, b < Word16
  PROVE  (((a + b) % Word16) + Word16 - b) % Word16 = a
  <1>1. /\ Word16 = 65536 /\ a \in Nat /\ a < 65536 /\ b < 65536
    <2>1. Word16 = 65536
      BY DEF Word16, Word8
    <2>2. a \in Nat /\ a < Word16
      BY Word16Size DEF Length
    <2> QED
      BY <2>1, <2>2
  <1>2. CASE a + b < 65536
    <2>1. (a + b) % 65536 = a + b
      BY <1>1, <1>2
    <2>2. (a + 65536) % 65536 = a
      BY <1>1
    <2> QED
      BY <1>1, <2>1, <2>2
  <1>3. CASE a + b >= 65536
    <2>1. (a + b) % 65536 = a + b - 65536
      BY <1>1, <1>3
    <2>2. a % 65536 = a
      BY <1>1
    <2> QED
      BY <1>1, <2>1, <2>2
  <1> QED
    BY <1>1, <1>2, <1>3

LEMMA AfterSfcKeepsInt ==
  ASSUME NEW s \in Switch, NEW in, NEW p \in Packet
  PROVE  LET q == AfterSfc(s, in, p)
         IN  SameInt(q, p) /\ q.dmac = p.dmac /\ q.dst = p.dst /\ q.ecn = p.ecn
  <1> DEFINE e == Encapsulated(s, in, p)
             v == Served(s, e)
             Same(x, y) == /\ SameInt(x, y)
                           /\ x.dmac = y.dmac /\ x.dst = y.dst /\ x.ecn = y.ecn
  <1>1. e \in Packet /\ Same(e, p)
    BY EncapsulatedType DEF Encapsulated, Packet, SameInt
  <1> HIDE DEF e
  <1>2. v \in Packet /\ Same(v, e)
    BY <1>1, ServedType DEF Served, Packet, SameInt
  <1> HIDE DEF v
  <1>3. Same(Decapsulated(v), v)
    BY <1>2 DEF Decapsulated, Packet, SameInt
  <1>4. Same(p, p)
    BY DEF SameInt
  <1> QED
    BY <1>1, <1>2, <1>3, <1>4 DEF AfterSfc, SameInt, e, v

LEMMA L3ForwardKeepsInt ==
  ASSUME NEW s \in Switch, NEW p \in Packet
  PROVE  SameInt(L3Forward(s, p).p, p)
  <1> DEFINE q == SetDstAddr(s, p)
             u == Ipv4Forward(s, q)
  <1>1. q \in Packet /\ SameInt(q, p)
    BY SetDstAddrType DEF SetDstAddr, SameInt, Packet
  <1>2. SameInt(u, q)
    BY <1>1 DEF Ipv4Forward, SameInt, Packet
  <1>3. L3Forward(s, p).p \in {u, q}
    BY DEF L3Forward, Routed, SetMulticastGroup
  <1> QED
    BY <1>1, <1>2, <1>3 DEF SameInt

LEMMA ForwardedKeepsInt ==
  ASSUME NEW s \in Switch, NEW in, NEW p \in Packet
  PROVE  SameInt(Forwarded(s, in, p).p, p)
  <1> DEFINE q == AfterSfc(s, in, p)
  <1>1. q \in Packet /\ SameInt(q, p)
    BY AfterSfcType, AfterSfcKeepsInt
  <1>2. SameInt(SfcForward(s, q).p, q)
    BY <1>1 DEF SfcForward, Routed, SameInt, Packet
  <1>3. SameInt(L3Forward(s, q).p, q)
    BY <1>1, L3ForwardKeepsInt
  <1> HIDE DEF q
  <1>4. Forwarded(s, in, p) \in {SfcForward(s, q), L3Forward(s, q)}
    BY DEF Forwarded, q
  <1> QED
    BY <1>1, <1>2, <1>3, <1>4 DEF SameInt

LEMMA SourceAgrees ==
  ASSUME NEW s \in Switch, NEW in, NEW p \in Packet, NEW o, NEW n \in Nat,
         IntAgrees(p, o, n), EthAgrees(p, o),
         in \in DOMAIN Config[s]["tb_set_source"] => ~p.int
  PROVE  /\ IntAgrees(IntSource(s, in, p), o, n)
         /\ EthAgrees(IntSource(s, in, p), o)
  <1> DEFINE q == IntSource(s, in, p)
             monitored == /\ IsSource(s, in, p)
                          /\ Hit(s, "tb_int_source", <<p.src, p.dst, p.l4>>)
  <1>1. CASE ~monitored
    BY <1>1 DEF IntSource
  <1>2. CASE monitored
    <2>1. q = [p EXCEPT !.int = TRUE, !.odscp = p.dscp, !.dscp = DSCP_INT,
                        !.shimLen = INT_HEADER_WORD, !.stack = << >>,
                        !.len = (p.len + INT_TOTAL_HEADER_SIZE) % Word16]
      BY <1>2 DEF IntSource
    <2>2. /\ q.int /\ q.odscp = p.dscp /\ q.shimLen = INT_HEADER_WORD
          /\ q.len = (p.len + INT_TOTAL_HEADER_SIZE) % Word16
          /\ q.l4 = p.l4 /\ q.eth = p.eth /\ q.chain = p.chain
      BY <2>1 DEF Packet
    <2>3. HasL4(p) /\ ~p.int
      BY <1>2 DEF IsSource, Hit
    <2>4. p.dscp = o.dscp /\ p.len = o.len /\ p.l4 = o.l4 /\ o.l4 # NoL4
      BY <2>3 DEF IntAgrees, HasL4
    <2>5. o.eth = "IPV4"
      BY <2>3 DEF HasL4, HasIPv4, EthAgrees
    <2>6. INT_HEADER_WORD <= INT_HEADER_WORD + n * WordsPerHop
      <3>1. n * WordsPerHop \in Nat
        BY HopWordsFit, BytesAreNumbers, OneHopMore
      <3> QED
        BY <3>1 DEF INT_HEADER_WORD
    <2>7. p.len \in Nat
      BY Word16Size DEF Packet, Length
    <2>8. p.len + INT_TOTAL_HEADER_SIZE = p.len + 4 * INT_HEADER_WORD + ShimBytes
      BY <2>7 DEF INT_TOTAL_HEADER_SIZE, INT_HEADER_WORD, ShimBytes
    <2> HIDE DEF q
    <2>9. IntAgrees(q, o, n)
      BY <2>2, <2>4, <2>6, <2>8 DEF IntAgrees
    <2> QED
      BY <2>2, <2>4, <2>5, <2>9 DEF EthAgrees, q
  <1> QED
    BY <1>1, <1>2

LEMMA TransitAgrees ==
  ASSUME NEW s \in Switch, NEW p \in Packet, NEW o, o.len \in Length,
         NEW n \in Nat, n < MaxTrace, IntAgrees(p, o, n)
  PROVE  IntAgrees(IntTransit(s, p), o, n + 1)
  <1> DEFINE q == IntTransit(s, p)
             k == WordsPerHop
             t == TransitWords(s)
  <1>1. k \in Nat /\ t \in Nat /\ t <= k /\ INT_HEADER_WORD + MaxTrace * k < Word8
    BY HopWordsFit, BytesAreNumbers
  <1>2. /\ (n + 1) * k = n * k + k /\ n * k \in Nat
        /\ n * k + k <= MaxTrace * k /\ MaxTrace * k \in Nat
    BY <1>1, OneHopMore, ShimFits
  <1>3. CASE ~(p.int /\ Hit(s, "tb_int_insert", 0))
    <2>1. q = p
      BY <1>3 DEF IntTransit
    <2>2. p.shimLen \in Nat
      BY BytesAreNumbers DEF Packet
    <2> HIDE DEF q, k
    <2>3. p.shimLen <= INT_HEADER_WORD + n * k
            => p.shimLen <= INT_HEADER_WORD + (n * k + k)
      BY <1>1, <1>2, <2>2 DEF INT_HEADER_WORD
    <2>4. p.shimLen <= INT_HEADER_WORD + n * k
            => p.shimLen <= INT_HEADER_WORD + (n + 1) * k
      BY <1>2, <2>3
    <2> QED
      BY <2>1, <2>4 DEF IntAgrees, q, k
  <1>4. CASE p.int /\ Hit(s, "tb_int_insert", 0)
    <2>1. /\ q.int /\ q.odscp = p.odscp /\ q.l4 = p.l4
          /\ q.shimLen = (p.shimLen + t) % Word8
          /\ q.len = (p.len + 4 * t) % Word16
      BY <1>4 DEF IntTransit, Packet
    <2>2. /\ p.shimLen \in Nat /\ p.shimLen <= INT_HEADER_WORD + n * k
          /\ p.len = (o.len + 4 * p.shimLen + ShimBytes) % Word16
          /\ o.len \in Nat
      <3>1. p.shimLen \in Nat /\ o.len \in Nat
        BY BytesAreNumbers, LengthsAreNumbers DEF Packet
      <3> QED
        BY <1>4, <3>1 DEF IntAgrees
    <2> HIDE DEF q, k, t
    <2>3. p.shimLen + t <= INT_HEADER_WORD + (n + 1) * k /\ p.shimLen + t < Word8
      <3> DEFINE m == n * k
                 l == MaxTrace * k
      <3>1. m \in Nat /\ l \in Nat /\ m + k <= l
        BY <1>2
      <3>2. INT_HEADER_WORD + l < Word8 /\ p.shimLen <= INT_HEADER_WORD + m
        BY <1>1, <2>2
      <3> HIDE DEF m, l
      <3>3. p.shimLen + t <= INT_HEADER_WORD + (m + k) /\ p.shimLen + t < Word8
        BY <1>1, <2>2, <3>1, <3>2 DEF INT_HEADER_WORD, Word8
      <3> QED
        BY <1>2, <3>3 DEF m
    <2>4. q.shimLen = p.shimLen + t
      <3> DEFINE a == p.shimLen + t
      <3>1. a \in Nat /\ a < 256 /\ q.shimLen = a % Word8
        BY <1>1, <2>1, <2>2, <2>3 DEF Word8
      <3> HIDE DEF a
      <3>2. a % 256 = a
        BY <3>1
      <3> QED
        BY <3>1, <3>2 DEF Word8, a
    <2>5. q.len = (o.len + 4 * q.shimLen + ShimBytes) % Word16
      <3> DEFINE a == o.len + 4 * p.shimLen + ShimBytes
      <3>0. a \in Nat /\ 4 * t \in Nat
        BY <1>1, <2>2 DEF ShimBytes
      <3>1. q.len = (o.len + 4 * p.shimLen + ShimBytes + 4 * t) % Word16
        <4> HIDE DEF a
        <4>1. q.len = ((a % Word16) + 4 * t) % Word16
          BY <2>1, <2>2 DEF a
        <4>2. q.len = (a + 4 * t) % Word16
          BY <3>0, <4>1, ModPlus
        <4> QED
          BY <4>2 DEF a
      <3>2. o.len + 4 * p.shimLen + ShimBytes + 4 * t
              = o.len + 4 * (p.shimLen + t) + ShimBytes
        BY <1>1, <2>2 DEF ShimBytes
      <3> QED
        BY <2>4, <3>1, <3>2
    <2> QED
      BY <1>4, <2>1, <2>3, <2>4, <2>5 DEF IntAgrees, q, k
  <1> QED
    BY <1>3, <1>4

LEMMA SinkAgrees ==
  ASSUME NEW p \in Packet, p.int, NEW o, o.len \in Length, NEW n,
         IntAgrees(p, o, n)
  PROVE  IntAgrees(IntSink(p), o, n) /\ ~IntSink(p).int
  <1> DEFINE q == IntSink(p)
             b == p.shimLen * 4 + ShimBytes
  <1>1. /\ ~q.int /\ q.dscp = p.odscp /\ q.l4 = p.l4 /\ q.stack = << >>
        /\ q.len = (p.len + Word16 - b) % Word16
    BY DEF IntSink, Packet
  <1>2. b \in Nat /\ b < Word16
    BY DEF Packet, Byte, Word16, Word8, ShimBytes
  <1>3. p.len = (o.len + b) % Word16
    <2>1. p.len = (o.len + 4 * p.shimLen + ShimBytes) % Word16
      BY DEF IntAgrees
    <2>2. o.len + 4 * p.shimLen + ShimBytes = o.len + b
      <3>1. p.shimLen \in Nat /\ o.len \in Nat
        BY BytesAreNumbers, LengthsAreNumbers DEF Packet
      <3> QED
        BY <3>1 DEF ShimBytes
    <2> QED
      BY <2>1, <2>2
  <1> HIDE DEF q, b
  <1>4. q.len = o.len
    BY <1>1, <1>2, <1>3, ModMinus
  <1> QED
    BY <1>1, <1>4 DEF IntAgrees, q

LEMMA SfcAgrees ==
  ASSUME NEW s \in Switch, NEW in, NEW p \in Packet, NEW o, EthAgrees(p, o)
  PROVE  EthAgrees(AfterSfc(s, in, p), o)
  <1> DEFINE e == Encapsulated(s, in, p)
             v == Served(s, e)
  <1>1. e \in Packet /\ EthAgrees(e, o)
    <2>1. CASE p.eth # "SFC" /\ IsSource(s, in, p) /\ Hit(s, "sfc_classifier", p.dscp)
      <3>1. e.eth = "SFC" /\ e.int = p.int
        BY <2>1 DEF Encapsulated, Packet
      <3>2. o.eth = "IPV4"
        BY <2>1 DEF IsSource, HasL4, HasIPv4, EthAgrees
      <3> QED
        BY <3>1, <3>2, EncapsulatedType DEF EthAgrees
    <2>2. CASE ~(p.eth # "SFC" /\ IsSource(s, in, p) /\ Hit(s, "sfc_classifier", p.dscp))
      BY <2>2 DEF Encapsulated
    <2> QED
      BY <2>1, <2>2
  <1> HIDE DEF e
  <1>2. v \in Packet /\ EthAgrees(v, o)
    <2>1. CASE Serves(s, e)
      <3>1. v.eth = "SFC" /\ v.int = e.int /\ e.eth = "SFC"
        BY <1>1, <2>1 DEF Served, Serves, Packet
      <3> QED
        BY <1>1, <3>1, ServedType DEF EthAgrees
    <2>2. CASE ~Serves(s, e)
      BY <1>1, <2>2 DEF Served
    <2> QED
      BY <2>1, <2>2
  <1> HIDE DEF v
  <1>3. EthAgrees(Decapsulated(v), o)
    <2>1. CASE v.eth = "SFC" /\ v.sc = 0
      <3>1. /\ Decapsulated(v).eth = "IPV4" /\ Decapsulated(v).chain = << >>
            /\ Decapsulated(v).int = v.int
        BY <1>2, <2>1 DEF Decapsulated, Packet
      <3> QED
        BY <1>2, <2>1, <3>1 DEF EthAgrees
    <2>2. CASE ~(v.eth = "SFC" /\ v.sc = 0)
      BY <1>2, <2>2 DEF Decapsulated
    <2> QED
      BY <2>1, <2>2
  <1> QED
    BY <1>3 DEF AfterSfc, e, v

LEMMA ForwardedKeepsChain ==
  ASSUME NEW s \in Switch, NEW in, NEW p \in Packet, ~TtlExpired(p)
  PROVE  LET r == Forwarded(s, in, p)
         IN  r.p \in Packet /\ SameChain(r.p, AfterSfc(s, in, p))
  <1> DEFINE q == AfterSfc(s, in, p)
  <1>1. q \in Packet /\ ~TtlExpired(q)
    BY AfterSfcType, AfterSfcKeeps DEF TtlExpired
  <1>2. CASE SfcForwards(s, q)
    BY <1>1, <1>2, SfcForwardCarries DEF SfcForwards, Forwarded, Carries
  <1>3. CASE ~SfcForwards(s, q)
    BY <1>1, <1>3, L3ForwardCarries DEF Forwarded, Carries
  <1> QED
    BY <1>2, <1>3

(* What leaves ingress, and what egress makes of it. *)
LEMMA IngressAgrees ==
  ASSUME NEW s \in Switch, NEW in, NEW p \in Packet, ~TtlExpired(p),
         NEW o, NEW n \in Nat, IntAgrees(p, o, n), EthAgrees(p, o),
         in \in DOMAIN Config[s]["tb_set_source"] => ~p.int
  PROVE  LET i == Ingress(s, in, p).p
         IN  /\ i \in Packet /\ IntAgrees(i, o, n) /\ EthAgrees(i, o)
             /\ SameChain(i, AfterSfc(s, in, p))
  <1> DEFINE r == Forwarded(s, in, p)
             q == AfterSfc(s, in, p)
             i == Ingress(s, in, p).p
  <1>1. r.p \in Packet /\ SameInt(r.p, p) /\ SameChain(r.p, q) /\ EthAgrees(q, o)
    BY ForwardedKeepsChain, ForwardedKeepsInt, SfcAgrees
  <1>2. q.int = p.int
    BY AfterSfcKeepsInt DEF SameInt
  <1>3. i = IntSource(s, in, r.p)
    BY ForwardedDst
  <1> HIDE DEF r, q, i
  <1>4. IntAgrees(r.p, o, n) /\ EthAgrees(r.p, o)
    BY <1>1, <1>2 DEF SameInt, SameChain, IntAgrees, EthAgrees
  <1>5. in \in DOMAIN Config[s]["tb_set_source"] => ~r.p.int
    BY <1>1 DEF SameInt
  <1>6. IntAgrees(i, o, n) /\ EthAgrees(i, o) /\ SameChain(i, r.p) /\ i \in Packet
    BY <1>1, <1>3, <1>4, <1>5, SourceAgrees, IntKeeps, IntSourceType
  <1> QED
    BY <1>1, <1>6 DEF SameChain, i, q

LEMMA EgressAgrees ==
  ASSUME NEW s \in Switch, NEW r, r.p \in Packet, NEW o, o.len \in Length,
         NEW n \in Nat, n < MaxTrace, IntAgrees(r.p, o, n), EthAgrees(r.p, o)
  PROVE  /\ IntAgrees(Egress(s, r), o, n + 1) /\ EthAgrees(Egress(s, r), o)
         /\ SameChain(Egress(s, r), r.p)
         /\ Egress(s, r).int <=> r.p.int /\ ~IsSink(s, r)
  <1> DEFINE t == IntTransit(s, r.p)
  <1>1. /\ t \in Packet /\ IntAgrees(t, o, n + 1) /\ SameChain(t, r.p)
        /\ t.int = r.p.int
    <2>1. t.int = r.p.int
      BY DEF IntTransit, Packet
    <2> QED
      BY <2>1, IntTransitType, TransitAgrees, IntKeeps
  <1> HIDE DEF t
  <1>2. CASE t.int /\ IsSink(s, r)
    <2>1. Egress(s, r) = IntSink(t)
      BY <1>2 DEF Egress, t
    <2>2. /\ IntAgrees(IntSink(t), o, n + 1) /\ ~IntSink(t).int
          /\ SameChain(IntSink(t), t)
      BY <1>1, <1>2, SinkAgrees, IntKeeps
    <2> QED
      BY <1>1, <1>2, <2>1, <2>2 DEF SameChain, EthAgrees
  <1>3. CASE ~(t.int /\ IsSink(s, r))
    <2>1. Egress(s, r) = t
      BY <1>3 DEF Egress, t
    <2> QED
      BY <1>1, <1>3, <2>1 DEF SameChain, EthAgrees
  <1> QED
    BY <1>2, <1>3

-----------------------------------------------------------------------------
(* In every reachable state the headers of a packet tell what it was. *)

Untouched(f) == f.h.trace = << >> => ~f.p.int /\ f.p.eth # "SFC"
Agreeing(g) == IntAgrees(g.p, g.h.o, Len(g.h.trace)) /\ EthAgrees(g.p, g.h.o)
HeaderInv == /\ \A f \in frames : Agreeing(f) /\ Untouched(f)
             /\ \A d \in delivered : Agreeing(d)

LEMMA SentIsTyped ==
  ASSUME NEW o \in Sent
  PROVE  o.len \in Length /\ o.dscp \in Dscp /\ o.eth # "SFC"
  <1>1. FromHost(o) \in Packet /\ FromHost(o).eth # "SFC"
    BY FromHostType
  <1> QED
    BY <1>1 DEF FromHost, Packet

LEMMA FromHostAgrees ==
  ASSUME NEW o \in Sent, NEW p, NEW t,
         p = FromHost(o) \/ p = [FromHost(o) EXCEPT !.ttl = t]
  PROVE  /\ IntAgrees(p, o, Len(NoHistory(o).trace)) /\ EthAgrees(p, o)
         /\ ~p.int /\ p.eth # "SFC"
  <1>1. /\ p.l4 = o.l4 /\ ~p.int /\ p.dscp = o.dscp /\ p.len = o.len
        /\ p.stack = << >> /\ p.eth = o.eth /\ p.chain = << >>
    BY DEF FromHost
  <1> QED
    BY <1>1, SentIsTyped DEF IntAgrees, EthAgrees

LEMMA InstalledHits ==
  ASSUME TypeOK, NEW ts, Installed(ts), NEW t \in ts, NEW s,
         NEW k \in DOMAIN Config[s][t]
  PROVE  Hit(s, t, k)
  <1>1. <<s, t, k>>[2] = t
    OBVIOUS
  <1> QED
    BY <1>1 DEF TypeOK, Installed, Hit

(* Only a multicaster multicasts without being a sink. *)
LEMMA MulticasterFlag ==
  ASSUME NEW s \in Switch, NEW in, NEW p, Ingress(s, in, p).is_multicaster
  PROVE  Multicaster(s)
  BY DEF Ingress, Forwarded, SfcForward, L3Forward, Routed, SetMulticastGroup

(* Past the port of a host a packet with telemetry leaves the INT domain. *)
LEMMA HostPortIsSink ==
  ASSUME TypeOK, Installed({"tb_set_sink"}), NEW f \in frames, f.at \in Switch,
         NEW c \in Outputs(f), <<f.at, c.port>> \in DOMAIN HostAt,
         HasL4(Ingress(f.at, f.in, f.p).p)
  PROVE  IsSink(f.at, Ingress(f.at, f.in, f.p))
  <1> DEFINE r == Ingress(f.at, f.in, f.p)
  <1>1. /\ <<f.at, c.port>>[1] = f.at /\ <<f.at, c.port>>[2] = c.port
        /\ 1 \notin DOMAIN Config[f.at]["multicaster"]
        /\ c.port \in DOMAIN Config[f.at]["tb_set_sink"]
    BY EdgePortsMarked
  <1>2. ~r.is_multicaster
    BY <1>1, MulticasterFlag DEF Multicaster, Hit
  <1>3. Hit(f.at, "tb_set_sink", c.port)
    BY <1>1, InstalledHits
  <1>4. r.mcast_grp = 0 => r.egress_spec = c.port
    BY DEF Outputs, Copies, CopyPorts
  <1> HIDE DEF r
  <1> QED
    BY <1>2, <1>3, <1>4 DEF IsSink, r

(* The copies of a frame, whole: the chain the SFC stage left, the headers *)
(* in agreement, and no telemetry past the port of a host.                 *)
LEMMA IngressOfFrame ==
  ASSUME TypeOK, ChainConsistent, HeaderInv, NEW f \in frames, Forward(f)
  PROVE  LET r == Ingress(f.at, f.in, f.p)
         IN  /\ r.p \in Packet /\ EthAgrees(r.p, f.h.o)
             /\ IntAgrees(r.p, f.h.o, Len(f.h.trace))
             /\ SameChain(r.p, AfterSfc(f.at, f.in, f.p))
             /\ r.p.int => HasL4(r.p)
  <1> DEFINE r == Ingress(f.at, f.in, f.p)
  <1>1. f.at \in Switch /\ f.p \in Packet /\ ~TtlExpired(f.p)
    BY Forwarding
  <1>2. f.in \in DOMAIN Config[f.at]["tb_set_source"] => ~f.p.int
    <2> HAVE f.in \in DOMAIN Config[f.at]["tb_set_source"]
    <2>1. f.h = NoHistory(f.h.o)
      BY DEF ChainConsistent
    <2>2. NoHistory(f.h.o).trace = << >>
      BY DEF NoHistory
    <2>3. f.h.trace = << >>
      BY <2>1, <2>2
    <2> QED
      BY <2>3 DEF HeaderInv, Untouched
  <1>3. /\ r.p \in Packet /\ EthAgrees(r.p, f.h.o)
        /\ IntAgrees(r.p, f.h.o, Len(f.h.trace))
        /\ SameChain(r.p, AfterSfc(f.at, f.in, f.p))
    BY <1>1, <1>2, IngressAgrees DEF HeaderInv, Agreeing
  <1> HIDE DEF r
  <1>4. r.p.int => HasL4(r.p)
    BY <1>3 DEF HasL4, HasIPv4, IntAgrees, EthAgrees
  <1> QED
    BY <1>3, <1>4 DEF r

LEMMA CopyOfFrame ==
  ASSUME TypeOK, ChainConsistent, HeaderInv, NEW f \in frames, Forward(f),
         NEW c \in Outputs(f)
  PROVE  /\ SameChain(c.p, AfterSfc(f.at, f.in, f.p))
         /\ IntAgrees(c.p, f.h.o, Len(f.h.trace) + 1) /\ EthAgrees(c.p, f.h.o)
         /\ LET r == Ingress(f.at, f.in, f.p)
            IN  c.p.int <=> r.p.int /\ ~IsSink(f.at, r)
         /\ Installed({"tb_set_sink"}) /\ <<f.at, c.port>> \in DOMAIN HostAt
              => ~c.p.int
  <1> DEFINE r == Ingress(f.at, f.in, f.p)
  <1>1. /\ f.at \in Switch /\ f.h \in Histories
        /\ Len(f.h.trace) < MaxTrace /\ Len(f.h.trace) \in Nat
    BY Forwarding
  <1>2. f.h.o.len \in Length
    BY <1>1, SentIsTyped DEF Histories
  <1>3. /\ r.p \in Packet /\ EthAgrees(r.p, f.h.o)
        /\ IntAgrees(r.p, f.h.o, Len(f.h.trace))
        /\ SameChain(r.p, AfterSfc(f.at, f.in, f.p))
        /\ r.p.int => HasL4(r.p)
    BY IngressOfFrame
  <1>4. c.p = Egress(f.at, r)
    BY DEF Outputs, Copies
  <1>5. Installed({"tb_set_sink"}) /\ <<f.at, c.port>> \in DOMAIN HostAt /\ r.p.int
          => IsSink(f.at, r)
    BY <1>1, <1>3, HostPortIsSink
  <1> HIDE DEF r
  <1>6. /\ IntAgrees(c.p, f.h.o, Len(f.h.trace) + 1) /\ EthAgrees(c.p, f.h.o)
        /\ SameChain(c.p, r.p)
        /\ c.p.int <=> r.p.int /\ ~IsSink(f.at, r)
    BY <1>1, <1>2, <1>3, <1>4, EgressAgrees
  <1> QED
    BY <1>3, <1>5, <1>6 DEF SameChain, r

LEMMA HeadersAgree == Spec => []HeaderInv
<1>1. Init => HeaderInv
  BY DEF Init, HeaderInv
<1>2. TypeOK /\ ChainConsistent /\ HeaderInv /\ [Next]_vars => HeaderInv'
  <2> SUFFICES ASSUME TypeOK, ChainConsistent, HeaderInv, [Next]_vars
               PROVE  HeaderInv'
    OBVIOUS
  <2>1. ASSUME NEW f \in frames, NEW c \in Outputs(f), Forward(f),
               NEW g, g.p = c.p, g.h = History(f)
        PROVE  Agreeing(g) /\ Untouched(g)
    <3>1. /\ f.at \in Switch /\ f.p \in Packet /\ f.h \in Histories
          /\ ~TtlExpired(f.p) /\ Len(f.h.trace) < MaxTrace
          /\ History(f).o = f.h.o /\ Len(f.h.trace) \in Nat
          /\ Len(History(f).trace) = Len(f.h.trace) + 1
      BY <2>1, Forwarding
    <3>2. /\ IntAgrees(c.p, f.h.o, Len(f.h.trace) + 1)
          /\ EthAgrees(c.p, f.h.o)
      BY <2>1, CopyOfFrame
    <3>3. History(f).trace # << >>
      BY <3>1
    <3> QED
      BY <2>1, <3>1, <3>2, <3>3 DEF Agreeing, Untouched
  <2>2. ASSUME NEW g \in frames' \ frames
        PROVE  Agreeing(g) /\ Untouched(g)
    <3>1. ASSUME NEW o \in Offered, IsSent(g, o)
          PROVE  Agreeing(g) /\ Untouched(g)
      BY <3>1, FromHostAgrees DEF IsSent, Agreeing, Untouched, Sent, NoHistory
    <3>2. ASSUME NEW x \in Probes, IsProbed(g, x)
          PROVE  Agreeing(g) /\ Untouched(g)
      <4> DEFINE o == ProbeFrom(x)
      <4>1. o \in Sent /\ g.p = [FromHost(o) EXCEPT !.ttl = 0] /\ g.h = NoHistory(o)
        BY <3>2 DEF IsProbed, Sent
      <4>2. g.h.o = o
        BY <4>1 DEF NoHistory
      <4> HIDE DEF o
      <4> QED
        BY <4>1, <4>2, FromHostAgrees DEF Agreeing, Untouched
    <3>3. ASSUME NEW f \in frames, NEW c \in Outputs(f), IsPassedOn(g, f, c)
          PROVE  Agreeing(g) /\ Untouched(g)
      BY <2>1, <3>3 DEF IsPassedOn
    <3> QED
      BY <3>1, <3>2, <3>3, NewFrames
  <2>3. ASSUME NEW d \in delivered' \ delivered
        PROVE  Agreeing(d)
    BY <2>1, NewDeliveries DEF IsDelivered
  <2> QED
    BY <2>2, <2>3 DEF HeaderInv
<1> QED
  BY <1>1, <1>2, TypeCorrect, ChainsConsistent, PTL DEF Spec
-----------------------------------------------------------------------------
(* The stack of a packet is its path, newest first: each switch on the way *)
(* has pushed its number, once.                                            *)

NumberTables == {"tb_int_insert", "tb_int_inst_0003"}

LEMMA SwitchesReport ==
  ASSUME TypeOK, Installed(NumberTables), NEW s \in Switch
  PROVE  /\ Hit(s, "tb_int_insert", 0) /\ Hit(s, "tb_int_inst_0003", 15)
         /\ SwitchId(s) = s
  <1>1. Hit(s, "tb_int_insert", 0) /\ Hit(s, "tb_int_inst_0003", 15)
    BY SwitchesNumbered, InstalledHits DEF NumberTables
  <1> QED
    BY <1>1, SwitchesNumbered DEF SwitchId

StackTells(stack, trace) ==
  /\ Len(stack) = Len(trace)
  /\ \A i \in DOMAIN stack : stack[i] = trace[Len(trace) + 1 - i]

LEMMA PushTells ==
  ASSUME NEW s, NEW stack \in Ids, NEW trace \in Path, s \in Switch, s \in Nat,
         StackTells(stack, trace)
  PROVE  StackTells(<<s>> \o stack, Append(trace, s))
  <1> DEFINE now == <<s>> \o stack
             path == Append(trace, s)
             n == Len(trace)
  <1>1. /\ n \in Nat /\ Len(stack) = n /\ Len(now) = n + 1 /\ Len(path) = n + 1
        /\ DOMAIN now = 1 .. n + 1 /\ DOMAIN stack = 1 .. n
    BY DEF StackTells, Ids, Path
  <1>2. ASSUME NEW i \in 1 .. n + 1
        PROVE  now[i] = path[n + 1 + 1 - i]
    <2>1. CASE i = 1
      BY <1>1, <2>1 DEF Ids, Path
    <2>2. CASE i # 1
      <3>1. i - 1 \in 1 .. n /\ n + 1 - (i - 1) \in 1 .. n
            /\ n + 1 + 1 - i = n + 1 - (i - 1)
        BY <1>1, <2>2
      <3>2. now[i] = stack[i - 1]
        BY <1>1, <2>2, <3>1 DEF Ids
      <3>3. path[n + 1 - (i - 1)] = trace[n + 1 - (i - 1)]
        BY <3>1 DEF Path
      <3> QED
        BY <1>1, <3>1, <3>2, <3>3 DEF StackTells
    <2> QED
      BY <2>1, <2>2
  <1> QED
    BY <1>1, <1>2 DEF StackTells

LEMMA TransitPushes ==
  ASSUME TypeOK, Installed(NumberTables), NEW s \in Switch, NEW p \in Packet,
         p.int, NEW trace \in Path, StackTells(p.stack, trace)
  PROVE  /\ StackTells(IntTransit(s, p).stack, Append(trace, s))
         /\ IntTransit(s, p).odscp = p.odscp
  <1>1. /\ IntTransit(s, p).stack = <<s>> \o p.stack
        /\ IntTransit(s, p).odscp = p.odscp
    <2>1. IntTransit(s, p) =
            [p EXCEPT !.stack   = <<s>> \o p.stack,
                      !.len     = (p.len + 4 * TransitWords(s)) % Word16,
                      !.shimLen = (p.shimLen + TransitWords(s)) % Word8]
      BY SwitchesReport DEF IntTransit
    <2> QED
      BY <2>1 DEF Packet
  <1>2. s \in Nat /\ p.stack \in Ids
    BY SwitchesNumbered, TablesTyped DEF Packet
  <1> QED
    BY <1>1, <1>2, PushTells

StackInv == \A f \in frames : f.p.int => StackTells(f.p.stack, f.h.trace)

(* The stack that leaves ingress. *)
LEMMA IngressStack ==
  ASSUME TypeOK, ChainConsistent, HeaderInv, StackInv,
         NEW f \in frames, Forward(f)
  PROVE  LET i == Ingress(f.at, f.in, f.p).p
         IN  i \in Packet /\ (i.int => StackTells(i.stack, f.h.trace))
  <1> DEFINE r == Forwarded(f.at, f.in, f.p)
             i == Ingress(f.at, f.in, f.p).p
  <1>1. f.at \in Switch /\ f.p \in Packet /\ ~TtlExpired(f.p)
    BY Forwarding
  <1>2. r.p \in Packet /\ SameInt(r.p, f.p) /\ i = IntSource(f.at, f.in, r.p)
    BY <1>1, ForwardedKeepsChain, ForwardedKeepsInt, ForwardedDst
  <1> HIDE DEF r, i
  <1>3. i \in Packet
    BY <1>1, <1>2, IntSourceType
  <1>4. i = r.p /\ i.int => StackTells(i.stack, f.h.trace)
    BY <1>2 DEF SameInt, StackInv
  <1>5. ASSUME i # r.p
        PROVE  StackTells(i.stack, f.h.trace)
    <2>1. IsSource(f.at, f.in, r.p) /\ i.stack = << >>
      BY <1>2, <1>5 DEF IntSource, Packet
    <2>2. f.h = NoHistory(f.h.o)
      BY <2>1 DEF IsSource, Hit, ChainConsistent
    <2>3. NoHistory(f.h.o).trace = << >>
      BY DEF NoHistory
    <2>4. i.stack = << >> /\ f.h.trace = << >>
      BY <2>1, <2>2, <2>3
    <2> QED
      BY <2>4 DEF StackTells
  <1> QED
    BY <1>3, <1>4, <1>5 DEF i

LEMMA StacksTell == ASSUME Installed(NumberTables) PROVE Spec => []StackInv
<1>1. Init => StackInv
  BY DEF Init, StackInv
<1>2. TypeOK /\ ChainConsistent /\ HeaderInv /\ StackInv /\ [Next]_vars
        => StackInv'
  <2> SUFFICES ASSUME TypeOK, ChainConsistent, HeaderInv, StackInv, [Next]_vars,
                      NEW g \in frames' \ frames, g.p.int
               PROVE  StackTells(g.p.stack, g.h.trace)
    BY DEF StackInv
  <2>1. ASSUME NEW o \in Offered, IsSent(g, o)
        PROVE  FALSE
    BY <2>1 DEF IsSent, FromHost
  <2>2. ASSUME NEW x \in Probes, IsProbed(g, x)
        PROVE  FALSE
    BY <2>2 DEF IsProbed, FromHost
  <2>3. ASSUME NEW f \in frames, NEW c \in Outputs(f), IsPassedOn(g, f, c)
        PROVE  StackTells(g.p.stack, g.h.trace)
    <3> DEFINE r == Ingress(f.at, f.in, f.p)
    <3>1. /\ f.at \in Switch /\ f.h.trace \in Path
          /\ g.h.trace = Append(f.h.trace, f.at) /\ g.p = c.p
      BY <2>3, Forwarding DEF IsPassedOn, Histories
    <3>2. r.p \in Packet /\ (r.p.int => StackTells(r.p.stack, f.h.trace))
      BY <2>3, IngressStack DEF IsPassedOn
    <3>3. c.p = Egress(f.at, r)
      BY DEF Copies, Outputs
    <3> HIDE DEF r
    <3>4. c.p = IntTransit(f.at, r.p) /\ r.p.int
      <4>0. r.p \in Packet
        BY <3>2
      <4>1. IntTransit(f.at, r.p) \in Packet /\ IntTransit(f.at, r.p).int = r.p.int
        <5>1. IntTransit(f.at, r.p).int = r.p.int
          BY <4>0 DEF IntTransit, Packet
        <5> QED
          BY <3>1, <4>0, <5>1, IntTransitType
      <4>2. ~IntSink(IntTransit(f.at, r.p)).int
        BY <4>1 DEF IntSink, Packet
      <4> QED
        BY <3>1, <3>3, <4>1, <4>2 DEF Egress
    <3> QED
      BY <3>1, <3>2, <3>4, TransitPushes
  <2> QED
    BY <2>1, <2>2, <2>3, NewFrames
<1> QED
  BY <1>1, <1>2, TypeCorrect, ChainsConsistent, HeadersAgree, PTL DEF Spec

(***************************************************************************)
(* Where the switches have their numbers (tb_int_insert) and the telemetry *)
(* of a packet fits its shim, every report names the switches its packet   *)
(* passed, in order, and the DSCP it was sent with (int_transit,           *)
(* do_report_encapsulation), although it is made from a clone of the       *)
(* packet as it arrived; all other entries may come in any order.          *)
(***************************************************************************)
THEOREM ReportsTellPath ==
  ASSUME Installed(NumberTables)
  PROVE  Spec => []ReportedPathIsActual
<1> DEFINE Tells(r) ==
      /\ r.dscp = r.h.o.dscp /\ r.node = r.h.trace[Len(r.h.trace)]
      /\ StackTells(r.stack, r.h.trace)
<1>1. Init => ReportedPathIsActual
  BY DEF Init, ReportedPathIsActual
<1>2. /\ TypeOK /\ HeaderInv /\ StackInv /\ ReportedPathIsActual /\ [Next]_vars
      => ReportedPathIsActual'
  <2> SUFFICES ASSUME TypeOK, HeaderInv, StackInv, ReportedPathIsActual,
                      [Next]_vars
               PROVE  ReportedPathIsActual'
    OBVIOUS
  <2>1. ASSUME NEW f \in frames, Forward(f), Reports(f.at, f.in, f.p)
        PROVE  Tells(Report(f))
    <3> DEFINE r == Report(f)
               c == IntTransit(f.at, f.p)
    <3>1. /\ f.at \in Switch /\ f.p \in Packet /\ f.h.trace \in Path
          /\ History(f).trace = Append(f.h.trace, f.at)
          /\ History(f).o = f.h.o
      BY <2>1, Forwarding DEF Histories
    <3>2. /\ f.p.int /\ StackTells(f.p.stack, f.h.trace)
          /\ f.p.odscp = f.h.o.dscp
      BY <2>1 DEF Reports, StackInv, HeaderInv, Agreeing, IntAgrees
    <3>3. /\ StackTells(c.stack, Append(f.h.trace, f.at))
          /\ c.odscp = f.p.odscp
      BY <3>1, <3>2, TransitPushes
    <3>4. /\ r.node = f.at /\ r.dscp = c.odscp /\ r.stack = c.stack
          /\ r.h = History(f)
      BY <3>1, SwitchesReport DEF Report
    <3> HIDE DEF c, r
    <3>5. r.node = r.h.trace[Len(r.h.trace)]
      BY <3>1, <3>4 DEF Path
    <3> QED
      BY <3>1, <3>2, <3>3, <3>4, <3>5 DEF r
  <2>2. \A r \in reports' : r \in reports \/ Tells(r)
    BY <2>1, NewReports
  <2>3. \A r \in reports : Tells(r)
    BY DEF ReportedPathIsActual, StackTells
  <2> QED
    BY <2>2, <2>3 DEF ReportedPathIsActual, StackTells
<1> QED
  BY <1>1, <1>2, TypeCorrect, HeadersAgree, StacksTell, PTL DEF Spec
-----------------------------------------------------------------------------
(* The register of a switch counts its reports.                            *)

ReportsOf(s) == {r \in reports : r.node = s}
Few(s) == Cardinality(ReportsOf(s)) < SeqMod
NumbersTell(s) ==
  /\ IsFiniteSet(ReportsOf(s))
  /\ Few(s) =>
       /\ seqNo[s] = Cardinality(ReportsOf(s))
       /\ {r.seq : r \in ReportsOf(s)} = 0 .. Cardinality(ReportsOf(s)) - 1
NumberInv == \A s \in Switch : NumbersTell(s)

(***************************************************************************)
(* As long as a switch has sent fewer reports than its register can count  *)
(* (seq_number, 22 bits), its reports are numbered 0, 1, 2 and so on, each *)
(* number used once (increment_counter): what is missing was lost.         *)
(***************************************************************************)
THEOREM ReportsAreNumbered ==
  ASSUME Installed(NumberTables)
  PROVE  Spec => []((\A s \in Switch : Few(s)) => ReportsNumbered)
<1>1. Init => NumberInv
  <2> SUFFICES ASSUME Init, NEW s \in Switch
               PROVE  NumbersTell(s)
    BY DEF NumberInv
  <2>1. ReportsOf(s) = {} /\ seqNo[s] = 0
    BY DEF Init, ReportsOf
  <2>2. IsFiniteSet({}) /\ Cardinality({}) = 0
    BY FS_EmptySet
  <2> QED
    BY <2>1, <2>2 DEF NumbersTell
<1>2. TypeOK /\ NumberInv /\ [Next]_vars => NumberInv'
  <2> SUFFICES ASSUME TypeOK, NumberInv, [Next]_vars, NEW s \in Switch
               PROVE  NumbersTell(s)'
    BY DEF NumberInv
  <2>1. CASE UNCHANGED <<reports, seqNo>>
    BY <2>1 DEF NumberInv, NumbersTell, Few, ReportsOf
  <2>2. ASSUME NEW f \in frames, Forward(f),
               reports' = reports \cup {Report(f)},
               seqNo' = [seqNo EXCEPT ![f.at] = NextSeq(@)]
        PROVE  NumbersTell(s)'
    <3> DEFINE r == Report(f)
               m == ReportsOf(s)
               n == Cardinality(m)
    <3>1. f.at \in Switch /\ r.node = f.at /\ r.seq = seqNo[f.at]
      <4>1. f.at \in Switch
        BY <2>2, Forwarding
      <4> QED
        BY <4>1, SwitchesReport DEF Report
    <3>2. CASE s # f.at
      <4>1. ReportsOf(s)' = ReportsOf(s) /\ seqNo'[s] = seqNo[s]
        BY <2>2, <3>1, <3>2 DEF ReportsOf, TypeOK
      <4> QED
        BY <4>1 DEF NumberInv, NumbersTell, Few
    <3>3. CASE s = f.at
      <4>1. ReportsOf(s)' = m \cup {r} /\ seqNo'[s] = NextSeq(seqNo[s])
        BY <2>2, <3>1, <3>3 DEF ReportsOf, TypeOK
      <4>2. r.seq = seqNo[s]
        BY <3>1, <3>3
      <4> HIDE DEF r, m
      <4>3. /\ IsFiniteSet(m) /\ n \in Nat
            /\ n < SeqMod => seqNo[s] = n /\ {x.seq : x \in m} = 0 .. n - 1
        BY FS_CardinalityType DEF NumberInv, NumbersTell, Few, m
      <4>4. /\ IsFiniteSet(m \cup {r})
            /\ Cardinality(m \cup {r}) = IF r \in m THEN n ELSE n + 1
        BY <4>3, FS_AddElement
      <4>5. ASSUME Few(s)'
            PROVE  /\ seqNo'[s] = Cardinality(m \cup {r})
                   /\ {x.seq : x \in m \cup {r}}
                        = 0 .. Cardinality(m \cup {r}) - 1
        <5>0. SeqMod \in Nat
          BY DEF SeqMod, Word16, Word8
        <5>1. Cardinality(m \cup {r}) < SeqMod
          BY <4>1, <4>5 DEF Few
        <5>2. n < SeqMod
          BY <4>3, <4>4, <5>0, <5>1
        <5>3. r \notin m
          BY <4>2, <4>3, <5>2
        <5>4. n + 1 < SeqMod /\ seqNo'[s] = (n + 1) % SeqMod
          BY <4>1, <4>3, <4>4, <5>1, <5>2, <5>3 DEF NextSeq
        <5>5. (n + 1) % SeqMod = n + 1
          BY <4>3, <5>4 DEF SeqMod, Word16, Word8
        <5>6. {x.seq : x \in m \cup {r}} = (0 .. n - 1) \cup {n}
          BY <4>2, <4>3, <5>2
        <5>7. (0 .. n - 1) \cup {n} = 0 .. (n + 1) - 1
          BY <4>3
        <5> QED
          BY <4>4, <5>3, <5>4, <5>5, <5>6, <5>7
      <4> HIDE DEF n
      <4>6. ReportsOf(s)' = m \cup {r} /\ IsFiniteSet(m \cup {r})
        BY <4>1, <4>4
      <4> QED
        BY <4>5, <4>6 DEF NumbersTell
    <3> QED
      BY <3>2, <3>3
  <2> QED
    BY <2>1, <2>2, NewReports
<1>3. NumberInv => ((\A s \in Switch : Few(s)) => ReportsNumbered)
  BY DEF NumberInv, NumbersTell, ReportsNumbered, ReportsOf
<1> QED
  BY <1>1, <1>2, <1>3, TypeCorrect, PTL DEF Spec
=============================================================================
