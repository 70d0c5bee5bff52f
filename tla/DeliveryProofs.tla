--------------------------- MODULE DeliveryProofs ---------------------------
(***************************************************************************)
(* What a host gets and what a collector is told, for every network that   *)
(* follows DeploymentRules: packets arrive as they were sent, once, at the *)
(* hosts they are for, after every function of their chain; each switch    *)
(* that delivers a monitored packet reports it once; and the network       *)
(* implements SfcService.  Each theorem says which tables have to be       *)
(* complete before the first packet.                                       *)
(***************************************************************************)
EXTENDS IntProofs

-----------------------------------------------------------------------------
(* The overlay: a packet with an SFC header is on its way to the switch    *)
(* that offers the next function, and sfc_egress never misses.             *)

OverlayTables == {"sf_processing", "sfc_egress"}

WellChained(policy, todo0) ==
  /\ todo0 <= Len(policy)
  /\ \A i \in 1 .. todo0 :
       /\ policy[i] \in Switch
       /\ i # 1 => policy[i] # policy[i - 1]
       /\ \A t \in Switch \ {policy[i]} :
            policy[i] \in DOMAIN Config[t]["sfc_egress"]
OverlayInv ==
  \A f \in frames : /\ WellChained(f.h.policy, f.h.todo0)
                    /\ f.p.eth = "SFC" => /\ f.at = f.p.chain[1]
                                          /\ f.h.o.dscp # 0

LEMMA HistoryFields ==
  ASSUME TypeOK, NEW f \in frames
  PROVE  /\ History(f).served = IF ServedHere(f) THEN Append(f.h.served, f.at)
                                                 ELSE f.h.served
         /\ History(f).policy = IF NewPolicy(f) THEN Encap(f).chain
                                                ELSE f.h.policy
         /\ History(f).todo0 = IF NewPolicy(f) THEN Encap(f).sc
                                               ELSE f.h.todo0
  <1>1. f.h \in Histories
    BY DEF TypeOK
  <1> QED
    BY <1>1 DEF History, Histories

LEMMA DscpIsKnown ==
  ASSUME HeaderInv, NEW f \in frames
  PROVE  DscpAtIngress(f.p) = f.h.o.dscp
  BY DEF HeaderInv, Agreeing, IntAgrees, DscpAtIngress

LEMMA ClassifierLeads ==
  ASSUME TypeOK, NEW f \in frames, NewPolicy(f)
  PROVE  /\ WellChained(Encap(f).chain, Encap(f).sc)
         /\ f.in \in DOMAIN Config[f.at]["tb_set_source"]
         /\ f.p.dscp \in DOMAIN Config[f.at]["sfc_classifier"]
         /\ Encap(f).chain = Config[f.at]["sfc_classifier"][f.p.dscp].chain
         /\ Encap(f).sc = Config[f.at]["sfc_classifier"][f.p.dscp].sc
         /\ HasL4(f.p)
  <1> DEFINE e == Config[f.at]["sfc_classifier"][f.p.dscp]
  <1>1. f.at \in Switch /\ f.p \in Packet
    BY DEF TypeOK
  <1>2. /\ f.p.eth # "SFC" /\ IsSource(f.at, f.in, f.p)
        /\ Hit(f.at, "sfc_classifier", f.p.dscp)
    BY DEF NewPolicy, Encap, Encapsulated
  <1>3. Encap(f).chain = e.chain /\ Encap(f).sc = e.sc
    BY <1>1, <1>2 DEF Encap, Encapsulated, Packet
  <1>4. f.p.dscp \in DOMAIN Config[f.at]["sfc_classifier"]
    BY <1>2 DEF Hit
  <1>5. e.sc \in 1 .. MAX_HOPS /\ Len(e.chain) = MAX_HOPS
    BY <1>1, <1>4, TablesTyped
  <1>6. e.sc <= Len(e.chain)
    BY <1>5 DEF MAX_HOPS
  <1>7. WellChained(e.chain, e.sc)
    BY <1>1, <1>4, <1>6, ChainsLead DEF WellChained
  <1> QED
    BY <1>2, <1>3, <1>4, <1>7 DEF IsSource, Hit

LEMMA StaysWellChained ==
  ASSUME TypeOK, OverlayInv, NEW f \in frames
  PROVE  WellChained(History(f).policy, History(f).todo0)
  BY HistoryFields, ClassifierLeads DEF OverlayInv

LEMMA SfcGoesOn ==
  ASSUME TypeOK, ChainConsistent, HeaderInv, OverlayInv, Installed(OverlayTables),
         NEW f \in frames, AfterSfc(f.at, f.in, f.p).eth = "SFC"
  PROVE  LET q == AfterSfc(f.at, f.in, f.p)
         IN  /\ SfcForwards(f.at, q) /\ q.chain[1] # f.at /\ f.h.o.dscp # 0
             /\ q.chain[1] \in DOMAIN Config[f.at]["sfc_egress"]
  <1> DEFINE q == AfterSfc(f.at, f.in, f.p)
             h == History(f)
             n == Len(h.served)
  <1>1. /\ f.at \in Switch /\ f.p \in Packet /\ q \in Packet /\ h \in Histories
        /\ n \in Nat /\ h.todo0 \in Nat
    <2>1. f.at \in Switch /\ f.p \in Packet /\ h \in Histories
      BY HistoryType DEF TypeOK
    <2>2. q \in Packet
      BY <2>1, AfterSfcType
    <2> HIDE DEF h, q
    <2>3. h.served \in Seq(Switch) /\ h.todo0 \in Nat
      BY <2>1, BytesAreNumbers DEF Histories, Path
    <2> QED
      BY <2>1, <2>2, <2>3
  <1>2. f.h.o.dscp # 0 /\ DscpAtIngress(f.p) # 0 /\ DscpAtIngress(q) # 0
    <2>1. DscpAtIngress(f.p) # 0
      BY DscpIsKnown DEF AfterSfc, OverlayInv
    <2>2. SameInt(q, f.p)
      BY <1>1, AfterSfcKeepsInt
    <2> QED
      BY <2>1, <2>2, DscpIsKnown DEF SameInt, DscpAtIngress
  <1>3. /\ q.sc = h.todo0 - n /\ q.sc > 0
        /\ Len(q.chain) = Len(h.policy) - n
        /\ \A i \in DOMAIN q.chain : q.chain[i] = h.policy[i + n]
        /\ \A i \in DOMAIN h.served :
             h.policy[i] \in DOMAIN Config[h.served[i]]["sf_processing"]
    BY SfcStageConsistent DEF ChainMatchesHistory
  <1>4. WellChained(h.policy, h.todo0) /\ h.policy \in Ids
    <2>1. h.policy \in Ids
      BY <1>1 DEF Histories
    <2> QED
      BY <2>1, StaysWellChained
  <1> HIDE DEF h
  <1>5. q.chain # << >> /\ q.chain[1] = h.policy[n + 1] /\ n + 1 \in 1 .. h.todo0
    <2>1. Len(h.policy) \in Nat /\ q.chain \in Ids
      BY <1>1, <1>4 DEF Ids, Packet
    <2>2. n + 1 <= h.todo0 /\ n + 1 <= Len(h.policy) /\ 1 \in 1 .. Len(q.chain)
      BY <1>1, <1>3, <1>4, <2>1 DEF WellChained
    <2>3. 1 \in DOMAIN q.chain
      BY <2>1, <2>2 DEF Ids
    <2> QED
      BY <1>1, <1>3, <2>2, <2>3
  <1>6. q.chain[1] # f.at
    <2>1. CASE ServedHere(f)
      <3>1. h.served = Append(f.h.served, f.at) /\ f.h.served \in Path
        BY <2>1, HistoryFields DEF TypeOK, Histories, h
      <3>2. n # 0 /\ n \in DOMAIN h.served /\ h.served[n] = f.at
        BY <3>1 DEF Path
      <3>3. h.policy[n] = f.at
        BY <1>1, <1>3, <3>2, SwitchesNumbered
      <3>4. n + 1 # 1 /\ n + 1 - 1 = n
        BY <1>1, <3>2
      <3> QED
        BY <1>4, <1>5, <3>3, <3>4 DEF WellChained
    <2>2. CASE ~ServedHere(f)
      <3>1. ~Serves(f.at, Encap(f))
        BY <1>2, <2>2 DEF ServedHere
      <3>2. q = Decapsulated(Encap(f))
        BY <1>2, <3>1 DEF AfterSfc, Served, Encap
      <3>3. q = Encap(f)
        BY <1>1, <3>2, EncapsulatedType DEF Decapsulated, Encap, Packet
      <3>4. ~Hit(f.at, "sf_processing", q.chain[1])
        BY <1>5, <3>1, <3>3 DEF Serves
      <3>5. Hit(f.at, "sf_processing", f.at)
        <4>1. f.at \in DOMAIN Config[f.at]["sf_processing"]
          BY <1>1, SwitchesNumbered
        <4> QED
          BY <4>1, InstalledHits DEF OverlayTables
      <3> QED
        BY <3>4, <3>5
    <2> QED
      BY <2>1, <2>2
  <1>7. q.chain[1] \in DOMAIN Config[f.at]["sfc_egress"]
    BY <1>1, <1>4, <1>5, <1>6 DEF WellChained
  <1>8. Hit(f.at, "sfc_egress", q.chain[1])
    BY <1>7, InstalledHits DEF OverlayTables
  <1> QED
    BY <1>2, <1>5, <1>6, <1>7, <1>8 DEF SfcForwards

LEMMA SfcPort ==
  ASSUME NEW s \in Switch, NEW in, NEW p \in Packet,
         SfcForwards(s, AfterSfc(s, in, p)), NEW c \in Copies(s, in, p)
  PROVE  c.port = Config[s]["sfc_egress"][AfterSfc(s, in, p).chain[1]]
  <1> DEFINE q == AfterSfc(s, in, p)
             r == Ingress(s, in, p)
             x == Config[s]["sfc_egress"][q.chain[1]]
  <1>1. Forwarded(s, in, p) = Routed([q EXCEPT !.ttl = @ - 1], x)
    BY DEF Forwarded, SfcForward
  <1>2. r.mcast_grp = 0 /\ r.egress_spec = x
    BY <1>1 DEF Ingress, Routed
  <1> HIDE DEF r, x
  <1>3. c.port \in CopyPorts(s, r)
    BY DEF Copies, r
  <1>4. c.port = x
    BY <1>2, <1>3 DEF CopyPorts
  <1> QED
    BY <1>4 DEF x

LEMMA OverlayHolds ==
  ASSUME Installed(OverlayTables) PROVE Spec => []OverlayInv
<1> DEFINE Good(g) == /\ WellChained(g.h.policy, g.h.todo0)
                      /\ g.p.eth = "SFC" => /\ g.at = g.p.chain[1]
                                            /\ g.h.o.dscp # 0
<1>1. Init => OverlayInv
  BY DEF Init, OverlayInv
<1>2. TypeOK /\ ChainConsistent /\ HeaderInv /\ OverlayInv /\ [Next]_vars
        => OverlayInv'
  <2> SUFFICES ASSUME TypeOK, ChainConsistent, HeaderInv, OverlayInv,
                      [Next]_vars, NEW g \in frames' \ frames
               PROVE  Good(g)
    BY DEF OverlayInv
  <2>1. ASSUME NEW o \in Sent, g.h = NoHistory(o), g.p.eth # "SFC"
        PROVE  Good(g)
    BY <2>1 DEF NoHistory, WellChained
  <2>2. ASSUME NEW o \in Offered, IsSent(g, o)
        PROVE  Good(g)
    BY <2>1, <2>2, FromHostType DEF IsSent, Sent
  <2>3. ASSUME NEW x \in Probes, IsProbed(g, x)
        PROVE  Good(g)
    <3> DEFINE o == ProbeFrom(x)
    <3>1. o \in Sent
      BY DEF Sent
    <3>2. g.h = NoHistory(o) /\ g.p = [FromHost(o) EXCEPT !.ttl = 0]
      BY <2>3 DEF IsProbed
    <3> HIDE DEF o
    <3>3. g.p.eth # "SFC"
      BY <3>1, <3>2, FromHostAgrees
    <3> QED
      BY <2>1, <3>1, <3>2, <3>3
  <2>4. ASSUME NEW f \in frames, NEW c \in Outputs(f), IsPassedOn(g, f, c)
        PROVE  Good(g)
    <3> DEFINE q == AfterSfc(f.at, f.in, f.p)
    <3>1. /\ f.at \in Switch /\ f.p \in Packet /\ Forward(f)
          /\ History(f).o = f.h.o /\ g.h = History(f) /\ g.p = c.p
      BY <2>4, Forwarding DEF IsPassedOn
    <3>2. WellChained(g.h.policy, g.h.todo0)
      BY <3>1, StaysWellChained
    <3>3. SameChain(g.p, q)
      BY <3>1, CopyOfFrame
    <3>4. ASSUME g.p.eth = "SFC"
          PROVE  g.at = g.p.chain[1] /\ g.h.o.dscp # 0
      <4>1. q.eth = "SFC" /\ q.chain = g.p.chain
        BY <3>3, <3>4 DEF SameChain
      <4>2. /\ SfcForwards(f.at, q) /\ f.h.o.dscp # 0
            /\ q.chain[1] \in DOMAIN Config[f.at]["sfc_egress"]
        BY <4>1, SfcGoesOn
      <4>3. c.port = Config[f.at]["sfc_egress"][q.chain[1]]
        BY <3>1, <4>2, SfcPort DEF Outputs
      <4>4. Link[<<f.at, c.port>>][1] = q.chain[1]
        BY <3>1, <4>2, <4>3, OverlayLeads
      <4>5. g.at = Link[<<f.at, c.port>>][1]
        BY <2>4 DEF IsPassedOn
      <4> QED
        BY <3>1, <4>1, <4>2, <4>4, <4>5
    <3> QED
      BY <3>2, <3>4
  <2> QED
    BY <2>2, <2>3, <2>4, NewFrames
<1> QED
  BY <1>1, <1>2, TypeCorrect, ChainsConsistent, HeadersAgree, PTL DEF Spec

(* No port of a host is on the overlay. *)
LEMMA HostsAreOffOverlay ==
  ASSUME TypeOK, ChainConsistent, HeaderInv, OverlayInv,
         Installed(OverlayTables), NEW f \in frames, Forward(f),
         NEW c \in Outputs(f), <<f.at, c.port>> \in DOMAIN HostAt
  PROVE  c.p.eth # "SFC" /\ AfterSfc(f.at, f.in, f.p).eth # "SFC"
  <1> DEFINE q == AfterSfc(f.at, f.in, f.p)
  <1>1. f.at \in Switch /\ f.p \in Packet /\ SameChain(c.p, q)
    BY Forwarding, CopyOfFrame
  <1>2. ASSUME q.eth = "SFC"
        PROVE  FALSE
    <2>1. /\ SfcForwards(f.at, q)
          /\ q.chain[1] \in DOMAIN Config[f.at]["sfc_egress"]
      BY <1>2, SfcGoesOn
    <2>2. c.port = Config[f.at]["sfc_egress"][q.chain[1]]
      BY <1>1, <2>1, SfcPort DEF Outputs
    <2>3. <<f.at, c.port>> \in DOMAIN Link
      BY <1>1, <2>1, <2>2, OverlayLeads
    <2> QED
      BY <2>3, HostsAtEdge
  <1> QED
    BY <1>1, <1>2 DEF SameChain

(***************************************************************************)
(* Where the overlay and the sinks are in place before the first packet    *)
(* (sf_processing, sfc_egress, tb_set_sink), a host never sees that SFC or *)
(* INT were there (sfc_decapsulation, int_sink): header, DSCP and length   *)
(* are the sender's.  Classifiers, sources and all other entries may come  *)
(* in any order while packets are under way: the safe order of a roll-out. *)
(***************************************************************************)
THEOREM HostsSeeOriginals ==
  ASSUME Installed(OverlayTables), Installed({"tb_set_sink"})
  PROVE  Spec => []HostSeesOriginal
<1> DEFINE Original(d) == /\ d.p.eth = d.h.o.eth /\ d.p.chain = << >>
                          /\ ~d.p.int /\ d.p.stack = << >>
                          /\ d.p.dscp = d.h.o.dscp /\ d.p.len = d.h.o.len
<1>1. Init => HostSeesOriginal
  BY DEF Init, HostSeesOriginal
<1>2. /\ TypeOK /\ ChainConsistent /\ HeaderInv /\ OverlayInv
      /\ HostSeesOriginal /\ [Next]_vars
      => HostSeesOriginal'
  <2> SUFFICES ASSUME TypeOK, ChainConsistent, HeaderInv, OverlayInv,
                      HostSeesOriginal, [Next]_vars,
                      NEW d \in delivered' \ delivered
               PROVE  Original(d)
    BY DEF HostSeesOriginal
  <2>0. PICK f \in frames : \E c \in Outputs(f) : IsDelivered(d, f, c)
    BY NewDeliveries
  <2>1. PICK c \in Outputs(f) : IsDelivered(d, f, c)
    BY <2>0
  <2>2. /\ Forward(f) /\ <<f.at, c.port>> \in DOMAIN HostAt
        /\ d.p = c.p /\ d.h = History(f) /\ History(f).o = f.h.o
    BY <2>1, Forwarding DEF IsDelivered
  <2>3. c.p.eth # "SFC"
    BY <2>2, HostsAreOffOverlay
  <2>4. /\ ~c.p.int /\ EthAgrees(c.p, f.h.o)
        /\ IntAgrees(c.p, f.h.o, Len(f.h.trace) + 1)
    BY <2>2, CopyOfFrame
  <2> QED
    BY <2>2, <2>3, <2>4 DEF IntAgrees, EthAgrees
<1> QED
  BY <1>1, <1>2, TypeCorrect, ChainsConsistent, HeadersAgree, OverlayHolds, PTL
     DEF Spec
-----------------------------------------------------------------------------
(* The service: a packet is given its policy by the first switch, and has  *)
(* been through all of it when it leaves the overlay.                      *)

ServiceTables == OverlayTables \cup {"sfc_classifier", "tb_set_source"}

AtItsHost(f) ==
  /\ f.p = FromHost(f.h.o) /\ f.h = NoHistory(f.h.o)
  /\ <<f.at, f.in>> \in DOMAIN HostAt /\ HostAt[<<f.at, f.in>>] = f.h.o.host
HasPolicy(h) ==
  /\ Policy(h.o) \in Seq(Nat) /\ h.todo0 = Len(Policy(h.o))
  /\ \A i \in 1 .. h.todo0 : h.policy[i] = Policy(h.o)[i]
ServiceInv ==
  \A f \in frames :
    /\ f.h.o \in Offered /\ f.h.trace = << >> => AtItsHost(f)
    /\ f.h.o \in Offered /\ f.h.trace # << >> => HasPolicy(f.h)
    /\ f.h.o \notin Offered => IsProbe(f.p)

LEMMA OfferedIsForwarded ==
  ASSUME TypeOK, ServiceInv, NEW f \in frames, NEW c \in Outputs(f)
  PROVE  f.h.o \in Offered
  BY ProbesAreNotForwarded DEF ServiceInv, Outputs, TypeOK

LEMMA PolicyOfHost ==
  ASSUME NEW o \in Offered, NEW x \in DOMAIN HostAt, HostAt[x] = o.host
  PROVE  LET c == Config[x[1]]["sfc_classifier"]
         IN  Policy(o) = IF o.l4 # NoL4 /\ o.dscp # 0 /\ o.dscp \in DOMAIN c
                         THEN SubSeq(c[o.dscp].chain, 1, c[o.dscp].sc)
                         ELSE << >>
  <1>1. (CHOOSE y \in DOMAIN HostAt : HostAt[y] = o.host) = x
    BY HostsAtEdge
  <1> QED
    BY <1>1 DEF Policy

LEMMA FirstSwitchGivesPolicy ==
  ASSUME TypeOK, HeaderInv, Installed(ServiceTables), NEW f \in frames,
         f.h.o \in Offered, AtItsHost(f)
  PROVE  HasPolicy(History(f))
  <1> DEFINE o == f.h.o
             h == History(f)
             C == Config[f.at]["sfc_classifier"]
             e == C[o.dscp]
             given == o.l4 # NoL4 /\ o.dscp # 0 /\ o.dscp \in DOMAIN C
  <1>1. /\ f.at \in Switch /\ h.o = o /\ f.h.todo0 = 0
        /\ f.p.l4 = o.l4 /\ f.p.dscp = o.dscp /\ f.p.eth = o.eth /\ ~f.p.int
        /\ o.eth # "SFC" /\ DscpAtIngress(f.p) = o.dscp
    <2>1. f.h.todo0 = 0
      BY DEF AtItsHost, NoHistory
    <2>2. FromHost(o).eth # "SFC"
      BY FromHostType DEF Sent
    <2> QED
      BY <2>1, <2>2, HistoryGrows DEF AtItsHost, FromHost, TypeOK, DscpAtIngress
  <1>2. Policy(o) = IF given THEN SubSeq(e.chain, 1, e.sc) ELSE << >>
    <2>1. <<f.at, f.in>>[1] = f.at
      OBVIOUS
    <2> QED
      BY <2>1, PolicyOfHost DEF AtItsHost
  <1>3. CASE given
    <2>1. NewPolicy(f)
      <3>1. f.in \in DOMAIN Config[f.at]["tb_set_source"]
        <4>1. <<f.at, f.in>>[1] = f.at /\ <<f.at, f.in>>[2] = f.in
          OBVIOUS
        <4> QED
          BY <4>1, EdgePortsMarked DEF AtItsHost
      <3>2. Hit(f.at, "tb_set_source", f.in)
        BY <3>1, InstalledHits DEF ServiceTables
      <3>3. Hit(f.at, "sfc_classifier", f.p.dscp)
        BY <1>1, <1>3, InstalledHits DEF ServiceTables
      <3>4. HasL4(f.p)
        BY <1>1, <1>3, HostsAtEdge DEF HasL4, HasIPv4
      <3>5. Encap(f).eth = "SFC"
        BY <1>1, <3>2, <3>3, <3>4 DEF Encap, Encapsulated, IsSource, TypeOK, Packet
      <3> QED
        BY <1>1, <1>3, <3>5 DEF NewPolicy
    <2>2. h.policy = e.chain /\ h.todo0 = e.sc
      BY <1>1, <2>1, HistoryFields, ClassifierLeads
    <2>3. /\ e.chain \in Seq(Nat) /\ Len(e.chain) = MAX_HOPS
          /\ e.sc \in 1 .. MAX_HOPS
      BY <1>1, <1>3, TablesTyped
    <2>4. /\ Policy(o) \in Seq(Nat) /\ Len(Policy(o)) = e.sc
          /\ \A i \in 1 .. e.sc : Policy(o)[i] = e.chain[i]
      <3> DEFINE a == e.chain
                 n == e.sc
      <3>1. Policy(o) = SubSeq(a, 1, n)
        BY <1>2, <1>3
      <3>2. a \in Seq(Nat) /\ n \in 1 .. Len(a)
        BY <2>3 DEF MAX_HOPS
      <3> HIDE DEF a, n
      <3>3. /\ SubSeq(a, 1, n) \in Seq(Nat) /\ Len(SubSeq(a, 1, n)) = n
            /\ \A i \in 1 .. n : SubSeq(a, 1, n)[i] = a[i]
        BY <3>2
      <3> QED
        BY <3>1, <3>3 DEF a, n
    <2> HIDE DEF h, e
    <2> QED
      BY <1>1, <2>2, <2>4 DEF HasPolicy, h
  <1>4. CASE ~given
    <2>1. ~NewPolicy(f)
      BY <1>1, <1>4, ClassifierLeads DEF NewPolicy, HasL4
    <2>2. h.todo0 = 0
      BY <1>1, <2>1, HistoryFields
    <2> HIDE DEF h, given
    <2>3. Policy(o) = << >>
      BY <1>2, <1>4
    <2> QED
      BY <1>1, <2>2, <2>3 DEF HasPolicy, h
  <1> QED
    BY <1>3, <1>4

LEMMA PolicyStays ==
  ASSUME TypeOK, ChainConsistent, HeaderInv, ServiceInv, Installed(ServiceTables),
         NEW f \in frames, f.h.o \in Offered
  PROVE  HasPolicy(History(f))
  <1>1. CASE f.h.trace = << >>
    BY <1>1, FirstSwitchGivesPolicy DEF ServiceInv
  <1>2. CASE f.h.trace # << >>
    <2>1. ~NewPolicy(f)
      <3> SUFFICES ASSUME NewPolicy(f) PROVE FALSE
        OBVIOUS
      <3>1. f.h = NoHistory(f.h.o)
        BY ClassifierLeads DEF ChainConsistent
      <3>2. NoHistory(f.h.o).trace = << >>
        BY DEF NoHistory
      <3> QED
        BY <1>2, <3>1, <3>2
    <2>2. History(f).policy = f.h.policy /\ History(f).todo0 = f.h.todo0
      BY <2>1, HistoryFields
    <2>3. History(f).o = f.h.o
      BY HistoryGrows
    <2> QED
      BY <1>2, <2>2, <2>3 DEF ServiceInv, HasPolicy
  <1> QED
    BY <1>1, <1>2

LEMMA ServiceHolds ==
  ASSUME Installed(ServiceTables) PROVE Spec => []ServiceInv
<1> DEFINE Good(g) ==
      /\ g.h.o \in Offered /\ g.h.trace = << >> => AtItsHost(g)
      /\ g.h.o \in Offered /\ g.h.trace # << >> => HasPolicy(g.h)
      /\ g.h.o \notin Offered => IsProbe(g.p)
<1>1. Init => ServiceInv
  BY DEF Init, ServiceInv
<1>2. TypeOK /\ ChainConsistent /\ HeaderInv /\ ServiceInv /\ [Next]_vars
        => ServiceInv'
  <2> SUFFICES ASSUME TypeOK, ChainConsistent, HeaderInv, ServiceInv,
                      [Next]_vars, NEW g \in frames' \ frames
               PROVE  Good(g)
    BY DEF ServiceInv
  <2>1. ASSUME NEW o \in Offered, IsSent(g, o)
        PROVE  Good(g)
    BY <2>1 DEF IsSent, AtItsHost, NoHistory
  <2>2. ASSUME NEW x \in Probes, IsProbed(g, x)
        PROVE  Good(g)
    <3>1. /\ g.h.o = ProbeFrom(x) /\ g.h.o.eth = "LLDP"
          /\ IsProbe(g.p)
      BY <2>2 DEF IsProbed, NoHistory, ProbeFrom, IsProbe, FromHost
    <3> QED
      BY <3>1, ProbesStayPut
  <2>3. ASSUME NEW f \in frames, NEW c \in Outputs(f), IsPassedOn(g, f, c)
        PROVE  Good(g)
    <3>1. /\ g.h = History(f) /\ History(f).o = f.h.o
          /\ Len(g.h.trace) = Len(f.h.trace) + 1 /\ Len(f.h.trace) \in Nat
      BY <2>3, Forwarding DEF IsPassedOn
    <3>2. f.h.o \in Offered
      BY OfferedIsForwarded
    <3>3. HasPolicy(g.h)
      BY <3>1, <3>2, PolicyStays
    <3>4. g.h.trace # << >>
      BY <3>1
    <3> QED
      BY <3>1, <3>2, <3>3, <3>4
  <2> QED
    BY <2>1, <2>2, <2>3, NewFrames
<1> QED
  BY <1>1, <1>2, TypeCorrect, ChainsConsistent, HeadersAgree, PTL DEF Spec

(* A packet that leaves the SFC stage of a switch without a chain has been *)
(* served by the switches of its policy.                                   *)
LEMMA AllServed ==
  ASSUME TypeOK, ChainConsistent, HeaderInv, ServiceInv, Installed(ServiceTables),
         NEW f \in frames, f.h.o \in Offered,
         AfterSfc(f.at, f.in, f.p).eth # "SFC"
  PROVE  History(f).served = Policy(f.h.o)
  <1> DEFINE h == History(f)
             a == h.served
             b == Policy(f.h.o)
  <1>1. h \in Histories /\ h.o = f.h.o
    BY HistoryType, HistoryGrows
  <1>2. /\ Len(a) = h.todo0
        /\ \A i \in DOMAIN a :
             h.policy[i] \in DOMAIN Config[a[i]]["sf_processing"]
    BY SfcStageConsistent DEF ChainMatchesHistory
  <1>3. b \in Seq(Nat) /\ h.todo0 = Len(b) /\ \A i \in 1 .. Len(b) : h.policy[i] = b[i]
    BY <1>1, PolicyStays DEF HasPolicy
  <1> HIDE DEF h
  <1>4. a \in Seq(Switch)
    BY <1>1 DEF Histories, Path
  <1> HIDE DEF a, b
  <1>5. DOMAIN a = 1 .. Len(b) /\ DOMAIN b = 1 .. Len(b) /\ Len(a) = Len(b)
    BY <1>2, <1>3, <1>4
  <1>6. ASSUME NEW i \in 1 .. Len(a)
        PROVE  a[i] = b[i]
    <2>1. a[i] \in Switch /\ h.policy[i] \in DOMAIN Config[a[i]]["sf_processing"]
      BY <1>2, <1>4, <1>5, <1>6
    <2> QED
      BY <1>3, <1>5, <1>6, <2>1, SwitchesNumbered
  <1>7. a \in [1 .. Len(b) -> Switch] /\ b \in [1 .. Len(b) -> Nat]
    BY <1>3, <1>4, <1>5
  <1>8. a = b
    BY <1>5, <1>6, <1>7
  <1> QED
    BY <1>8 DEF a, b, h

(***************************************************************************)
(* A host never gets a packet that has missed a function of its policy or  *)
(* has been through them in another order (sfc_classifier, sf_processing,  *)
(* sfc_decapsulation), once the tables of the SFC service and the ports of *)
(* the sources are in place; telemetry and routes may come in any order.   *)
(***************************************************************************)
THEOREM ServedFirst ==
  ASSUME Installed(ServiceTables) PROVE Spec => []ServedBeforeDelivery
<1>0. Installed(OverlayTables)
  BY DEF Installed, ServiceTables
<1>1. Init => ServedBeforeDelivery
  BY DEF Init, ServedBeforeDelivery
<1>2. /\ TypeOK /\ ChainConsistent /\ HeaderInv /\ OverlayInv /\ ServiceInv
      /\ ServedBeforeDelivery /\ [Next]_vars
      => ServedBeforeDelivery'
  <2> SUFFICES ASSUME TypeOK, ChainConsistent, HeaderInv, OverlayInv, ServiceInv,
                      ServedBeforeDelivery, [Next]_vars,
                      NEW d \in delivered' \ delivered
               PROVE  d.h.served = Policy(d.h.o)
    BY DEF ServedBeforeDelivery
  <2>0. PICK f \in frames : \E c \in Outputs(f) : IsDelivered(d, f, c)
    BY NewDeliveries
  <2>1. PICK c \in Outputs(f) : IsDelivered(d, f, c)
    BY <2>0
  <2>2. /\ Forward(f) /\ <<f.at, c.port>> \in DOMAIN HostAt
        /\ d.h = History(f) /\ History(f).o = f.h.o
    BY <2>1, Forwarding DEF IsDelivered
  <2>3. AfterSfc(f.at, f.in, f.p).eth # "SFC"
    BY <1>0, <2>2, HostsAreOffOverlay
  <2>4. f.h.o \in Offered
    BY OfferedIsForwarded
  <2> QED
    BY <2>2, <2>3, <2>4, AllServed
<1> QED
  BY <1>0, <1>1, <1>2, TypeCorrect, ChainsConsistent, HeadersAgree, OverlayHolds,
     ServiceHolds, PTL DEF Spec
-----------------------------------------------------------------------------
(* The addresses of a packet: those it was sent with, unless it has left   *)
(* the overlay at a multicaster that turns its DSCP into a group.          *)

ReceiverTables == ServiceTables \cup {"multicaster", "multicast_dst_addr"}
NoneToGroups ==
  \A o \in Offered : \A s \in Switch : o.dmac \notin DOMAIN Config[s]["multicast"]

Turn(o) ==
  LET c == Policy(o)
  IN  IF c = << >> THEN << >> ELSE Config[c[Len(c)]]["multicast_dst_addr"]
Turned(o) == o.dscp \in DOMAIN Turn(o)
AsAddressed(p, o) ==
  p.dst = o.dst /\ \A s \in Switch : p.dmac \notin DOMAIN Config[s]["multicast"]
AsGroup(p, o) == p.dst = Turn(o)[o.dscp].ip /\ p.dmac = Turn(o)[o.dscp].mac
OffOverlay(f) == f.h.trace # << >> /\ f.p.eth # "SFC"
Addressed(f) ==
  IF OffOverlay(f)
  THEN /\ ~IsMulticaster(f.at)
       /\ IF Turned(f.h.o) THEN AsGroup(f.p, f.h.o) ELSE AsAddressed(f.p, f.h.o)
  ELSE AsAddressed(f.p, f.h.o)
ReceiverInv == \A f \in frames : f.h.o \in Offered => Addressed(f)

(* By route or by group: the two ways a port gets a copy in IP forwarding. *)
ByRoute(s, q, r, port) ==
  /\ r.mcast_grp = 0
  /\ \E k \in DOMAIN Config[s]["ipv4_lpm"] :
       LET m == Config[s]["ipv4_lpm"][k]
       IN  /\ k[1] = q.dst /\ r.p.dst = q.dst /\ r.p.dmac = m
           /\ m \in DOMAIN Config[s]["unicast"] /\ port = Config[s]["unicast"][m]
ByGroup(s, q, r, port) ==
  /\ r.mcast_grp # 0 /\ port \in GroupPorts(s, q.dmac)
  /\ q.dmac \in DOMAIN Config[s]["multicast"]
  /\ r.p.dst = q.dst /\ r.p.dmac = q.dmac

LEMMA L3Goes ==
  ASSUME NEW s \in Switch, NEW p \in Packet, NEW port,
         port \in CopyPorts(s, L3Forward(s, p))
  PROVE  LET q == SetDstAddr(s, p)
             r == L3Forward(s, p)
         IN  ByRoute(s, q, r, port) \/ ByGroup(s, q, r, port)
  <1> DEFINE q == SetDstAddr(s, p)
             r == L3Forward(s, p)
             u == Ipv4Forward(s, q)
             m == [is_multicaster |-> Multicaster(s)]
  <1>1. q \in Packet
    BY SetDstAddrType
  <1> HIDE DEF q
  <1>2. CASE L3Hit(s, q)
    <2>1. r.p = u /\ r.mcast_grp = 0 /\ r.egress_spec = UnicastPort(s, u)
      BY <1>2 DEF L3Forward, Routed, q
    <2>2. PICK k \in DOMAIN Config[s]["ipv4_lpm"] :
            k[1] = q.dst /\ NextMac(s, q) = Config[s]["ipv4_lpm"][k]
      <3>1. CASE Hit(s, "ipv4_lpm", L3Keys(q)[1])
        BY <3>1 DEF Hit, L3Keys, NextMac
      <3>2. CASE ~Hit(s, "ipv4_lpm", L3Keys(q)[1])
        <4>1. L3Keys(q)[2] \in DOMAIN Config[s]["ipv4_lpm"]
          BY <1>2, <3>2 DEF L3Hit, Hit
        <4>2. L3Keys(q)[2][1] = q.dst
          BY DEF L3Keys
        <4> QED
          BY <3>2, <4>1, <4>2 DEF NextMac
      <3> QED
        BY <3>1, <3>2
    <2>3. u.dst = q.dst /\ u.dmac = NextMac(s, q)
      BY <1>1 DEF Ipv4Forward, Packet
    <2> HIDE DEF r, u
    <2>4. port = UnicastPort(s, u) /\ port # DropPort
      BY <2>1 DEF CopyPorts, r
    <2>5. u.dmac \in DOMAIN Config[s]["unicast"] /\ port = Config[s]["unicast"][u.dmac]
      BY <2>4 DEF UnicastPort, Hit
    <2> QED
      BY <2>1, <2>2, <2>3, <2>5 DEF ByRoute, q, r
  <1>3. CASE ~L3Hit(s, q) /\ Hit(s, "multicast", q.dmac)
    <2> DEFINE g == Config[s]["multicast"][q.dmac]
    <2>1. q.dmac \in DOMAIN Config[s]["multicast"] /\ g # 0
      BY <1>3, TablesTyped DEF Hit
    <2>2. r.p = q /\ r.mcast_grp = g
      BY <1>3 DEF L3Forward, SetMulticastGroup, Routed, q
    <2> HIDE DEF r, g
    <2>3. Hit(s, "groups", g) /\ port \in Config[s]["groups"][g]
      BY <2>1, <2>2 DEF CopyPorts, r
    <2>4. port \in GroupPorts(s, q.dmac)
      BY <2>1, <2>3 DEF GroupPorts, Hit, g
    <2> QED
      BY <2>1, <2>2, <2>4 DEF ByGroup, q, r
  <1>4. CASE ~L3Hit(s, q) /\ ~Hit(s, "multicast", q.dmac)
    <2>1. r.mcast_grp = 0 /\ r.egress_spec = DropPort
      BY <1>4 DEF L3Forward, Routed, q
    <2> HIDE DEF r
    <2> QED
      BY <2>1 DEF CopyPorts, r
  <1> QED
    BY <1>2, <1>3, <1>4

(* Egress and the INT source leave the addresses and the group alone. *)
LEMMA CopyAddresses ==
  ASSUME NEW s \in Switch, NEW in, NEW p \in Packet, ~TtlExpired(p),
         NEW c \in Copies(s, in, p)
  PROVE  LET r == Forwarded(s, in, p)
         IN  /\ c.p.dst = r.p.dst /\ c.p.dmac = r.p.dmac
             /\ c.port \in CopyPorts(s, r)
             /\ Ingress(s, in, p).mcast_grp = r.mcast_grp
             /\ c.p = Egress(s, Ingress(s, in, p))
  <1> DEFINE r == Forwarded(s, in, p)
             i == Ingress(s, in, p)
             Same(x, y) == x.dst = y.dst /\ x.dmac = y.dmac
  <1>1. r.p \in Packet /\ i.p = IntSource(s, in, r.p)
    BY ForwardedDst
  <1>2. c.p = Egress(s, i) /\ c.port \in CopyPorts(s, i)
    BY DEF Copies
  <1>3. i.mcast_grp = r.mcast_grp /\ i.egress_spec = r.egress_spec
    BY DEF Ingress, Forwarded, SfcForward, L3Forward, Routed, SetMulticastGroup
  <1> HIDE DEF i, r
  <1>4. i.p \in Packet /\ Same(i.p, r.p)
    <2> DEFINE x == r.p
    <2>1. x \in Packet /\ i.p = IntSource(s, in, x)
      BY <1>1
    <2> HIDE DEF x
    <2>2. IntSource(s, in, x) \in Packet
      BY <2>1, IntSourceType
    <2>3. IntSource(s, in, x).dst = x.dst /\ IntSource(s, in, x).dmac = x.dmac
      BY <2>1 DEF IntSource, Packet
    <2>4. i.p \in Packet /\ i.p.dst = x.dst /\ i.p.dmac = x.dmac
      BY <2>1, <2>2, <2>3
    <2> QED
      BY <2>4 DEF x
  <1>5. IntTransit(s, i.p) \in Packet /\ Same(IntTransit(s, i.p), i.p)
    BY <1>4, IntTransitType DEF IntTransit, Packet
  <1>6. Same(Egress(s, i), i.p)
    BY <1>5 DEF Egress, IntSink, Packet
  <1>7. CopyPorts(s, i) = CopyPorts(s, r)
    BY <1>3 DEF CopyPorts
  <1> QED
    BY <1>2, <1>3, <1>4, <1>6, <1>7 DEF i, r

(* A packet without a chain is past the overlay, or leaves it here, after  *)
(* its last function, or has just been sent and needs none.                *)
LEMMA LeavesOverlay ==
  ASSUME TypeOK, ChainConsistent, HeaderInv, OverlayInv, ServiceInv,
         Installed(ServiceTables), NEW f \in frames, f.h.o \in Offered,
         AfterSfc(f.at, f.in, f.p).eth # "SFC", ~OffOverlay(f)
  PROVE  \/ Turn(f.h.o) = << >> /\ ~IsMulticaster(f.at)
         \/ Turn(f.h.o) = Config[f.at]["multicast_dst_addr"]
  <1> DEFINE o == f.h.o
             b == Policy(o)
  <1>1. History(f).served = b /\ f.h.served \in Seq(Switch)
    BY AllServed DEF TypeOK, Histories, Path
  <1>2. CASE ServedHere(f)
    <2>1. b = Append(f.h.served, f.at)
      BY <1>1, <1>2, HistoryFields
    <2> HIDE DEF b
    <2>2. b # << >> /\ b[Len(b)] = f.at
      BY <1>1, <2>1
    <2> QED
      BY <2>2 DEF Turn, b
  <1>3. CASE ~ServedHere(f)
    <2>1. f.p.eth # "SFC"
      <3> SUFFICES ASSUME f.p.eth = "SFC" PROVE FALSE
        OBVIOUS
      <3>1. f.p \in Packet /\ DscpAtIngress(f.p) # 0 /\ f.p.sc > 0
        BY DscpIsKnown DEF OverlayInv, TypeOK, ChainConsistent, ChainMatchesHistory
      <3>2. Encap(f) = f.p
        BY DEF Encap, Encapsulated
      <3>3. AfterSfc(f.at, f.in, f.p) = Decapsulated(f.p)
        BY <1>3, <3>1, <3>2 DEF AfterSfc, ServedHere, Served, Encap
      <3>4. Decapsulated(f.p) = f.p
        BY <3>1 DEF Decapsulated, Packet, Byte
      <3> QED
        BY <3>3, <3>4
    <2>2. f.h.trace = << >> /\ AtItsHost(f)
      BY <2>1 DEF OffOverlay, ServiceInv
    <2>3. f.h.served = << >>
      BY <2>2 DEF AtItsHost, NoHistory
    <2>4. b = << >>
      BY <1>1, <1>3, <2>3, HistoryFields
    <2>5. ~IsMulticaster(f.at)
      <3>1. <<f.at, f.in>>[1] = f.at
        OBVIOUS
      <3> QED
        BY <2>2, <3>1, EdgePortsMarked DEF AtItsHost, IsMulticaster
    <2> QED
      BY <2>4, <2>5 DEF Turn
  <1> QED
    BY <1>2, <1>3

LEMMA Readdressed ==
  ASSUME TypeOK, ChainConsistent, HeaderInv, OverlayInv, ServiceInv,
         ReceiverInv, Installed(ReceiverTables),
         NEW f \in frames, f.h.o \in Offered,
         AfterSfc(f.at, f.in, f.p).eth # "SFC"
  PROVE  LET m == SetDstAddr(f.at, AfterSfc(f.at, f.in, f.p))
         IN  IF Turned(f.h.o)
             THEN AsGroup(m, f.h.o) /\ (IsMulticaster(f.at) <=> ~OffOverlay(f))
             ELSE AsAddressed(m, f.h.o)
  <1> DEFINE o == f.h.o
             q == AfterSfc(f.at, f.in, f.p)
             m == SetDstAddr(f.at, q)
             C == Config[f.at]["multicast_dst_addr"]
  <1>0. Installed(ServiceTables)
    BY DEF Installed, ReceiverTables
  <1>1. /\ f.at \in Switch /\ q \in Packet /\ Addressed(f)
        /\ q.dst = f.p.dst /\ q.dmac = f.p.dmac /\ DscpAtIngress(q) = o.dscp
    <2>1. f.at \in Switch /\ f.p \in Packet /\ Addressed(f)
      BY DEF TypeOK, ReceiverInv
    <2>2. q \in Packet /\ SameInt(q, f.p) /\ q.dst = f.p.dst /\ q.dmac = f.p.dmac
      BY <2>1, AfterSfcType, AfterSfcKeepsInt
    <2>3. DscpAtIngress(q) = DscpAtIngress(f.p)
      BY <2>2 DEF SameInt, DscpAtIngress
    <2> QED
      BY <2>1, <2>2, <2>3, DscpIsKnown
  <1>2. ~IsMulticaster(f.at) => m = q
    BY DEF IsMulticaster, SetDstAddr, Multicaster, Hit
  <1>3. CASE OffOverlay(f)
    BY <1>1, <1>2, <1>3 DEF Addressed, AsGroup, AsAddressed
  <1>4. CASE ~OffOverlay(f) /\ Turn(o) = << >> /\ ~IsMulticaster(f.at)
    BY <1>1, <1>2, <1>4 DEF Addressed, AsAddressed, Turned
  <1>5. CASE ~OffOverlay(f) /\ Turn(o) = C
    <2>1. CASE Turned(o)
      <3>1. o.dscp \in DOMAIN C
        BY <1>5, <2>1 DEF Turned
      <3>2. IsMulticaster(f.at)
        BY <1>1, <3>1, GroupsLead
      <3>3. Multicaster(f.at) /\ Hit(f.at, "multicast_dst_addr", o.dscp)
        BY <3>1, <3>2, InstalledHits DEF ReceiverTables, Multicaster, IsMulticaster
      <3>4. m = [q EXCEPT !.dmac = C[o.dscp].mac, !.dst = C[o.dscp].ip]
        BY <1>1, <3>3 DEF SetDstAddr
      <3>5. m.dst = C[o.dscp].ip /\ m.dmac = C[o.dscp].mac
        BY <1>1, <3>4 DEF Packet
      <3> QED
        BY <1>5, <2>1, <3>2, <3>5 DEF AsGroup
    <2>2. CASE ~Turned(o)
      <3>1. ~Hit(f.at, "multicast_dst_addr", DscpAtIngress(q))
        BY <1>1, <1>5, <2>2 DEF Turned, Hit
      <3>2. m = q
        BY <3>1 DEF SetDstAddr
      <3> QED
        BY <1>1, <1>5, <2>2, <3>2 DEF Addressed, AsAddressed
    <2> QED
      BY <2>1, <2>2
  <1> QED
    BY <1>0, <1>3, <1>4, <1>5, LeavesOverlay

(* Where a copy of a packet without a chain goes, and as what: to a host   *)
(* it is for, or over a link to a switch that is no multicaster.           *)
Leads(f, c) ==
  IF Turned(f.h.o)
  THEN /\ AsGroup(c.p, f.h.o)
       /\ c.port \in GroupPorts(f.at, Turn(f.h.o)[f.h.o.dscp].mac)
       /\ IsMulticaster(f.at) <=> ~OffOverlay(f)
  ELSE /\ AsAddressed(c.p, f.h.o)
       /\ \A e \in Outputs(f) : e.port = c.port
       /\ <<f.at, c.port>> \in DOMAIN HostAt =>
            HostAt[<<f.at, c.port>>] = f.h.o.dst
       /\ <<f.at, c.port>> \in DOMAIN Link =>
            ~IsMulticaster(Link[<<f.at, c.port>>][1])

(* The entry that turns a packet into multicast is one of some switch. *)
LEMMA TurnIsAtSwitch ==
  ASSUME NEW o, Turned(o), NEW h, HasPolicy(h), h.o = o,
         WellChained(h.policy, h.todo0)
  PROVE  \E t \in Switch : /\ Turn(o) = Config[t]["multicast_dst_addr"]
                           /\ o.dscp \in DOMAIN Config[t]["multicast_dst_addr"]
  <1> DEFINE b == Policy(o)
  <1>1. b # << >>
    BY DEF Turned, Turn
  <1>2. b \in Seq(Nat) /\ h.todo0 = Len(b) /\ \A i \in 1 .. Len(b) : h.policy[i] = b[i]
    BY DEF HasPolicy
  <1> HIDE DEF b
  <1>3. Len(b) \in 1 .. Len(b)
    BY <1>1, <1>2
  <1>4. b[Len(b)] \in Switch
    BY <1>2, <1>3 DEF WellChained
  <1>5. Turn(o) = Config[b[Len(b)]]["multicast_dst_addr"]
    BY <1>1 DEF Turn, b
  <1> QED
    BY <1>4, <1>5 DEF Turned

LEMMA LeadsOn ==
  ASSUME TypeOK, ChainConsistent, HeaderInv, OverlayInv, ServiceInv,
         ReceiverInv, Installed(ReceiverTables),
         NEW f \in frames, Forward(f), f.h.o \in Offered,
         AfterSfc(f.at, f.in, f.p).eth # "SFC", NEW c \in Outputs(f)
  PROVE  Leads(f, c)
  <1> DEFINE o == f.h.o
             s == f.at
             q == AfterSfc(s, f.in, f.p)
             m == SetDstAddr(s, q)
             r == Forwarded(s, f.in, f.p)
             a == Turn(o)[o.dscp]
  <1>0. Installed(ServiceTables)
    BY DEF Installed, ReceiverTables
  <1>1. /\ s \in Switch /\ f.p \in Packet /\ ~TtlExpired(f.p) /\ q \in Packet
        /\ r = L3Forward(s, q)
    <2>1. s \in Switch /\ f.p \in Packet /\ ~TtlExpired(f.p)
      BY Forwarding
    <2>2. ~SfcForwards(s, q)
      BY DEF SfcForwards
    <2> QED
      BY <2>1, <2>2, AfterSfcType DEF Forwarded
  <1>2. /\ c.p.dst = r.p.dst /\ c.p.dmac = r.p.dmac
        /\ \A e \in Outputs(f) : e.port \in CopyPorts(s, r)
    <2>1. \A e \in Copies(s, f.in, f.p) :
            /\ e.p.dst = r.p.dst /\ e.p.dmac = r.p.dmac
            /\ e.port \in CopyPorts(s, r)
      BY <1>1, CopyAddresses
    <2> QED
      BY <2>1 DEF Outputs
  <1>3. IF Turned(o) THEN AsGroup(m, o) /\ (IsMulticaster(s) <=> ~OffOverlay(f))
                     ELSE AsAddressed(m, o)
    BY Readdressed
  <1>4. ByRoute(s, m, r, c.port) \/ ByGroup(s, m, r, c.port)
    BY <1>1, <1>2, L3Goes
  <1> HIDE DEF m, r, q
  <1>5. CASE Turned(o)
    <2>1. PICK t \in Switch : /\ Turn(o) = Config[t]["multicast_dst_addr"]
                              /\ o.dscp \in DOMAIN Config[t]["multicast_dst_addr"]
      <3>1. HasPolicy(History(f)) /\ History(f).o = o
        BY <1>0, PolicyStays, HistoryGrows
      <3>2. WellChained(History(f).policy, History(f).todo0)
        BY StaysWellChained
      <3> QED
        BY <1>5, <3>1, <3>2, TurnIsAtSwitch
    <2>2. \A k \in DOMAIN Config[s]["ipv4_lpm"] : k[1] # a.ip
      BY <1>1, <2>1, GroupsLead
    <2>3. m.dst = a.ip /\ m.dmac = a.mac
      BY <1>3, <1>5 DEF AsGroup
    <2>4. ByGroup(s, m, r, c.port)
      BY <1>4, <2>2, <2>3 DEF ByRoute
    <2> QED
      BY <1>2, <1>3, <1>5, <2>3, <2>4 DEF Leads, ByGroup, AsGroup
  <1>6. CASE ~Turned(o)
    <2>1. AsAddressed(m, o)
      BY <1>3, <1>6
    <2>2. ByRoute(s, m, r, c.port)
      BY <1>1, <1>4, <2>1 DEF ByGroup, AsAddressed
    <2>3. PICK k \in DOMAIN Config[s]["ipv4_lpm"] :
            LET d == Config[s]["ipv4_lpm"][k]
            IN  /\ k[1] = m.dst /\ r.p.dst = m.dst /\ r.p.dmac = d
                /\ d \in DOMAIN Config[s]["unicast"]
                /\ c.port = Config[s]["unicast"][d]
      BY <2>2 DEF ByRoute
    <2>4. AsAddressed(c.p, o)
      BY <1>1, <1>2, <2>1, <2>3, RoutesLead DEF AsAddressed
    <2>5. \A e \in Outputs(f) : e.port = c.port
      BY <1>2, <2>2 DEF ByRoute, CopyPorts
    <2>6. /\ <<s, c.port>> \in DOMAIN HostAt => HostAt[<<s, c.port>>] = o.dst
          /\ <<s, c.port>> \in DOMAIN Link =>
               ~IsMulticaster(Link[<<s, c.port>>][1])
      BY <1>1, <2>1, <2>3, RoutesLead DEF AsAddressed
    <2> QED
      BY <1>6, <2>4, <2>5, <2>6 DEF Leads
  <1> QED
    BY <1>5, <1>6

(* What GroupsLead says of the copies of a packet that has been turned.    *)
LEMMA GroupGoes ==
  ASSUME TypeOK, OverlayInv, ChainConsistent, HeaderInv, ServiceInv,
         Installed(ServiceTables),
         NEW f \in frames, f.h.o \in Offered, Turned(f.h.o),
         NEW c, Leads(f, c)
  PROVE  LET x == <<f.at, c.port>>
             a == Turn(f.h.o)[f.h.o.dscp]
         IN  /\ x \in DOMAIN HostAt => HostAt[x] \in Members[a.ip]
             /\ x \in DOMAIN Link =>
                  /\ ~OffOverlay(f) /\ ~IsMulticaster(Link[x][1])
                  /\ \A e : Leads(f, e) /\ <<f.at, e.port>> \in DOMAIN Link
                              /\ e.port # c.port
                       => Link[<<f.at, e.port>>][1] # Link[x][1]
  <1> DEFINE o == f.h.o
             a == Turn(o)[o.dscp]
  <1>1. PICK t \in Switch : /\ Turn(o) = Config[t]["multicast_dst_addr"]
                            /\ o.dscp \in DOMAIN Config[t]["multicast_dst_addr"]
    <2>1. HasPolicy(History(f)) /\ History(f).o = o
      BY PolicyStays, HistoryGrows
    <2>2. WellChained(History(f).policy, History(f).todo0)
      BY StaysWellChained
    <2> QED
      BY <2>1, <2>2, TurnIsAtSwitch
  <1>2. f.at \in Switch /\ \A e : Leads(f, e) => e.port \in GroupPorts(f.at, a.mac)
    BY DEF TypeOK, Leads
  <1>3. \A p \in GroupPorts(f.at, a.mac) :
          /\ <<f.at, p>> \in DOMAIN HostAt => HostAt[<<f.at, p>>] \in Members[a.ip]
          /\ <<f.at, p>> \in DOMAIN Link =>
               /\ IsMulticaster(f.at) /\ ~IsMulticaster(Link[<<f.at, p>>][1])
               /\ \A k \in GroupPorts(f.at, a.mac) \ {p} :
                    <<f.at, k>> \in DOMAIN Link =>
                      Link[<<f.at, p>>][1] # Link[<<f.at, k>>][1]
    <2> DEFINE d == o.dscp
    <2>1. a = Config[t]["multicast_dst_addr"][d]
      BY <1>1
    <2>2. d \in DOMAIN Config[t]["multicast_dst_addr"]
      BY <1>1
    <2> HIDE DEF a, d
    <2> QED
      BY <1>2, <2>1, <2>2, GroupsLead
  <1> QED
    BY <1>2, <1>3 DEF Leads

LEMMA OnlyFreshIsClassified ==
  ASSUME TypeOK, ChainConsistent, NEW f \in frames, NewPolicy(f)
  PROVE  f.h = NoHistory(f.h.o) /\ f.h.trace = << >>
  <1>1. f.h = NoHistory(f.h.o)
    BY ClassifierLeads DEF ChainConsistent
  <1>2. NoHistory(f.h.o).trace = << >>
    BY DEF NoHistory
  <1> QED
    BY <1>1, <1>2

(* On the overlay a packet keeps its addresses, and takes one port. *)
LEMMA OverlayKeepsAddresses ==
  ASSUME TypeOK, ChainConsistent, HeaderInv, OverlayInv, Installed(OverlayTables),
         NEW f \in frames, Forward(f), AfterSfc(f.at, f.in, f.p).eth = "SFC",
         NEW c \in Outputs(f)
  PROVE  /\ ~OffOverlay(f) /\ c.p.dst = f.p.dst /\ c.p.dmac = f.p.dmac
         /\ \A e \in Outputs(f) : e.port = c.port
  <1> DEFINE q == AfterSfc(f.at, f.in, f.p)
  <1>1. /\ f.at \in Switch /\ f.p \in Packet /\ ~TtlExpired(f.p)
        /\ q \in Packet /\ q.dst = f.p.dst /\ q.dmac = f.p.dmac
    <2>1. f.at \in Switch /\ f.p \in Packet /\ ~TtlExpired(f.p)
      BY Forwarding
    <2> QED
      BY <2>1, AfterSfcType, AfterSfcKeepsInt
  <1>2. SfcForwards(f.at, q)
    BY SfcGoesOn
  <1>3. ~OffOverlay(f)
    <2> SUFFICES ASSUME OffOverlay(f) PROVE FALSE
      OBVIOUS
    <2>1. f.p.eth # "SFC" /\ ~NewPolicy(f)
      BY OnlyFreshIsClassified DEF OffOverlay
    <2>2. DscpAtIngress(f.p) = 0 \/ Encap(f).eth # "SFC"
      BY <2>1 DEF NewPolicy
    <2>3. q.eth # "SFC"
      <3>1. Encap(f) \in Packet
        BY <1>1, EncapsulatedType DEF Encap
      <3>2. CASE DscpAtIngress(f.p) = 0
        BY <2>1, <3>2 DEF AfterSfc
      <3>3. CASE DscpAtIngress(f.p) # 0 /\ Encap(f).eth # "SFC"
        <4>1. Served(f.at, Encap(f)) = Encap(f)
          BY <3>3 DEF Served, Serves
        <4> QED
          BY <3>3, <4>1 DEF AfterSfc, Decapsulated, Encap
      <3> QED
        BY <2>2, <3>2, <3>3
    <2> QED
      BY <2>3
  <1>4. Forwarded(f.at, f.in, f.p).p = [q EXCEPT !.ttl = @ - 1]
    BY <1>2 DEF Forwarded, SfcForward, Routed
  <1>5. c.p.dst = f.p.dst /\ c.p.dmac = f.p.dmac
    <2>1. /\ [q EXCEPT !.ttl = @ - 1].dst = q.dst
          /\ [q EXCEPT !.ttl = @ - 1].dmac = q.dmac
      BY <1>1 DEF Packet
    <2>2. /\ c.p.dst = Forwarded(f.at, f.in, f.p).p.dst
          /\ c.p.dmac = Forwarded(f.at, f.in, f.p).p.dmac
      BY <1>1, CopyAddresses DEF Outputs
    <2> QED
      BY <1>1, <1>4, <2>1, <2>2
  <1>6. \A e \in Outputs(f) : e.port = Config[f.at]["sfc_egress"][q.chain[1]]
    BY <1>1, <1>2, SfcPort DEF Outputs
  <1> QED
    BY <1>3, <1>5, <1>6

LEMMA ReceiverHolds ==
  ASSUME Installed(ReceiverTables), NoneToGroups PROVE Spec => []ReceiverInv
<1>0. Installed(ServiceTables) /\ Installed(OverlayTables)
  BY DEF Installed, ReceiverTables, ServiceTables
<1>1. Init => ReceiverInv
  BY DEF Init, ReceiverInv
<1>2. /\ TypeOK /\ ChainConsistent /\ HeaderInv /\ OverlayInv /\ ServiceInv
      /\ ReceiverInv /\ [Next]_vars
      => ReceiverInv'
  <2> SUFFICES ASSUME TypeOK, ChainConsistent, HeaderInv, OverlayInv, ServiceInv,
                      ReceiverInv, [Next]_vars,
                      NEW g \in frames' \ frames, g.h.o \in Offered
               PROVE  Addressed(g)
    BY DEF ReceiverInv
  <2>1. ASSUME NEW o \in Offered, IsSent(g, o)
        PROVE  Addressed(g)
    BY <2>1 DEF IsSent, NoHistory, FromHost, Addressed, OffOverlay, AsAddressed,
                NoneToGroups
  <2>2. ASSUME NEW x \in Probes, IsProbed(g, x)
        PROVE  FALSE
    <3>1. g.h.o.eth = "LLDP"
      BY <2>2 DEF IsProbed, NoHistory, ProbeFrom
    <3> QED
      BY <3>1, ProbesStayPut
  <2>3. ASSUME NEW f \in frames, NEW c \in Outputs(f), IsPassedOn(g, f, c)
        PROVE  Addressed(g)
    <3> DEFINE q == AfterSfc(f.at, f.in, f.p)
               x == <<f.at, c.port>>
    <3>1. /\ Forward(f) /\ g.h = History(f) /\ History(f).o = f.h.o /\ g.p = c.p
          /\ Len(g.h.trace) = Len(f.h.trace) + 1 /\ Len(f.h.trace) \in Nat
          /\ f.h.o \in Offered /\ x \in DOMAIN Link
      BY <2>3, Forwarding DEF IsPassedOn
    <3>2. g.h.trace # << >> /\ g.at = Link[x][1]
      BY <2>3, <3>1 DEF IsPassedOn
    <3>3. g.p.eth = q.eth
      BY <3>1, CopyOfFrame DEF SameChain
    <3>4. CASE q.eth = "SFC"
      <4>1. ~OffOverlay(f) /\ c.p.dst = f.p.dst /\ c.p.dmac = f.p.dmac
        BY <1>0, <3>1, <3>4, OverlayKeepsAddresses
      <4> QED
        BY <3>1, <3>3, <3>4, <4>1 DEF Addressed, OffOverlay, AsAddressed, ReceiverInv
    <3>5. CASE q.eth # "SFC"
      <4>1. Leads(f, c)
        BY <3>1, <3>5, LeadsOn
      <4>2. ~IsMulticaster(Link[x][1])
        BY <1>0, <3>1, <4>1, GroupGoes DEF Leads
      <4>3. OffOverlay(g) /\ g.h.o = f.h.o /\ ~IsMulticaster(g.at)
        BY <3>1, <3>2, <3>3, <3>5, <4>2 DEF OffOverlay
      <4>4. IF Turned(g.h.o) THEN AsGroup(g.p, g.h.o) ELSE AsAddressed(g.p, g.h.o)
        BY <3>1, <4>1, <4>3 DEF Leads
      <4> QED
        BY <4>3, <4>4 DEF Addressed
    <3> QED
      BY <3>4, <3>5
  <2> QED
    BY <2>1, <2>2, <2>3, NewFrames
<1> QED
  BY <1>0, <1>1, <1>2, TypeCorrect, ChainsConsistent, HeadersAgree, OverlayHolds,
     ServiceHolds, PTL DEF Spec
-----------------------------------------------------------------------------
(* One copy for each receiver: only a multicaster copies a packet, once,   *)
(* to switches that do not copy it again, and each is a host's only one.   *)

LastOf(trace) == trace[Len(trace)]
Split(f) == OffOverlay(f) /\ Turned(f.h.o)
AtHome(d) ==
  \E x \in DOMAIN HostAt : HostAt[x] = d.host /\ x[1] = LastOf(d.h.trace)
Apart(f, g) == Split(f) /\ Split(g) /\ f.at # g.at
OnceInv ==
  /\ \A f \in frames : f.h.o \in Offered => f.h.o \in sent
  /\ \A d \in delivered : d.h.o \in sent \cap Offered /\ AtHome(d)
  /\ \A f, g \in frames :
       f.h.o \in Offered /\ f.h.o = g.h.o /\ f # g => Apart(f, g)
  /\ \A f \in frames : \A d \in delivered :
       f.h.o = d.h.o => Split(f) /\ f.at # LastOf(d.h.trace)

LEMMA AfterForward ==
  ASSUME NEW f \in frames, Forward(f)
  PROVE  /\ sent' = sent
         /\ \A g \in frames' :
              g \in frames \ {f} \/ \E c \in Outputs(f) : IsPassedOn(g, f, c)
         /\ \A d \in delivered' :
              d \in delivered \/ \E c \in Outputs(f) : IsDelivered(d, f, c)
  <1>1. ASSUME NEW g \in frames', g \notin frames \ {f}
        PROVE  \E c \in Outputs(f) : IsPassedOn(g, f, c)
    <2>1. PICK c \in Outputs(f) : g \in OnLink(f.at, c.port, c.p, History(f))
      BY <1>1 DEF Forward
    <2>2. /\ <<f.at, c.port>> \in DOMAIN Link
          /\ g = [at |-> Link[<<f.at, c.port>>][1],
                  in |-> Link[<<f.at, c.port>>][2], p |-> c.p, h |-> History(f)]
      BY <2>1 DEF OnLink
    <2>3. <<g.at, g.in>> = Link[<<f.at, c.port>>]
      BY <2>2, NetworkTyped
    <2> QED
      BY <2>2, <2>3 DEF IsPassedOn
  <1>2. ASSUME NEW d \in delivered', d \notin delivered
        PROVE  \E c \in Outputs(f) : IsDelivered(d, f, c)
    <2>1. PICK c \in {e \in Outputs(f) : <<f.at, e.port>> \in DOMAIN HostAt} :
            d = [host |-> HostAt[<<f.at, c.port>>], p |-> c.p, h |-> History(f)]
      BY <1>2 DEF Forward
    <2> QED
      BY <2>1 DEF IsDelivered
  <1> QED
    BY <1>1, <1>2 DEF Forward

(* The copies of one packet at one switch part company. *)
LEMMA Parting ==
  ASSUME TypeOK, ChainConsistent, HeaderInv, OverlayInv, ServiceInv,
         ReceiverInv, Installed(ReceiverTables), NEW f \in frames, Forward(f),
         NEW c \in Outputs(f), NEW e \in Outputs(f)
  PROVE  LET x == <<f.at, c.port>>
             y == <<f.at, e.port>>
         IN  /\ x \in DOMAIN Link => ~Split(f)
             /\ c.port = e.port => c.p = e.p
             /\ c.port # e.port =>
                  /\ Turned(f.h.o) /\ AfterSfc(f.at, f.in, f.p).eth # "SFC"
                  /\ x \in DOMAIN Link => y \notin DOMAIN HostAt
                  /\ x \in DOMAIN Link /\ y \in DOMAIN Link => Link[x][1] # Link[y][1]
  <1> DEFINE q == AfterSfc(f.at, f.in, f.p)
             x == <<f.at, c.port>>
             y == <<f.at, e.port>>
  <1>0. Installed(ServiceTables) /\ Installed(OverlayTables) /\ f.h.o \in Offered
    BY OfferedIsForwarded DEF Installed, ReceiverTables, ServiceTables
  <1>1. c.p = e.p
    BY Forwarding, CopyAddresses DEF Outputs
  <1>2. CASE q.eth = "SFC"
    BY <1>0, <1>1, <1>2, OverlayKeepsAddresses DEF Split
  <1>3. CASE q.eth # "SFC"
    <2>1. Leads(f, c) /\ Leads(f, e)
      BY <1>0, <1>3, LeadsOn
    <2>2. CASE ~Turned(f.h.o)
      BY <1>1, <2>1, <2>2 DEF Split, Leads
    <2>3. CASE Turned(f.h.o)
      <3>1. x \in DOMAIN Link => ~OffOverlay(f)
        BY <1>0, <2>1, <2>3, GroupGoes
      <3>2. x \in DOMAIN Link => IsMulticaster(f.at)
        BY <2>1, <2>3, <3>1 DEF Leads
      <3>3. y \in DOMAIN HostAt => ~IsMulticaster(f.at)
        <4>1. y[1] = f.at
          OBVIOUS
        <4> QED
          BY <4>1, EdgePortsMarked DEF IsMulticaster
      <3>4. x \in DOMAIN Link /\ y \in DOMAIN Link /\ c.port # e.port
              => Link[x][1] # Link[y][1]
        BY <1>0, <2>1, <2>3, GroupGoes
      <3> QED
        BY <1>1, <1>3, <2>3, <3>1, <3>2, <3>3, <3>4 DEF Split
    <2> QED
      BY <2>2, <2>3
  <1> QED
    BY <1>2, <1>3

LEMMA ReceiverIsRight ==
  ASSUME TypeOK, ChainConsistent, HeaderInv, OverlayInv, ServiceInv,
         ReceiverInv, Installed(ReceiverTables), NEW f \in frames,
         NEW c \in Outputs(f), NEW d, IsDelivered(d, f, c)
  PROVE  d.host \in Receivers(d.h.o)
  <1> DEFINE o == f.h.o
  <1>0. /\ Installed(ServiceTables) /\ Installed(OverlayTables) /\ o \in Offered
        /\ Forward(f) /\ <<f.at, c.port>> \in DOMAIN HostAt
        /\ d.host = HostAt[<<f.at, c.port>>] /\ d.h.o = o
    BY OfferedIsForwarded, Forwarding
       DEF Installed, ReceiverTables, ServiceTables, IsDelivered
  <1>1. Leads(f, c)
    BY <1>0, HostsAreOffOverlay, LeadsOn
  <1>2. CASE Turned(o)
    <2>1. d.host \in Members[Turn(o)[o.dscp].ip]
      BY <1>0, <1>1, <1>2, GroupGoes
    <2> QED
      BY <1>0, <1>2, <2>1 DEF Receivers, Turned, Turn
  <1>3. CASE ~Turned(o)
    BY <1>0, <1>1, <1>3 DEF Receivers, Turned, Turn, Leads
  <1> QED
    BY <1>2, <1>3

(* Two copies that a step puts under way, or one and another of its packet *)
LEMMA CopiesApart ==
  ASSUME TypeOK, TypeOK', ChainConsistent, HeaderInv, OverlayInv, ServiceInv,
         ReceiverInv, OnceInv, Installed(ReceiverTables),
         NEW f \in frames, Forward(f), NEW g \in frames', NEW k \in frames',
         g.h.o \in Offered, g.h.o = k.h.o, g # k
  PROVE  Apart(g, k)
  <1>1. ASSUME NEW c \in Outputs(f), NEW u \in frames', IsPassedOn(u, f, c)
        PROVE  u.h.o = f.h.o /\ f.h.o \in Offered /\ ~Split(f)
    BY <1>1, OfferedIsForwarded, Forwarding, Parting DEF IsPassedOn
  <1>2. ASSUME NEW c \in Outputs(f), NEW u \in frames', IsPassedOn(u, f, c),
               NEW v \in frames \ {f}
        PROVE  u.h.o # v.h.o
    BY <1>1, <1>2 DEF OnceInv, Apart
  <1>3. ASSUME NEW c \in Outputs(f), NEW e \in Outputs(f),
               IsPassedOn(g, f, c), IsPassedOn(k, f, e)
        PROVE  Apart(g, k)
    <2> DEFINE x == <<f.at, c.port>>
               y == <<f.at, e.port>>
    <2>1. /\ x \in DOMAIN Link /\ <<g.at, g.in>> = Link[x] /\ g.p = c.p
          /\ y \in DOMAIN Link /\ <<k.at, k.in>> = Link[y] /\ k.p = e.p
          /\ g.h = History(f) /\ k.h = History(f)
      BY <1>3 DEF IsPassedOn
    <2>2. c.port # e.port
      <3> SUFFICES ASSUME c.port = e.port PROVE FALSE
        OBVIOUS
      <3>1. g.p = k.p /\ g.h = k.h /\ g.at = k.at /\ g.in = k.in
        BY <2>1, Parting
      <3> QED
        BY <3>1 DEF TypeOK
    <2>3. /\ Turned(f.h.o) /\ AfterSfc(f.at, f.in, f.p).eth # "SFC"
          /\ Link[x][1] # Link[y][1]
      BY <2>1, <2>2, Parting
    <2>4. g.at = Link[x][1] /\ k.at = Link[y][1]
      BY <2>1
    <2>5. /\ g.p.eth # "SFC" /\ k.p.eth # "SFC"
      BY <2>1, <2>3, CopyOfFrame DEF SameChain
    <2>6. g.h.trace # << >> /\ k.h.trace # << >> /\ g.h.o = f.h.o /\ k.h.o = f.h.o
      BY <2>1, Forwarding
    <2> QED
      BY <2>3, <2>4, <2>5, <2>6 DEF Apart, Split, OffOverlay
  <1>4. CASE g \in frames \ {f} /\ k \in frames \ {f}
    BY <1>4 DEF OnceInv
  <1> QED
    BY <1>2, <1>3, <1>4, AfterForward

LEMMA OnceByForward ==
  ASSUME TypeOK, TypeOK', ChainConsistent, HeaderInv, OverlayInv, ServiceInv,
         ReceiverInv, OnceInv, RightReceiver, Installed(ReceiverTables),
         NEW f \in frames, Forward(f)
  PROVE  OnceInv' /\ RightReceiver'
  <1> DEFINE o == f.h.o
  <1>1. ASSUME NEW c \in Outputs(f), NEW g \in frames', IsPassedOn(g, f, c)
        PROVE  /\ g.h.o = o /\ o \in Offered /\ ~Split(f)
               /\ <<f.at, c.port>> \in DOMAIN Link
    BY <1>1, OfferedIsForwarded, Forwarding, Parting DEF IsPassedOn
  <1>2. ASSUME NEW c \in Outputs(f), NEW d \in delivered', IsDelivered(d, f, c)
        PROVE  /\ d.h.o = o /\ o \in Offered /\ LastOf(d.h.trace) = f.at
               /\ <<f.at, c.port>> \in DOMAIN HostAt
               /\ d.host = HostAt[<<f.at, c.port>>] /\ d.p = c.p
               /\ d.h = History(f) /\ d.host \in Receivers(d.h.o)
    <2>1. d.h.trace = Append(f.h.trace, f.at) /\ f.h.trace \in Seq(Switch)
      BY <1>2, HistoryGrows DEF IsDelivered
    <2>2. LastOf(d.h.trace) = f.at
      BY <2>1 DEF LastOf
    <2> QED
      BY <1>2, <2>2, OfferedIsForwarded, Forwarding, ReceiverIsRight DEF IsDelivered
  <1>3. ASSUME NEW g \in frames', g.h.o \in Offered
        PROVE  g.h.o \in sent'
    BY <1>1, <1>3, AfterForward DEF OnceInv
  <1>4. ASSUME NEW d \in delivered'
        PROVE  d.h.o \in sent' \cap Offered /\ AtHome(d) /\ d.host \in Receivers(d.h.o)
    <2>1. ASSUME NEW c \in Outputs(f), IsDelivered(d, f, c)
          PROVE  d.h.o \in sent' \cap Offered /\ AtHome(d) /\ d.host \in Receivers(d.h.o)
      <3>1. <<f.at, c.port>>[1] = LastOf(d.h.trace)
        BY <1>2, <2>1
      <3> QED
        BY <1>2, <2>1, <3>1, AfterForward DEF AtHome, OnceInv
    <2> QED
      BY <2>1, AfterForward DEF OnceInv, RightReceiver
  <1>5. ASSUME NEW g \in frames', NEW d \in delivered', g.h.o = d.h.o
        PROVE  Split(g) /\ g.at # LastOf(d.h.trace)
    <2>1. CASE g \in frames \ {f} /\ d \in delivered
      BY <1>5, <2>1 DEF OnceInv
    <2>2. ASSUME NEW c \in Outputs(f), IsPassedOn(g, f, c), d \in delivered
          PROVE  FALSE
      BY <1>1, <1>5, <2>2 DEF OnceInv
    <2>3. ASSUME NEW e \in Outputs(f), IsDelivered(d, f, e), g \in frames \ {f}
          PROVE  Split(g) /\ g.at # LastOf(d.h.trace)
      <3>1. g.h.o = o /\ o \in Offered /\ g # f /\ LastOf(d.h.trace) = f.at
        BY <1>2, <1>5, <2>3
      <3>2. Apart(f, g)
        BY <2>3, <3>1 DEF OnceInv
      <3> QED
        BY <3>1, <3>2 DEF Apart
    <2>4. ASSUME NEW c \in Outputs(f), IsPassedOn(g, f, c),
                 NEW e \in Outputs(f), IsDelivered(d, f, e)
          PROVE  FALSE
      <3>1. /\ <<f.at, c.port>> \in DOMAIN Link
            /\ <<f.at, e.port>> \in DOMAIN HostAt
        BY <1>1, <1>2, <2>4
      <3>2. c.port # e.port
        BY <3>1, HostsAtEdge
      <3> QED
        BY <3>1, <3>2, Parting
    <2> QED
      BY <2>1, <2>2, <2>3, <2>4, AfterForward
  <1>6. ASSUME NEW c \in Outputs(f), NEW d \in delivered', IsDelivered(d, f, c),
               NEW e \in delivered, d.h.o = e.h.o
        PROVE  d.host # e.host
    <2>1. f.at # LastOf(e.h.trace) /\ AtHome(e)
      BY <1>2, <1>6 DEF OnceInv
    <2>2. PICK x \in DOMAIN HostAt : HostAt[x] = e.host /\ x[1] = LastOf(e.h.trace)
      BY <2>1 DEF AtHome
    <2>3. x # <<f.at, c.port>>
      BY <2>1, <2>2
    <2> QED
      BY <1>2, <1>6, <2>2, <2>3, HostsAtEdge
  <1>7. ASSUME NEW d \in delivered', NEW e \in delivered',
               d.host = e.host, d.h.o = e.h.o
        PROVE  d = e
    <2>1. CASE d \in delivered /\ e \in delivered
      BY <1>7, <2>1 DEF RightReceiver
    <2>2. ASSUME NEW a \in Outputs(f), IsDelivered(d, f, a),
                 NEW b \in Outputs(f), IsDelivered(e, f, b)
          PROVE  d = e
      <3> DEFINE x == <<f.at, a.port>>
                 y == <<f.at, b.port>>
      <3>1. /\ x \in DOMAIN HostAt /\ d.host = HostAt[x]
            /\ d.p = a.p /\ d.h = History(f)
        BY <2>2 DEF IsDelivered
      <3>2. /\ y \in DOMAIN HostAt /\ e.host = HostAt[y]
            /\ e.p = b.p /\ e.h = History(f)
        BY <2>2 DEF IsDelivered
      <3>3. x = y
        BY <1>7, <3>1, <3>2, HostsAtEdge
      <3>4. a.port = b.port
        BY <3>3
      <3>5. d.p = e.p /\ d.h = e.h
        BY <3>1, <3>2, <3>4, Parting
      <3> QED
        BY <1>7, <3>5 DEF TypeOK
    <2> QED
      BY <1>6, <1>7, <2>1, <2>2, AfterForward
  <1>8. \A g, k \in frames' :
          g.h.o \in Offered /\ g.h.o = k.h.o /\ g # k => Apart(g, k)
    BY CopiesApart
  <1>9. OnceInv'
    BY <1>3, <1>4, <1>5, <1>8 DEF OnceInv
  <1> QED
    BY <1>4, <1>7, <1>9 DEF RightReceiver

LEMMA OnceToEachHost ==
  ASSUME Installed(ReceiverTables), NoneToGroups
  PROVE  Spec => [](OnceInv /\ RightReceiver)
<1>0. Installed(ServiceTables) /\ Installed(OverlayTables)
  BY DEF Installed, ReceiverTables, ServiceTables
<1>1. Init => OnceInv /\ RightReceiver
  BY DEF Init, OnceInv, RightReceiver
<1>2. /\ TypeOK /\ TypeOK' /\ ChainConsistent /\ HeaderInv /\ OverlayInv
      /\ ServiceInv /\ ReceiverInv /\ OnceInv /\ RightReceiver /\ [Next]_vars
      => OnceInv' /\ RightReceiver'
  <2> SUFFICES ASSUME TypeOK, TypeOK', ChainConsistent, HeaderInv, OverlayInv,
                      ServiceInv, ReceiverInv, OnceInv, RightReceiver, [Next]_vars
               PROVE  OnceInv' /\ RightReceiver'
    OBVIOUS
  <2>1. ASSUME NEW o \in Offered, HostSend(o)
        PROVE  OnceInv' /\ RightReceiver'
    <3>1. /\ o \notin sent /\ sent' = sent \cup {o} /\ delivered' = delivered
          /\ \A g \in frames' : g \in frames \/ \E e \in DOMAIN HostAt :
               /\ HostAt[e] = o.host
               /\ g = [at |-> e[1], in |-> e[2], p |-> FromHost(o),
                       h |-> NoHistory(o)]
      BY <2>1 DEF HostSend
    <3>2. \A g \in frames' \ frames : g.h.o = o
      BY <3>1 DEF NoHistory
    <3>3. \A g, k \in frames' \ frames : g = k
      BY <3>1, HostsAtEdge
    <3>4. OnceInv'
      BY <3>1, <3>2, <3>3 DEF OnceInv
    <3> QED
      BY <3>1, <3>4 DEF RightReceiver
  <2>2. ASSUME NEW x \in Probes, PacketOut(x)
        PROVE  OnceInv' /\ RightReceiver'
    <3>1. /\ sent' = sent \cup {ProbeFrom(x)} /\ delivered' = delivered
          /\ \A g \in frames' \ frames : g.h = NoHistory(ProbeFrom(x))
      BY <2>2 DEF PacketOut, OnLink
    <3>2. /\ NoHistory(ProbeFrom(x)).o = ProbeFrom(x)
          /\ ProbeFrom(x).eth = "LLDP" /\ ProbeFrom(x) \notin Offered
      BY ProbesStayPut DEF NoHistory, ProbeFrom
    <3>3. \A g \in frames' \ frames : g.h.o \notin Offered
      BY <3>1, <3>2
    <3>4. \A d \in delivered : d.h.o \in Offered
      BY DEF OnceInv
    <3>5. OnceInv'
      BY <3>1, <3>3, <3>4 DEF OnceInv
    <3> QED
      BY <3>1, <3>5 DEF RightReceiver
  <2>3. ASSUME NEW f \in frames, Forward(f)
        PROVE  OnceInv' /\ RightReceiver'
    BY <2>3, OnceByForward
  <2>4. CASE frames' \subseteq frames /\ delivered' = delivered /\ sent' = sent
    BY <2>4 DEF OnceInv, RightReceiver
  <2>5. ASSUME NEW f \in frames, Lose(f) \/ PuntToCpu(f) \/ DropAtIngress(f)
        PROVE  frames' \subseteq frames /\ delivered' = delivered /\ sent' = sent
    BY <2>5 DEF Lose, PuntToCpu, DropAtIngress, Unforwarded
  <2>6. ASSUME NEW e \in pending, Install(e)
        PROVE  frames' \subseteq frames /\ delivered' = delivered /\ sent' = sent
    BY <2>6 DEF Install
  <2>7. CASE UNCHANGED vars
    BY <2>4, <2>7 DEF vars
  <2> QED
    BY <2>1, <2>2, <2>3, <2>4, <2>5, <2>6, <2>7 DEF Next, Process
<1> QED
  BY <1>0, <1>1, <1>2, TypeCorrect, ChainsConsistent, HeadersAgree, OverlayHolds,
     ServiceHolds, ReceiverHolds, PTL DEF Spec

(***************************************************************************)
(* Every host that gets a packet is one it is for, a multicaster's group   *)
(* included, and gets it once, however many copies multicasters and        *)
(* switches made (multicast.p4, L3_forward.p4): where the tables of the    *)
(* service and those of the multicasters are in place, and hosts address   *)
(* no group themselves.                                                    *)
(***************************************************************************)
THEOREM ReceiversAreRight ==
  ASSUME Installed(ReceiverTables), NoneToGroups
  PROVE  Spec => []RightReceiver
BY OnceToEachHost, PTL
-----------------------------------------------------------------------------
(* The network implements the service of SfcService: what a frame is owed  *)
(* is the rest of its policy, and each step serves at most one function.   *)

Rest(o, n) == SubSeq(Policy(o), n + 1, Len(Policy(o)))

LEMMA SameSequence ==
  ASSUME NEW a \in Seq(Nat), NEW b \in Seq(Nat), Len(a) = Len(b),
         \A i \in 1 .. Len(a) : a[i] = b[i]
  PROVE  a = b
  <1>1. a \in [1 .. Len(a) -> Nat] /\ b \in [1 .. Len(a) -> Nat]
    OBVIOUS
  <1> QED
    BY <1>1

LEMMA SuffixIs ==
  ASSUME NEW b \in Seq(Nat), NEW n \in Nat, n <= Len(b)
  PROVE  LET t == SubSeq(b, n + 1, Len(b))
         IN  /\ t \in Seq(Nat) /\ Len(t) = Len(b) - n
             /\ \A i \in 1 .. Len(t) : t[i] = b[i + n]
             /\ (t = << >>) <=> n = Len(b)
  <1> DEFINE t == SubSeq(b, n + 1, Len(b))
  <1>1. t \in Seq(Nat) /\ Len(t) = Len(b) - n
    OBVIOUS
  <1>2. \A i \in 1 .. Len(t) : t[i] = b[i + n]
    BY <1>1
  <1> HIDE DEF t
  <1>3. (t = << >>) <=> n = Len(b)
    BY <1>1
  <1> QED
    BY <1>1, <1>2, <1>3 DEF t

LEMMA SuffixOfSuffix ==
  ASSUME NEW b \in Seq(Nat), NEW n \in Nat, NEW k \in {0, 1}, n + k <= Len(b)
  PROVE  LET t == SubSeq(b, n + 1, Len(b))
         IN  SubSeq(t, k + 1, Len(t)) = SubSeq(b, n + k + 1, Len(b))
  <1> DEFINE t == SubSeq(b, n + 1, Len(b))
             u == SubSeq(t, k + 1, Len(t))
             v == SubSeq(b, n + k + 1, Len(b))
  <1>1. /\ t \in Seq(Nat) /\ Len(t) = Len(b) - n
        /\ \A i \in 1 .. Len(t) : t[i] = b[i + n]
    BY SuffixIs
  <1> HIDE DEF t
  <1>0. Len(b) \in Nat /\ k \in Nat /\ n + k \in Nat /\ k <= Len(t)
    BY <1>1
  <1>2. /\ u \in Seq(Nat) /\ Len(u) = Len(t) - k
        /\ \A i \in 1 .. Len(u) : u[i] = t[i + k]
    BY <1>0, <1>1, SuffixIs
  <1>3. /\ v \in Seq(Nat) /\ Len(v) = Len(b) - (n + k)
        /\ \A i \in 1 .. Len(v) : v[i] = b[i + (n + k)]
    BY <1>0, SuffixIs
  <1> HIDE DEF u, v
  <1>4. Len(u) = Len(v) /\ \A i \in 1 .. Len(u) : u[i] = v[i]
    <2>1. /\ Len(u) = Len(v) /\ Len(u) \in Nat /\ Len(t) \in Nat
          /\ Len(t) = Len(u) + k
      BY <1>0, <1>1, <1>2, <1>3
    <2>2. ASSUME NEW i \in 1 .. Len(u)
          PROVE  u[i] = v[i]
      <3>1. /\ i + k \in 1 .. Len(t) /\ (i + k) + n = i + (n + k)
        BY <1>0, <2>1, <2>2
      <3> QED
        BY <1>1, <1>2, <1>3, <2>1, <2>2, <3>1
    <2> QED
      BY <2>1, <2>2
  <1>5. u = v
    BY <1>2, <1>3, <1>4, SameSequence
  <1> QED
    BY <1>5 DEF t, u, v

LEMMA PolicyType ==
  ASSUME NEW o \in Offered PROVE Policy(o) \in Seq(Nat)
  <1>1. PICK x \in DOMAIN HostAt : HostAt[x] = o.host
    BY HostsAtEdge
  <1> DEFINE C == Config[x[1]]["sfc_classifier"]
             given == o.l4 # NoL4 /\ o.dscp # 0 /\ o.dscp \in DOMAIN C
  <1>2. Policy(o) = IF given THEN SubSeq(C[o.dscp].chain, 1, C[o.dscp].sc)
                             ELSE << >>
    BY <1>1, PolicyOfHost
  <1>3. ASSUME o.dscp \in DOMAIN C
        PROVE  SubSeq(C[o.dscp].chain, 1, C[o.dscp].sc) \in Seq(Nat)
    <2> DEFINE a == C[o.dscp].chain
               n == C[o.dscp].sc
    <2>1. x[1] \in Switch
      BY <1>1, NetworkTyped
    <2>2. a \in Seq(Nat) /\ n \in 1 .. Len(a)
      BY <1>3, <2>1, TablesTyped DEF MAX_HOPS
    <2> HIDE DEF a, n
    <2>3. SubSeq(a, 1, n) \in Seq(Nat)
      BY <2>2
    <2> QED
      BY <2>3 DEF a, n
  <1> QED
    BY <1>2, <1>3

(* What a frame with consistent headers is owed. *)
LEMMA OwedIsRest ==
  ASSUME NEW f, f.p \in Packet, f.h \in Histories, f.h.o \in Offered,
         ChainMatchesHistory(f.p, f.h), WellChained(f.h.policy, f.h.todo0),
         f.h.trace = << >> => f.h = NoHistory(f.h.o),
         f.h.trace # << >> => HasPolicy(f.h)
  PROVE  OwedTo(f) = Rest(f.h.o, Len(f.h.served))
  <1> DEFINE o == f.h.o
             b == Policy(o)
             n == Len(f.h.served)
             c == f.p.chain
             t == SubSeq(b, n + 1, Len(b))
             k == f.p.sc
  <1>1. b \in Seq(Nat) /\ PolicyOf[o] = b
    BY PolicyType DEF PolicyOf
  <1>2. n \in Nat /\ c \in Seq(Nat) /\ k \in Nat /\ f.h.todo0 \in Nat
        /\ f.h.policy \in Seq(Nat)
    <2>1. f.h.served \in Seq(Switch)
      BY DEF Histories, Path
    <2>2. n \in Nat
      BY <2>1
    <2>3. c \in Seq(Nat) /\ k \in Byte
      BY DEF Packet, Ids
    <2>4. f.h.todo0 \in Byte /\ f.h.policy \in Seq(Nat)
      BY DEF Histories, Ids
    <2> QED
      BY <2>2, <2>3, <2>4, BytesAreNumbers
  <1>3. CASE f.h.trace = << >>
    <2>1. n = 0
      BY <1>3 DEF NoHistory
    <2>2. OwedTo(f) = b
      BY <1>1, <1>3 DEF OwedTo
    <2>3. SubSeq(b, 1, Len(b)) = b
      <3> HIDE DEF b
      <3> QED
        BY <1>1
    <2> QED
      BY <2>1, <2>2, <2>3 DEF Rest
  <1>4. CASE f.h.trace # << >> /\ f.p.eth = "SFC"
    <2> DEFINE h == f.h.policy
    <2>1. /\ k = f.h.todo0 - n /\ k > 0 /\ Len(c) = Len(h) - n
          /\ \A i \in DOMAIN c : c[i] = h[i + n]
          /\ f.h.todo0 = Len(b) /\ f.h.todo0 <= Len(h)
          /\ \A i \in 1 .. f.h.todo0 : h[i] = b[i]
      BY <1>4 DEF ChainMatchesHistory, HasPolicy, WellChained
    <2>2. OwedTo(f) = SubSeq(c, 1, k)
      BY <1>4 DEF OwedTo
    <2>0. h \in Seq(Nat)
      BY <1>2
    <2> HIDE DEF b, n, c, k, h
    <2>3. /\ n <= Len(b) /\ k <= Len(c) /\ Len(b) \in Nat /\ Len(c) \in Nat
          /\ k = Len(b) - n /\ DOMAIN c = 1 .. Len(c)
      <3>1. /\ Len(b) \in Nat /\ Len(c) \in Nat /\ Len(h) \in Nat
            /\ DOMAIN c = 1 .. Len(c)
        BY <1>1, <1>2, <2>0
      <3>2. /\ k = f.h.todo0 - n /\ k > 0 /\ Len(c) = Len(h) - n
            /\ f.h.todo0 = Len(b) /\ f.h.todo0 <= Len(h)
        BY <2>1
      <3> QED
        BY <1>2, <3>1, <3>2
    <2>4. /\ SubSeq(c, 1, k) \in Seq(Nat) /\ Len(SubSeq(c, 1, k)) = k
          /\ \A i \in 1 .. k : SubSeq(c, 1, k)[i] = c[i]
      BY <1>2, <2>3
    <2>5. t \in Seq(Nat) /\ Len(t) = k /\ \A i \in 1 .. k : t[i] = b[i + n]
      <3>1. /\ t \in Seq(Nat) /\ Len(t) = Len(b) - n
            /\ \A i \in 1 .. Len(t) : t[i] = b[i + n]
        BY <1>1, <1>2, <2>3, SuffixIs
      <3> HIDE DEF t
      <3> QED
        BY <2>3, <3>1
    <2>6. ASSUME NEW i \in 1 .. k
          PROVE  c[i] = b[i + n]
      <3>1. i \in DOMAIN c /\ i + n \in 1 .. f.h.todo0
        BY <1>2, <2>1, <2>3, <2>6
      <3> QED
        BY <2>1, <3>1
    <2> HIDE DEF t
    <2>7. SubSeq(c, 1, k) = t
      BY <2>4, <2>5, <2>6, SameSequence
    <2> QED
      BY <2>2, <2>7 DEF Rest, t, b, n
  <1>5. CASE f.h.trace # << >> /\ f.p.eth # "SFC"
    <2>1. n = Len(b)
      BY <1>5 DEF ChainMatchesHistory, HasPolicy
    <2>2. OwedTo(f) = << >>
      BY <1>5 DEF OwedTo
    <2> HIDE DEF b, n
    <2>3. t = << >>
      BY <1>1, <1>2, <2>1, SuffixIs
    <2> QED
      BY <2>2, <2>3 DEF Rest, b, n
  <1> QED
    BY <1>3, <1>4, <1>5

LEMMA FrameIsOwedRest ==
  ASSUME TypeOK, ChainConsistent, OverlayInv, ServiceInv,
         NEW f \in frames, f.h.o \in Offered
  PROVE  OwedTo(f) = Rest(f.h.o, Len(f.h.served))
  <1>1. /\ f.p \in Packet /\ f.h \in Histories /\ ChainMatchesHistory(f.p, f.h)
        /\ WellChained(f.h.policy, f.h.todo0)
        /\ f.h.trace = << >> => f.h = NoHistory(f.h.o)
        /\ f.h.trace # << >> => HasPolicy(f.h)
    BY DEF TypeOK, ChainConsistent, OverlayInv, ServiceInv, AtItsHost
  <1> QED
    BY <1>1, OwedIsRest

(* Forwarding serves k functions of those the frame was owed: what goes on *)
(* is owed the others, and nothing is owed to what arrives.                *)
LEMMA OwedAfterForward ==
  ASSUME TypeOK, ChainConsistent, HeaderInv, OverlayInv, ServiceInv,
         TypeOK', ChainConsistent', OverlayInv', ServiceInv',
         Installed(ServiceTables),
         NEW f \in frames, Forward(f), f.h.o \in Offered
  PROVE  LET k == IF ServedHere(f) THEN 1 ELSE 0
             t == SubSeq(OwedTo(f), k + 1, Len(OwedTo(f)))
         IN  /\ k <= Len(OwedTo(f))
             /\ \A c \in Outputs(f) : \A g \in frames' :
                  IsPassedOn(g, f, c) => OwedTo(g) = t
             /\ AfterSfc(f.at, f.in, f.p).eth # "SFC" => t = << >>
  <1> DEFINE o == f.h.o
             b == Policy(o)
             n == Len(f.h.served)
             k == IF ServedHere(f) THEN 1 ELSE 0
             t == SubSeq(OwedTo(f), k + 1, Len(OwedTo(f)))
             h == History(f)
             q == AfterSfc(f.at, f.in, f.p)
  <1>1. /\ b \in Seq(Nat) /\ n \in Nat /\ k \in {0, 1} /\ Len(b) \in Nat
        /\ Len(h.served) = n + k
    <2>1. b \in Seq(Nat) /\ f.h.served \in Seq(Switch) /\ f.at \in Switch
      BY PolicyType DEF TypeOK, Histories, Path
    <2>2. h.served = IF ServedHere(f) THEN Append(f.h.served, f.at) ELSE f.h.served
      BY HistoryFields
    <2> DEFINE a == f.h.served
    <2>3. a \in Seq(Switch) /\ Len(Append(a, f.at)) = Len(a) + 1 /\ Len(a) \in Nat
      BY <2>1
    <2>4. Len(h.served) = n + k
      <3>1. CASE ServedHere(f)
        <4>1. h.served = Append(a, f.at) /\ k = 1
          BY <2>2, <3>1
        <4> HIDE DEF h, k
        <4>2. Len(h.served) = Len(a) + 1
          BY <2>3, <4>1
        <4> QED
          BY <4>1, <4>2
      <3>2. CASE ~ServedHere(f)
        <4>1. h.served = a /\ k = 0
          BY <2>2, <3>2
        <4>2. n \in Nat /\ n = Len(a)
          BY <2>3
        <4> HIDE DEF h, k, a, n
        <4> QED
          BY <4>1, <4>2
      <3> QED
        BY <3>1, <3>2
    <2>5. Len(b) \in Nat
      <3> HIDE DEF b
      <3> QED
        BY <2>1
    <2> QED
      BY <2>1, <2>3, <2>4, <2>5
  <1>2. OwedTo(f) = Rest(o, n)
    BY FrameIsOwedRest
  <1>3. n + k <= Len(b) /\ (q.eth # "SFC" => n + k = Len(b))
    <2>1. ChainMatchesHistory(q, h)
      BY SfcStageConsistent
    <2>2. h.todo0 = Len(b)
      BY PolicyStays, HistoryGrows DEF HasPolicy
    <2>3. q.eth = "SFC" => Len(b) - (n + k) > 0
      BY <1>1, <2>1, <2>2 DEF ChainMatchesHistory
    <2>4. q.eth # "SFC" => n + k = Len(b)
      BY <1>1, <2>1, <2>2 DEF ChainMatchesHistory
    <2> HIDE DEF q, b, n, k
    <2> QED
      BY <1>1, <2>3, <2>4
  <1>4. Len(OwedTo(f)) = Len(b) - n /\ t = SubSeq(b, n + k + 1, Len(b))
    <2> HIDE DEF b, n, k
    <2>1. n <= Len(b)
      BY <1>1, <1>3
    <2>2. OwedTo(f) = SubSeq(b, n + 1, Len(b))
      BY <1>2 DEF Rest, b
    <2>3. Len(SubSeq(b, n + 1, Len(b))) = Len(b) - n
      BY <1>1, <2>1, SuffixIs
    <2>4. t = SubSeq(b, n + k + 1, Len(b))
      BY <1>1, <1>3, <2>2, SuffixOfSuffix
    <2> QED
      BY <2>2, <2>3, <2>4
  <1>5. ASSUME NEW c \in Outputs(f), NEW g \in frames', IsPassedOn(g, f, c)
        PROVE  OwedTo(g) = t
    <2>1. g.h = h /\ g.h.o = o
      BY <1>5, Forwarding DEF IsPassedOn
    <2>2. /\ g.p \in Packet /\ g.h \in Histories /\ ChainMatchesHistory(g.p, g.h)
          /\ WellChained(g.h.policy, g.h.todo0)
          /\ g.h.trace = << >> => g.h = NoHistory(g.h.o)
          /\ g.h.trace # << >> => HasPolicy(g.h)
      BY <2>1 DEF TypeOK, ChainConsistent, OverlayInv, ServiceInv, AtItsHost
    <2>3. OwedTo(g) = Rest(g.h.o, Len(g.h.served))
      BY <2>1, <2>2, OwedIsRest
    <2>4. OwedTo(g) = Rest(o, n + k)
      BY <1>1, <2>1, <2>3
    <2> QED
      BY <1>4, <2>4 DEF Rest
  <1>6. k <= Len(OwedTo(f))
    <2> HIDE DEF b, n, k
    <2> QED
      BY <1>1, <1>3, <1>4
  <1>7. q.eth # "SFC" => t = << >>
    <2> HIDE DEF b, n, k, t, q
    <2> HAVE q.eth # "SFC"
    <2>1. n + k \in Nat /\ n + k <= Len(b) /\ n + k = Len(b)
      BY <1>1, <1>3
    <2>2. SubSeq(b, n + k + 1, Len(b)) = << >>
      BY <1>1, <2>1, SuffixIs
    <2> QED
      BY <1>4, <2>2
  <1> QED
    BY <1>5, <1>6, <1>7

Owing(f) == [o |-> f.h.o, todo |-> OwedTo(f)]

LEMMA ForwardCarries ==
  ASSUME TypeOK, ChainConsistent, HeaderInv, OverlayInv, ServiceInv, ReceiverInv,
         TypeOK', ChainConsistent', OverlayInv', ServiceInv',
         Installed(ReceiverTables),
         NEW f \in frames, Forward(f), f.h.o \in Offered
  PROVE  \E k \in {0, 1} : Service!Carry(Owing(f), k)
  <1> DEFINE o == f.h.o
             w == OwedTo(f)
             k == IF ServedHere(f) THEN 1 ELSE 0
             t == SubSeq(w, k + 1, Len(w))
  <1>0. Installed(ServiceTables) /\ Installed(OverlayTables)
    BY DEF Installed, ReceiverTables, ServiceTables
  <1>1. /\ k <= Len(w) /\ k \in {0, 1}
        /\ \A c \in Outputs(f) : \A g \in frames' :
             IsPassedOn(g, f, c) => OwedTo(g) = t
        /\ AfterSfc(f.at, f.in, f.p).eth # "SFC" => t = << >>
    BY <1>0, OwedAfterForward
  <1>2. Owing(f).o = o /\ Owing(f).todo = w
    BY DEF Owing
  <1>3. ASSUME NEW g \in frames, g # f
        PROVE  g \in frames'
    BY <1>3 DEF Forward
  <1>4. ASSUME NEW g \in frames', g.h.o \in Offered, g \notin frames
        PROVE  [o |-> g.h.o, todo |-> OwedTo(g)] = [o |-> o, todo |-> t]
    <2>1. PICK c \in Outputs(f) : IsPassedOn(g, f, c)
      BY <1>4, AfterForward
    <2>2. g.h.o = o
      BY <2>1, Forwarding DEF IsPassedOn
    <2> QED
      BY <1>1, <2>1, <2>2
  <1>5. ASSUME NEW d \in delivered', d \notin delivered
        PROVE  d.h.o = o /\ t = << >> /\ d.host \in ReceiversOf[o]
    <2>1. PICK c \in Outputs(f) : IsDelivered(d, f, c)
      BY <1>5, AfterForward
    <2>2. d.h.o = o
      BY <2>1, Forwarding DEF IsDelivered
    <2>3. AfterSfc(f.at, f.in, f.p).eth # "SFC"
      BY <1>0, <2>1, HostsAreOffOverlay DEF IsDelivered
    <2>4. d.host \in Receivers(o)
      BY <2>1, <2>2, ReceiverIsRight
    <2> QED
      BY <1>1, <2>2, <2>3, <2>4 DEF ReceiversOf
  <1>6. sent' = sent /\ delivered \subseteq delivered'
    BY DEF Forward
  <1> HIDE DEF k, w, t
  <1>7. Service!Carry(Owing(f), k)
    BY <1>1, <1>2, <1>3, <1>4, <1>5, <1>6 DEF Service!Carry, Owing, t, w, o
  <1>8. k \in {0, 1}
    BY <1>1
  <1> QED
    BY <1>7, <1>8 DEF Service!Carry

(***************************************************************************)
(* The whole network, its switches, headers and lossy links, does nothing  *)
(* that the service of SfcService does not allow: each step submits a      *)
(* packet, or has at most one function of what a copy is still owed served *)
(* and copies it, loses it or lets it arrive, where it is meant for.  The  *)
(* tables of the service and of the multicasters are in place; telemetry   *)
(* and routes may come while packets are under way.                        *)
(***************************************************************************)
THEOREM NetworkImplementsService ==
  ASSUME Installed(ReceiverTables), NoneToGroups
  PROVE  Spec => ImplementsService
<1>0. Installed(ServiceTables) /\ Installed(OverlayTables)
  BY DEF Installed, ReceiverTables, ServiceTables
<1> DEFINE Inv == /\ TypeOK /\ ChainConsistent /\ HeaderInv /\ OverlayInv
                  /\ ServiceInv /\ ReceiverInv
           carriedNow == {[o |-> f.h.o, todo |-> OwedTo(f)] :
                            f \in {g \in frames : g.h.o \in Offered}}
           arrivedNow == {<<d.host, d.h.o>> : d \in delivered}
           seen == <<sent \cap Offered, carriedNow, arrivedNow>>
<1>1. Init => Service!ServiceInit
  BY DEF Init, Service!ServiceInit
<1>2. Inv /\ Inv' /\ [Next]_vars => [Service!ServiceNext]_seen
  <2> SUFFICES ASSUME Inv, Inv', [Next]_vars
               PROVE  Service!ServiceNext \/ UNCHANGED seen
    OBVIOUS
  <2>1. ASSUME NEW o \in Offered, HostSend(o)
        PROVE  Service!ServiceNext
    <3>1. PICK e \in DOMAIN HostAt : HostAt[e] = o.host
      BY HostsAtEdge
    <3> DEFINE g == [at |-> e[1], in |-> e[2], p |-> FromHost(o), h |-> NoHistory(o)]
    <3>2. frames' = frames \cup {g}
      BY <2>1, <3>1, HostsAtEdge DEF HostSend
    <3>3. g.h.o = o /\ OwedTo(g) = PolicyOf[o]
      BY DEF NoHistory, OwedTo
    <3> HIDE DEF g
    <3>4. carriedNow' = carriedNow \cup {[o |-> o, todo |-> PolicyOf[o]]}
      BY <3>2, <3>3
    <3>5. /\ o \notin sent /\ sent' = sent \cup {o} /\ delivered' = delivered
      BY <2>1 DEF HostSend
    <3>6. Service!Submit(o)
      BY <3>4, <3>5 DEF Service!Submit
    <3> QED
      BY <3>6 DEF Service!ServiceNext, Service!Submit
  <2>2. ASSUME NEW x \in Probes, PacketOut(x)
        PROVE  UNCHANGED seen
    <3>1. /\ sent' = sent \cup {ProbeFrom(x)} /\ delivered' = delivered
          /\ frames \subseteq frames'
          /\ \A g \in frames' \ frames : g.h = NoHistory(ProbeFrom(x))
      BY <2>2 DEF PacketOut, OnLink
    <3>2. /\ NoHistory(ProbeFrom(x)).o = ProbeFrom(x)
          /\ ProbeFrom(x).eth = "LLDP" /\ ProbeFrom(x) \notin Offered
      BY ProbesStayPut DEF NoHistory, ProbeFrom
    <3>3. {g \in frames' : g.h.o \in Offered} = {g \in frames : g.h.o \in Offered}
      BY <3>1, <3>2
    <3> QED
      BY <3>1, <3>2, <3>3
  <2>3. ASSUME NEW f \in frames, frames' = frames \ {f},
               delivered' = delivered, sent' = sent
        PROVE  Service!ServiceNext \/ UNCHANGED seen
    <3>1. CASE f.h.o \in Offered
      <4>1. Owing(f) \in carriedNow
        BY <3>1 DEF Owing
      <4>2. /\ carriedNow \ {Owing(f)} \subseteq carriedNow'
            /\ carriedNow' \subseteq carriedNow
        BY <2>3 DEF Owing
      <4>3. 0 <= Len(Owing(f).todo)
        <5>1. OwedTo(f) = Rest(f.h.o, Len(f.h.served))
          BY <3>1, FrameIsOwedRest
        <5>2. Policy(f.h.o) \in Seq(Nat) /\ Len(f.h.served) \in Nat
          BY <3>1, PolicyType DEF TypeOK, Histories, Path
        <5> QED
          BY <5>1, <5>2 DEF Rest, Owing
      <4> QED
        BY <2>3, <4>1, <4>2, <4>3 DEF Service!ServiceNext, Service!Carry
    <3>2. CASE f.h.o \notin Offered
      <4>1. {g \in frames' : g.h.o \in Offered} = {g \in frames : g.h.o \in Offered}
        BY <2>3, <3>2
      <4> QED
        BY <2>3, <4>1
    <3> QED
      BY <3>1, <3>2
  <2>4. ASSUME NEW f \in frames, Forward(f)
        PROVE  Service!ServiceNext \/ UNCHANGED seen
    <3>1. CASE f.h.o \in Offered
      <4>1. \E k \in {0, 1} : Service!Carry(Owing(f), k)
        BY <1>0, <2>4, <3>1, ForwardCarries
      <4>2. Owing(f) \in carriedNow
        BY <3>1 DEF Owing
      <4> QED
        BY <4>1, <4>2 DEF Service!ServiceNext, Service!Carry
    <3>2. CASE f.h.o \notin Offered
      <4>1. Outputs(f) = {}
        BY <3>2, OfferedIsForwarded
      <4>2. frames' = frames \ {f} /\ delivered' = delivered /\ sent' = sent
        BY <2>4, <4>1 DEF Forward
      <4> QED
        BY <2>3, <4>2
    <3> QED
      BY <3>1, <3>2
  <2>5. ASSUME NEW f \in frames, Lose(f) \/ PuntToCpu(f) \/ DropAtIngress(f)
        PROVE  frames' = frames \ {f} /\ delivered' = delivered /\ sent' = sent
    BY <2>5 DEF Lose, PuntToCpu, DropAtIngress, Unforwarded
  <2>6. ASSUME NEW e \in pending, Install(e)
        PROVE  UNCHANGED seen
    BY <2>6 DEF Install
  <2>7. CASE UNCHANGED vars
    BY <2>7 DEF vars
  <2> QED
    BY <2>1, <2>2, <2>3, <2>4, <2>5, <2>6, <2>7 DEF Next, Process
<1> QED
  BY <1>0, <1>1, <1>2, TypeCorrect, ChainsConsistent, HeadersAgree, OverlayHolds,
     ServiceHolds, ReceiverHolds, PTL DEF Spec, ImplementsService, Service!ServiceSpec
-----------------------------------------------------------------------------
(* Reports: a monitored packet carries telemetry from its first switch on, *)
(* and the switch that delivers it reports it.                             *)

ReportTables ==
  ReceiverTables \cup NumberTables
    \cup {"tb_int_source", "tb_set_sink", "sessions", "tb_generate_report", "groups"}

ToHost(f, c) == <<f.at, c.port>> \in DOMAIN HostAt
MonitoredInv ==
  \A f \in frames : f.h.o \in Offered =>
    /\ f.h.trace # << >> => (f.p.int <=> Monitored(f.h.o))
    /\ Split(f) => HasMembers(f.at, Turn(f.h.o)[f.h.o.dscp].mac)

LEMMA ReportTablesAll ==
  ASSUME Installed(ReportTables)
  PROVE  /\ Installed(ReceiverTables) /\ Installed(ServiceTables)
         /\ Installed(OverlayTables) /\ Installed(NumberTables)
         /\ Installed({"tb_set_sink"})
  BY DEF Installed, ReportTables, ReceiverTables, ServiceTables

(* Away from the multicasters forwarding keeps the flow of a packet. *)
LEMMA ForwardedKeepsFlow ==
  ASSUME NEW s \in Switch, NEW in, NEW p \in Packet, ~IsMulticaster(s)
  PROVE  LET r == Forwarded(s, in, p)
         IN  r.p.src = p.src /\ r.p.dst = p.dst /\ r.p.l4 = p.l4
  <1> DEFINE e == Encapsulated(s, in, p)
             v == Served(s, e)
             q == AfterSfc(s, in, p)
             Same(x, y) == x.src = y.src /\ x.dst = y.dst /\ x.l4 = y.l4
  <1>1. e \in Packet /\ Same(e, p)
    BY EncapsulatedType DEF Encapsulated, Packet
  <1> HIDE DEF e
  <1>2. v \in Packet /\ Same(v, e)
    BY <1>1, ServedType DEF Served, Packet
  <1> HIDE DEF v
  <1>3. Same(Decapsulated(v), v)
    BY <1>2 DEF Decapsulated, Packet
  <1>4. q \in Packet /\ Same(q, p)
    BY <1>1, <1>2, <1>3, AfterSfcType DEF AfterSfc, e, v
  <1> HIDE DEF q
  <1>5. SetDstAddr(s, q) = q
    BY DEF IsMulticaster, SetDstAddr, Multicaster, Hit
  <1>6. Same(Ipv4Forward(s, q), q)
    BY <1>4 DEF Ipv4Forward, Packet
  <1>7. Same([q EXCEPT !.ttl = @ - 1], q)
    BY <1>4 DEF Packet
  <1>8. Forwarded(s, in, p).p \in {[q EXCEPT !.ttl = @ - 1], Ipv4Forward(s, q), q}
    BY <1>5 DEF Forwarded, SfcForward, L3Forward, Routed, SetMulticastGroup, q
  <1> QED
    BY <1>4, <1>6, <1>7, <1>8

(* A packet has telemetry after ingress if it is monitored, and only then. *)
LEMMA IngressMonitors ==
  ASSUME TypeOK, ChainConsistent, HeaderInv, ServiceInv, MonitoredInv,
         Installed(ReportTables), NEW f \in frames, Forward(f), f.h.o \in Offered
  PROVE  /\ Ingress(f.at, f.in, f.p).p.int <=> Monitored(f.h.o)
         /\ f.p.int <=> f.h.trace # << >> /\ Monitored(f.h.o)
  <1> DEFINE o == f.h.o
             s == f.at
             r == Forwarded(s, f.in, f.p)
             key == <<o.src, o.dst, o.l4>>
  <1>1. /\ s \in Switch /\ f.p \in Packet /\ ~TtlExpired(f.p) /\ r.p \in Packet
        /\ Ingress(s, f.in, f.p).p = IntSource(s, f.in, r.p)
        /\ r.p.int = f.p.int
    <2>1. s \in Switch /\ f.p \in Packet /\ ~TtlExpired(f.p)
      BY Forwarding
    <2> QED
      BY <2>1, ForwardedDst, ForwardedKeepsInt DEF SameInt
  <1>2. CASE f.h.trace # << >>
    <2>1. f.in \notin DOMAIN Config[s]["tb_set_source"]
      <3> SUFFICES ASSUME f.in \in DOMAIN Config[s]["tb_set_source"] PROVE FALSE
        OBVIOUS
      <3>1. f.h = NoHistory(f.h.o)
        BY DEF ChainConsistent
      <3>2. NoHistory(f.h.o).trace = << >>
        BY DEF NoHistory
      <3> QED
        BY <1>2, <3>1, <3>2
    <2>2. IntSource(s, f.in, r.p) = r.p
      BY <2>1 DEF IntSource, IsSource, Hit
    <2> QED
      BY <1>1, <1>2, <2>2 DEF MonitoredInv
  <1>3. CASE f.h.trace = << >>
    <2>1. /\ AtItsHost(f) /\ f.p = FromHost(o) /\ ~f.p.int
          /\ <<s, f.in>> \in DOMAIN HostAt /\ HostAt[<<s, f.in>>] = o.host
      BY <1>3 DEF ServiceInv, AtItsHost, HeaderInv, Untouched
    <2>2. /\ ~IsMulticaster(s) /\ f.in \in DOMAIN Config[s]["tb_set_source"]
      <3>1. <<s, f.in>>[1] = s /\ <<s, f.in>>[2] = f.in
        OBVIOUS
      <3> QED
        BY <2>1, <3>1, EdgePortsMarked DEF IsMulticaster
    <2>3. Monitored(o) <=> key \in DOMAIN Config[s]["tb_int_source"]
      <3>1. <<s, f.in>>[1] = s
        OBVIOUS
      <3> QED
        BY <2>1, <3>1, HostsAtEdge DEF Monitored
    <2>4. <<r.p.src, r.p.dst, r.p.l4>> = key /\ r.p.l4 = o.l4
      BY <1>1, <2>1, <2>2, ForwardedKeepsFlow DEF FromHost
    <2>5. Hit(s, "tb_int_source", <<r.p.src, r.p.dst, r.p.l4>>) <=> Monitored(o)
      <3>1. Monitored(o) => Hit(s, "tb_int_source", key)
        BY <2>3, InstalledHits DEF ReportTables
      <3>2. Hit(s, "tb_int_source", key) => Monitored(o)
        BY <2>3 DEF Hit
      <3> QED
        BY <2>4, <3>1, <3>2
    <2>6. Monitored(o) => IsSource(s, f.in, r.p)
      <3> HAVE Monitored(o)
      <3>1. key[3] # NoL4
        BY <1>1, <2>1, <2>3, SinksReport
      <3>2. o.l4 # NoL4 /\ o.eth = "IPV4"
        BY <3>1, HostsAtEdge
      <3>3. HasIPv4(r.p)
        <4>1. f.p.eth = "IPV4"
          BY <2>1, <3>2 DEF FromHost
        <4>2. Carries(Ingress(s, f.in, f.p), AfterSfc(s, f.in, f.p))
              /\ (HasIPv4(AfterSfc(s, f.in, f.p)) <=> HasIPv4(f.p))
          BY <1>1, IngressCarries, AfterSfcKeeps
        <4>3. SameChain(r.p, AfterSfc(s, f.in, f.p))
          BY <1>1, ForwardedKeepsChain
        <4> QED
          BY <4>1, <4>2, <4>3 DEF SameChain, HasIPv4
      <3>4. Hit(s, "tb_set_source", f.in)
        BY <2>2, InstalledHits DEF ReportTables, ReceiverTables, ServiceTables
      <3> QED
        BY <2>4, <3>2, <3>3, <3>4 DEF IsSource, HasL4
    <2>7. IntSource(s, f.in, r.p).int <=> Monitored(o)
      <3>1. CASE Monitored(o)
        BY <1>1, <2>5, <2>6, <3>1 DEF IntSource, Packet
      <3>2. CASE ~Monitored(o)
        BY <1>1, <2>1, <2>5, <3>2 DEF IntSource
      <3> QED
        BY <3>1, <3>2
    <2> QED
      BY <1>1, <1>3, <2>1, <2>7
  <1> QED
    BY <1>2, <1>3

(* Only what a multicaster has turned into multicast goes to a group. *)
LEMMA GroupIsTurned ==
  ASSUME TypeOK, ChainConsistent, HeaderInv, OverlayInv, ServiceInv,
         ReceiverInv, Installed(ReportTables), NEW f \in frames, Forward(f),
         f.h.o \in Offered, Ingress(f.at, f.in, f.p).mcast_grp # 0
  PROVE  LET r == Ingress(f.at, f.in, f.p)
             mac == Turn(f.h.o)[f.h.o.dscp].mac
         IN  /\ Turned(f.h.o) /\ AfterSfc(f.at, f.in, f.p).eth # "SFC"
             /\ r.is_multicaster <=> IsMulticaster(f.at)
             /\ IsMulticaster(f.at) <=> ~OffOverlay(f)
             /\ r.egress_spec = NoPort /\ r.became_multicast
             /\ mac \in DOMAIN Config[f.at]["multicast"]
             /\ r.mcast_grp = Config[f.at]["multicast"][mac]
  <1> DEFINE s == f.at
             q == AfterSfc(s, f.in, f.p)
             m == SetDstAddr(s, q)
             u == L3Forward(s, q)
             r == Ingress(s, f.in, f.p)
  <1>1. s \in Switch /\ f.p \in Packet /\ Installed(ReceiverTables)
    BY Forwarding, ReportTablesAll
  <1>2. ~SfcForwards(s, q) /\ Forwarded(s, f.in, f.p) = u
    BY DEF Ingress, Forwarded, SfcForward, Routed
  <1>3. q.eth # "SFC"
    BY <1>1, <1>2, SfcGoesOn, ReportTablesAll
  <1>4. IF Turned(f.h.o) THEN AsGroup(m, f.h.o) /\ (IsMulticaster(s) <=> ~OffOverlay(f))
                         ELSE AsAddressed(m, f.h.o)
    BY <1>1, <1>3, Readdressed
  <1>5. u.mcast_grp # 0
    BY <1>2 DEF Ingress
  <1>6. /\ Hit(s, "multicast", m.dmac)
        /\ u = [SetMulticastGroup(s, m) EXCEPT !.is_multicaster = Multicaster(s)]
    BY <1>5 DEF L3Forward, Routed
  <1>7. /\ u.egress_spec = NoPort /\ u.became_multicast
        /\ u.is_multicaster = Multicaster(s)
        /\ u.mcast_grp = Config[s]["multicast"][m.dmac]
    BY <1>6 DEF SetMulticastGroup, Routed
  <1>8. /\ r.egress_spec = u.egress_spec /\ r.became_multicast = u.became_multicast
        /\ r.is_multicaster = u.is_multicaster /\ r.mcast_grp = u.mcast_grp
    BY <1>2, <1>6 DEF Ingress, SetMulticastGroup, Routed
  <1>9. Multicaster(s) <=> IsMulticaster(s)
    BY <1>1, InstalledHits DEF Multicaster, IsMulticaster, ReceiverTables, Hit
  <1> HIDE DEF m, r, u
  <1>10. m.dmac \in DOMAIN Config[s]["multicast"]
    BY <1>6 DEF Hit
  <1>11. Turned(f.h.o) /\ m.dmac = Turn(f.h.o)[f.h.o.dscp].mac
    BY <1>1, <1>4, <1>10 DEF AsAddressed, AsGroup
  <1> QED
    BY <1>3, <1>4, <1>7, <1>8, <1>9, <1>10, <1>11 DEF r

(* A sink has a copy for a host: the port it matched, or one of the group. *)
LEMMA SinkDelivers ==
  ASSUME TypeOK, ChainConsistent, HeaderInv, OverlayInv, ServiceInv,
         ReceiverInv, MonitoredInv, Installed(ReportTables),
         NEW f \in frames, Forward(f), f.h.o \in Offered,
         IsSink(f.at, Ingress(f.at, f.in, f.p))
  PROVE  /\ \E c \in Outputs(f) : ToHost(f, c)
         /\ \A c \in Outputs(f) : <<f.at, c.port>> \notin DOMAIN Link
  <1> DEFINE s == f.at
             r == Ingress(s, f.in, f.p)
             mac == Turn(f.h.o)[f.h.o.dscp].mac
  <1>1. s \in Switch /\ Installed(ReceiverTables) /\ Installed(ServiceTables)
    BY Forwarding, ReportTablesAll
  <1>2. r.is_multicast => r.became_multicast
    BY DEF Ingress, Forwarded, SfcForward, L3Forward, Routed, SetMulticastGroup
  <1>3. ASSUME NEW o \in CopyPorts(s, r), <<s, o>> \in DOMAIN HostAt
        PROVE  \E c \in Outputs(f) : ToHost(f, c)
    <2>1. [port |-> o, p |-> Egress(s, r)] \in Outputs(f)
      BY <1>2, <1>3 DEF Outputs, Copies, LoopGuard
    <2> QED
      BY <1>3, <2>1 DEF ToHost
  <1>4. \A c \in Outputs(f) : c.port \in CopyPorts(s, r)
    BY DEF Outputs, Copies
  <1>5. ASSUME Hit(s, "tb_set_sink", r.egress_spec)
        PROVE  /\ <<s, r.egress_spec>> \in DOMAIN HostAt
               /\ r.egress_spec \notin {NoPort, DropPort}
    <2>1. <<s, r.egress_spec>> \in DOMAIN HostAt
      BY <1>1, <1>5, SinksReport DEF Hit
    <2>2. r.egress_spec \in Port
      BY <2>1, NetworkTyped
    <2> QED
      BY <2>1, <2>2, ConstantsTyped
  <1>6. CASE r.mcast_grp = 0
    <2>1. <<s, r.egress_spec>> \in DOMAIN HostAt /\ r.egress_spec # DropPort
      BY <1>5, <1>6 DEF IsSink
    <2>2. CopyPorts(s, r) = {r.egress_spec}
      BY <1>6, <2>1 DEF CopyPorts
    <2> HIDE DEF r
    <2> QED
      BY <1>3, <1>4, <2>1, <2>2, HostsAtEdge
  <1>7. CASE r.mcast_grp # 0
    <2>1. /\ Turned(f.h.o) /\ AfterSfc(s, f.in, f.p).eth # "SFC"
          /\ r.is_multicaster <=> IsMulticaster(s)
          /\ IsMulticaster(s) <=> ~OffOverlay(f)
          /\ r.egress_spec = NoPort
          /\ mac \in DOMAIN Config[s]["multicast"]
          /\ r.mcast_grp = Config[s]["multicast"][mac]
      BY <1>7, GroupIsTurned
    <2> HIDE DEF r, mac
    <2>2. ~r.is_multicaster
      BY <1>5, <2>1 DEF IsSink, r
    <2>3. Split(f)
      BY <2>1, <2>2 DEF Split
    <2>4. HasMembers(s, mac)
      BY <2>3 DEF MonitoredInv, mac
    <2>5. PICK o \in GroupPorts(s, mac) : <<s, o>> \in DOMAIN HostAt
      BY <2>4 DEF HasMembers
    <2>6. /\ r.mcast_grp \in DOMAIN Config[s]["groups"]
          /\ o \in Config[s]["groups"][r.mcast_grp]
      BY <2>1, <2>5 DEF GroupPorts
    <2>7. o \in CopyPorts(s, r)
      BY <1>7, <2>6, InstalledHits DEF CopyPorts, ReportTables
    <2>8. ASSUME NEW c \in Outputs(f)
          PROVE  <<s, c.port>> \notin DOMAIN Link
      <3>1. Leads(f, c)
        BY <1>1, <2>1, <2>8, LeadsOn
      <3> QED
        BY <1>1, <2>1, <2>3, <3>1, GroupGoes DEF Split
    <2> QED
      BY <1>3, <2>5, <2>7, <2>8
  <1> QED
    BY <1>6, <1>7

(* A switch reports a frame when it delivers it and it is monitored. *)
LEMMA ReportedIfDelivered ==
  ASSUME TypeOK, ChainConsistent, HeaderInv, OverlayInv, ServiceInv,
         ReceiverInv, MonitoredInv, Installed(ReportTables),
         NEW f \in frames, Forward(f)
  PROVE  Reports(f.at, f.in, f.p) <=>
           /\ f.h.o \in Offered /\ Monitored(f.h.o)
           /\ \E c \in Outputs(f) : ToHost(f, c)
  <1> DEFINE s == f.at
             r == Ingress(s, f.in, f.p)
             q == AfterSfc(s, f.in, f.p)
  <1>1. /\ s \in Switch /\ Installed(ReceiverTables) /\ Installed(ServiceTables)
        /\ Installed(OverlayTables) /\ Installed({"tb_set_sink"})
    BY Forwarding, ReportTablesAll
  <1>2. ASSUME Reports(s, f.in, f.p)
        PROVE  /\ f.h.o \in Offered /\ Monitored(f.h.o)
               /\ \E c \in Outputs(f) : ToHost(f, c)
    <2>1. f.p.int /\ IsSink(s, r)
      BY <1>2 DEF Reports, Cloned
    <2>2. f.h.o \in Offered
      BY <2>1 DEF ServiceInv, IsProbe
    <2> HIDE DEF r
    <2> QED
      BY <2>1, <2>2, IngressMonitors, SinkDelivers DEF r
  <1>3. ASSUME f.h.o \in Offered, Monitored(f.h.o),
               NEW c \in Outputs(f), ToHost(f, c)
        PROVE  Reports(s, f.in, f.p)
    <2> DEFINE o == f.h.o
    <2>1. <<s, c.port>> \in DOMAIN HostAt /\ <<s, c.port>>[1] = s
      BY <1>3 DEF ToHost
    <2>2. r.p.int /\ IsSink(s, r)
      BY <1>1, <1>3, <2>1, IngressMonitors, IngressOfFrame, HostPortIsSink
    <2>3. f.h.trace # << >>
      <3> SUFFICES ASSUME f.h.trace = << >> PROVE FALSE
        OBVIOUS
      <3>1. /\ AtItsHost(f) /\ <<s, f.in>> \in DOMAIN HostAt
            /\ HostAt[<<s, f.in>>] = o.host /\ <<s, f.in>>[1] = s
        BY <1>3 DEF ServiceInv, AtItsHost
      <3>2. Leads(f, c)
        BY <1>1, <1>3, <2>1, HostsAreOffOverlay, LeadsOn
      <3>3. ~IsMulticaster(s)
        BY <2>1, EdgePortsMarked DEF IsMulticaster
      <3>4. HostAt[<<s, c.port>>] = o.dst
        BY <2>1, <3>2, <3>3 DEF Leads, OffOverlay
      <3>5. <<o.src, o.dst, o.l4>> \in DOMAIN Config[s]["tb_int_source"]
        BY <1>3, <3>1, HostsAtEdge DEF Monitored
      <3>6. <<o.src, o.dst, o.l4>>[2] = o.dst
        OBVIOUS
      <3> QED
        BY <1>1, <2>1, <3>4, <3>5, <3>6, SinksReport
    <2>4. f.p.int
      BY <1>3, <2>3, IngressMonitors
    <2>5. Hit(s, "sessions", 100) /\ Hit(s, "tb_generate_report", 0)
      BY <2>1, SinksReport, InstalledHits DEF ReportTables
    <2> QED
      BY <2>2, <2>4, <2>5 DEF Reports, Cloned
  <1> QED
    BY <1>2, <1>3

LEMMA MonitoredHolds ==
  ASSUME Installed(ReportTables), NoneToGroups PROVE Spec => []MonitoredInv
<1> DEFINE Good(g) ==
      g.h.o \in Offered =>
        /\ g.h.trace # << >> => (g.p.int <=> Monitored(g.h.o))
        /\ Split(g) => HasMembers(g.at, Turn(g.h.o)[g.h.o.dscp].mac)
<1>0. /\ Installed(ReceiverTables) /\ Installed(ServiceTables)
      /\ Installed(OverlayTables)
  BY ReportTablesAll
<1>1. Init => MonitoredInv
  BY DEF Init, MonitoredInv
<1>2. /\ TypeOK /\ ChainConsistent /\ HeaderInv /\ OverlayInv /\ ServiceInv
      /\ ReceiverInv /\ MonitoredInv /\ [Next]_vars
      => MonitoredInv'
  <2> SUFFICES ASSUME TypeOK, ChainConsistent, HeaderInv, OverlayInv, ServiceInv,
                      ReceiverInv, MonitoredInv, [Next]_vars,
                      NEW g \in frames' \ frames
               PROVE  Good(g)
    BY DEF MonitoredInv, Split, OffOverlay
  <2>1. ASSUME NEW o, g.h = NoHistory(o)
        PROVE  Good(g)
    BY <2>1 DEF NoHistory, Split, OffOverlay
  <2>2. ASSUME NEW f \in frames, NEW c \in Outputs(f), IsPassedOn(g, f, c)
        PROVE  Good(g)
    <3> DEFINE r == Ingress(f.at, f.in, f.p)
               o == f.h.o
               x == <<f.at, c.port>>
    <3>1. /\ f.at \in Switch /\ Forward(f) /\ o \in Offered /\ x \in DOMAIN Link
          /\ g.h = History(f) /\ g.h.o = o /\ g.p = c.p /\ g.at = Link[x][1]
      BY <2>2, Forwarding, OfferedIsForwarded DEF IsPassedOn
    <3>2. ~IsSink(f.at, r)
      BY <3>1, SinkDelivers
    <3>3. c.p.int <=> r.p.int
      BY <3>1, <3>2, CopyOfFrame
    <3>4. r.p.int <=> Monitored(o)
      BY <3>1, IngressMonitors
    <3> HIDE DEF r
    <3>5. ASSUME Split(g)
          PROVE  HasMembers(g.at, Turn(o)[o.dscp].mac)
      <4>1. Turned(o) /\ g.p.eth # "SFC"
        BY <3>1, <3>5 DEF Split, OffOverlay
      <4>2. AfterSfc(f.at, f.in, f.p).eth # "SFC"
        BY <3>1, <4>1, CopyOfFrame DEF SameChain
      <4>3. c.port \in GroupPorts(f.at, Turn(o)[o.dscp].mac)
        BY <1>0, <3>1, <4>1, <4>2, LeadsOn DEF Leads
      <4>4. PICK t \in Switch : /\ Turn(o) = Config[t]["multicast_dst_addr"]
                                /\ o.dscp \in DOMAIN Config[t]["multicast_dst_addr"]
        <5>1. HasPolicy(History(f)) /\ History(f).o = o
          BY <1>0, <3>1, PolicyStays
        <5>2. WellChained(History(f).policy, History(f).todo0)
          BY StaysWellChained
        <5> QED
          BY <4>1, <5>1, <5>2, TurnIsAtSwitch
      <4> QED
        BY <3>1, <4>3, <4>4, GroupsEnd
    <3> QED
      BY <3>1, <3>3, <3>4, <3>5
  <2> QED
    BY <2>1, <2>2, NewFrames DEF IsSent, IsProbed
<1> QED
  BY <1>0, <1>1, <1>2, TypeCorrect, ChainsConsistent, HeadersAgree, OverlayHolds,
     ServiceHolds, ReceiverHolds, PTL DEF Spec

(* Reports and deliveries of monitored packets, switch by switch. *)
Reached(o, s) == \E d \in delivered : d.h.o = o /\ LastOf(d.h.trace) = s
Reported(o, s) == \E r \in reports : r.h.o = o /\ r.node = s
ReportInv ==
  /\ \A r \in reports : /\ r.h.o \in Offered /\ Monitored(r.h.o)
                        /\ Reached(r.h.o, r.node)
  /\ \A d \in delivered :
       Monitored(d.h.o) => Reported(d.h.o, LastOf(d.h.trace))
  /\ \A r, q \in reports : r.h.o = q.h.o /\ r.node = q.node => r = q

LEMMA ReportsByForward ==
  ASSUME TypeOK, ChainConsistent, HeaderInv, OverlayInv, ServiceInv,
         ReceiverInv, MonitoredInv, OnceInv, ReportInv, Installed(ReportTables),
         NEW f \in frames, Forward(f)
  PROVE  ReportInv'
  <1> DEFINE o == f.h.o
             r == Report(f)
  <1>1. /\ f.at \in Switch /\ History(f).o = o /\ LastOf(History(f).trace) = f.at
        /\ r.node = f.at /\ r.h = History(f)
    <2>1. f.at \in Switch /\ History(f).o = o /\ f.h.trace \in Seq(Switch)
      BY Forwarding DEF Histories, Path
    <2>2. History(f).trace = Append(f.h.trace, f.at)
      BY Forwarding
    <2>3. LastOf(History(f).trace) = f.at
      BY <2>1, <2>2 DEF LastOf
    <2>4. SwitchId(f.at) = f.at
      BY <2>1, ReportTablesAll, SwitchesReport
    <2> QED
      BY <2>1, <2>3, <2>4 DEF Report
  <1>2. Reports(f.at, f.in, f.p) <=>
          /\ o \in Offered /\ Monitored(o)
          /\ \E c \in Outputs(f) : ToHost(f, c)
    BY ReportedIfDelivered
  <1>3. /\ delivered \subseteq delivered' /\ reports \subseteq reports'
        /\ \A k \in reports' : k \in reports \/ (Reports(f.at, f.in, f.p) /\ k = r)
        /\ Reports(f.at, f.in, f.p) => r \in reports'
    BY DEF Forward
  <1>4. ASSUME NEW c \in Outputs(f), ToHost(f, c)
        PROVE  Reached(o, f.at)'
    <2> DEFINE d == [host |-> HostAt[<<f.at, c.port>>], p |-> c.p, h |-> History(f)]
    <2>1. d \in delivered'
      BY <1>4 DEF Forward, ToHost
    <2>2. d.h = History(f)
      OBVIOUS
    <2> QED
      BY <1>1, <2>1, <2>2 DEF Reached
  <1> HIDE DEF r
  <1>5. ASSUME NEW k \in reports'
        PROVE  /\ k.h.o \in Offered /\ Monitored(k.h.o)
               /\ Reached(k.h.o, k.node)'
    <2>1. CASE k \in reports
      BY <1>3, <2>1 DEF ReportInv, Reached
    <2>2. CASE Reports(f.at, f.in, f.p) /\ k = r
      BY <1>1, <1>2, <1>4, <2>2
    <2> QED
      BY <1>3, <2>1, <2>2
  <1>6. ASSUME NEW d \in delivered', Monitored(d.h.o)
        PROVE  Reported(d.h.o, LastOf(d.h.trace))'
    <2>1. CASE d \in delivered
      BY <1>3, <1>6, <2>1 DEF ReportInv, Reported
    <2>2. ASSUME NEW c \in Outputs(f), IsDelivered(d, f, c)
          PROVE  Reported(d.h.o, LastOf(d.h.trace))'
      <3>1. d.h = History(f) /\ ToHost(f, c) /\ o \in Offered
        BY <2>2, OfferedIsForwarded DEF IsDelivered, ToHost
      <3>2. r \in reports'
        BY <1>1, <1>2, <1>3, <1>6, <3>1
      <3> QED
        BY <1>1, <3>1, <3>2 DEF Reported
    <2> QED
      BY <2>1, <2>2, AfterForward
  <1>7. ASSUME NEW k \in reports, Reports(f.at, f.in, f.p)
        PROVE  ~(k.h.o = o /\ k.node = f.at)
    <2> SUFFICES ASSUME k.h.o = o, k.node = f.at PROVE FALSE
      OBVIOUS
    <2>1. Reached(o, f.at)
      BY DEF ReportInv
    <2> QED
      BY <2>1 DEF Reached, OnceInv
  <1>8. ASSUME NEW k \in reports', NEW m \in reports',
               k.h.o = m.h.o, k.node = m.node
        PROVE  k = m
    BY <1>1, <1>3, <1>7, <1>8 DEF ReportInv
  <1> QED
    BY <1>5, <1>6, <1>8 DEF ReportInv

(***************************************************************************)
(* The collector gets exactly one report of a monitored packet from each   *)
(* switch that delivered it, of a multicast one from each switch it ended  *)
(* at, and none from any other (clone at the sink, int_report.p4), where   *)
(* the tables of the service, the multicasters and the telemetry are in    *)
(* place and hosts address no group themselves.                            *)
(***************************************************************************)
THEOREM ReportedOncePerSink ==
  ASSUME Installed(ReportTables), NoneToGroups
  PROVE  Spec => []OneReportPerSink
<1>0. /\ Installed(ReceiverTables) /\ Installed(ServiceTables)
      /\ Installed(OverlayTables)
  BY ReportTablesAll
<1>1. Init => ReportInv
  BY DEF Init, ReportInv
<1>2. /\ TypeOK /\ ChainConsistent /\ HeaderInv /\ OverlayInv /\ ServiceInv
      /\ ReceiverInv /\ MonitoredInv /\ OnceInv /\ ReportInv /\ [Next]_vars
      => ReportInv'
  <2> SUFFICES ASSUME TypeOK, ChainConsistent, HeaderInv, OverlayInv, ServiceInv,
                      ReceiverInv, MonitoredInv, OnceInv, ReportInv, [Next]_vars
               PROVE  ReportInv'
    OBVIOUS
  <2>1. CASE UNCHANGED <<reports, delivered>>
    BY <2>1 DEF ReportInv, Reached, Reported
  <2>2. ASSUME NEW f \in frames, Forward(f)
        PROVE  ReportInv'
    BY <2>2, ReportsByForward
  <2>3. \/ UNCHANGED <<reports, delivered>>
        \/ \E f \in frames : Forward(f)
    BY DEF Next, HostSend, PacketOut, Lose, Process, PuntToCpu, DropAtIngress,
           Unforwarded, Install, vars
  <2> QED
    BY <2>1, <2>2, <2>3
<1>3. ReportInv => OneReportPerSink
  <2> SUFFICES ASSUME ReportInv, NEW o \in sent, NEW s \in Switch
               PROVE  Cardinality({r \in reports : r.h.o = o /\ r.node = s}) =
                        IF o \in Offered /\ Monitored(o) /\ Reached(o, s)
                        THEN 1 ELSE 0
    BY DEF OneReportPerSink, Reached, LastOf
  <2> DEFINE m == {r \in reports : r.h.o = o /\ r.node = s}
  <2>1. CASE o \in Offered /\ Monitored(o) /\ Reached(o, s)
    <3>1. Reported(o, s)
      BY <2>1 DEF ReportInv, Reached
    <3>2. PICK r \in reports : r.h.o = o /\ r.node = s
      BY <3>1 DEF Reported
    <3>3. m = {r}
      BY <3>2 DEF ReportInv
    <3>4. Cardinality({r}) = 1
      BY FS_Singleton
    <3> QED
      BY <2>1, <3>3, <3>4
  <2>2. CASE ~(o \in Offered /\ Monitored(o) /\ Reached(o, s))
    <3>1. m = {}
      BY <2>2 DEF ReportInv
    <3> QED
      BY <2>2, <3>1, FS_EmptySet
  <2> QED
    BY <2>1, <2>2
<1> QED
  BY <1>0, <1>1, <1>2, <1>3, TypeCorrect, ChainsConsistent, HeadersAgree,
     OverlayHolds, ServiceHolds, ReceiverHolds, MonitoredHolds, OnceToEachHost, PTL
     DEF Spec
=============================================================================
