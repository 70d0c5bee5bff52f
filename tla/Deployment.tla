----------------------------- MODULE Deployment -----------------------------
(***************************************************************************)
(* The network the repository deploys: topology.json, the entries of the   *)
(* files under config/ and those the ONOS application adds (unicast to     *)
(* neighbouring switches, broadcast group 255, the ACL of the ONOS core).  *)
(* A MAC or IP address is named after its owner: a host, a switch, or one  *)
(* of the two multicast groups g1 (.1) and g2 (.2).                        *)
(***************************************************************************)
EXTENDS Naturals, Sequences

Switches == 1 .. 5
Hosts    == {"h1", "h2", "h3", "h4"}
Ports    == (1 .. 5) \cup {20, 100, 255}
SwMac    == <<"s1", "s2", "s3", "s4", "s5">>
Addrs    == Hosts \cup {SwMac[s] : s \in Switches}
              \cup {"g1", "g2", "bcast", "lldp", "onos", "none"}
Any      == 255             \* ternary wildcard, ANY of P4Switch
L4Kinds  == {"none", "web", "other"}

(* The switch a host hangs off, and the port of that switch. *)
Home     == [h1 |-> 1, h4 |-> 1, h2 |-> 4, h3 |-> 5]
HomePort == [h1 |-> 1, h4 |-> 20, h2 |-> 1, h3 |-> 20]
EdgePorts(s) == {HomePort[h] : h \in {x \in Hosts : Home[x] = s}}
Edge     == {Home[h] : h \in Hosts}

(* PortTo[s][t] is the port of s on the link to t. *)
PortTo == << <<0, 2, 3, 4, 5>>,
             <<1, 0, 3, 2, 4>>,
             <<1, 3, 0, 2, 4>>,
             <<4, 2, 3, 0, 5>>,
             <<1, 2, 3, 4, 0>> >>
Others(s) == Switches \ {s}
LinkPorts(s) == {PortTo[s][t] : t \in Others(s)}

DeployedLink ==
  [x \in UNION {{<<s, o>> : o \in LinkPorts(s)} : s \in Switches} |->
     LET t == CHOOSE u \in Others(x[1]) : PortTo[x[1]][u] = x[2]
     IN  <<t, PortTo[t][x[1]]>>]

DeployedHostAt ==
  [x \in {<<Home[h], HomePort[h]>> : h \in Hosts} |->
     CHOOSE h \in Hosts : <<Home[h], HomePort[h]>> = x]

-----------------------------------------------------------------------------
(* config/SFC *)

(* The chain of each DSCP value. *)
Chain ==
  [d \in {1, 2, 3, 4, 5, 10, 11, 12, 13, 14, 15, 16, 40, 51, 52} |->
     CASE d \in 1 .. 5    -> <<d>>
       [] d \in {10, 51, 52} -> <<2, 3>>
       [] d = 11          -> <<3, 2>>
       [] d = 12          -> <<2, 3, 4>>
       [] d = 13          -> <<2, 4>>
       [] d = 14          -> <<5, 4>>
       [] d = 15          -> <<2, 3, 1>>
       [] d = 16          -> <<2, 1>>
       [] d = 40          -> <<3>>]

(* Arguments sc sf1 sf2 sf3 sf4 of sfc_encapsulation: unused places hold 0. *)
ClassifierEntry(d) ==
  [sc    |-> Len(Chain[d]),
   chain |-> [i \in 1 .. 4 |-> IF i <= Len(Chain[d]) THEN Chain[d][i] ELSE 0]]

Classifier(s) == [d \in (IF s \in Edge THEN DOMAIN Chain ELSE {}) |->
                    ClassifierEntry(d)]
SfcEgress(s)  == [t \in Others(s) |-> PortTo[s][t]]
Firewall(s)   == [k \in (IF s = 2 THEN {1} ELSE {}) |-> "set_as_firewall"]
Allowed(s)    == [h \in (IF s = 2 THEN Hosts ELSE {}) |-> "NoAction"]

-----------------------------------------------------------------------------
(* config/IPv4 and config/IPv4_pseudo-SFC's common part; unicast entries   *)
(* for hosts come from config/IPv4, for switches from the ONOS application *)

Ipv4Lpm(s) ==
  [k \in {<<h, Any, Any>> : h \in Hosts} |->
     IF Home[k[1]] = s THEN k[1] ELSE SwMac[Home[k[1]]]]

Unicast(s) ==
  [a \in {h \in Hosts : Home[h] = s} \cup {SwMac[t] : t \in Others(s)} |->
     IF a \in Hosts THEN HomePort[a]
                    ELSE PortTo[s][CHOOSE t \in Others(s) : SwMac[t] = a]]

-----------------------------------------------------------------------------
(* config/rules_mcast, and group 255 of the ONOS application *)

McastGid(s) == [a \in {"g1", "g2", "bcast"} |->
                  CASE a = "g1" -> 1 [] a = "g2" -> 2 [] OTHER -> 255]

McastPorts(s) ==
  CASE s = 1 -> <<{1, 20}, {20}>>
    [] s = 2 -> << >>
    [] s = 3 -> <<{1, 2, 4}, {1, 2}>>
    [] s = 4 -> <<{1}, {1}>>
    [] s = 5 -> <<{20}>>

Groups(s) == [g \in DOMAIN McastPorts(s) \cup {255} |->
                IF g = 255 THEN LinkPorts(s) \cup EdgePorts(s)
                           ELSE McastPorts(s)[g]]

IsMulticaster(s) == [k \in {IF s = 3 THEN 1 ELSE 0} |-> "NoAction"]

DscpToGroup(s) ==
  [d \in (IF s = 3 THEN {40, 51, 52} ELSE {}) |->
     IF d = 51 THEN [mac |-> "g1", ip |-> "g1"]
               ELSE [mac |-> "g2", ip |-> "g2"]]

-----------------------------------------------------------------------------
(* config/INT_Tables *)

SourcePorts(s) == [o \in EdgePorts(s) |-> "int_set_source"]
SinkPorts(s)   == [o \in EdgePorts(s) |-> "int_set_sink"]

(* Monitored: web and database flows from a host here to another subnet. *)
MonitoredFlows(s) ==
  [k \in {<<a, b, "web">> : a \in {h \in Hosts : Home[h] = s},
                            b \in {h \in Hosts : Home[h] # s}} |-> "int_source"]

AtEdge(s, k, v) == [x \in (IF s \in Edge THEN {k} ELSE {}) |-> v]

-----------------------------------------------------------------------------
DeployedConfig ==
  [s \in Switches |->
    [acl                |-> [e \in {"LLDP", "ARP"} |-> "clone_to_cpu"],
     is_it_firewall     |-> Firewall(s),
     l3_fireWall        |-> Allowed(s),
     sfc_classifier     |-> Classifier(s),
     sf_processing      |-> [k \in {s} |-> "sf_action"],
     sfc_egress         |-> SfcEgress(s),
     multicaster        |-> IsMulticaster(s),
     multicast_dst_addr |-> DscpToGroup(s),
     ipv4_lpm           |-> Ipv4Lpm(s),
     unicast            |-> Unicast(s),
     multicast          |-> McastGid(s),
     groups             |-> Groups(s),
     tb_set_source      |-> SourcePorts(s),
     tb_set_sink        |-> SinkPorts(s),
     tb_int_source      |-> MonitoredFlows(s),
     tb_int_insert      |-> [k \in {0} |-> s],
     tb_int_inst_0003   |-> [k \in {15} |-> 4],
     tb_int_inst_0407   |-> [k \in {15} |-> 7],
     tb_generate_report |-> AtEdge(s, 0, "do_report_encapsulation"),
     sessions           |-> [k \in {99} \cup (IF s \in Edge THEN {100} ELSE {})
                               |-> IF k = 99 THEN 255 ELSE 100]]]
=============================================================================
