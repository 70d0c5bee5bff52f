---------------------------- MODULE MCSfcNetwork ----------------------------
(* The deployed network for TLC: values for the constants of SfcNetwork. *)
EXTENDS DeploymentRules
D == INSTANCE Deployment

MCSwitch == D!Switches
MCHost   == D!Hosts
MCPort   == D!Ports
MCAddr   == D!Addrs
MCL4Kind == D!L4Kinds
MCConfig == D!DeployedConfig
MCLink   == D!DeployedLink
MCHostAt == D!DeployedHostAt
MCMembers == [g1 |-> D!Hosts, g2 |-> {"h2", "h4"}]

Send(hs, ds, dscps, l4s) ==
  {[host |-> a, eth |-> "IPV4", dmac |-> "none", src |-> a, dst |-> b,
    l4 |-> l4, dscp |-> d, len |-> 1000, lldp |-> << >>] :
      <<a, b, d, l4>> \in {x \in hs \X ds \X dscps \X l4s : x[1] # x[2]}}

AllDscps == DOMAIN D!Chain \cup {0, 7}

(* Every kind of packet. *)
OfferAll == Send(D!Hosts, D!Hosts, AllDscps, D!L4Kinds)
(* Flows whose packets are in the network together: monitored or not,      *)
(* unicast or turned into multicast, with a chain that comes back.         *)
OfferFlows == Send({"h1"}, {"h2"}, {12, 40}, {"web"})
                \cup Send({"h1"}, {"h2"}, {16}, {"other"})
                \cup Send({"h3"}, {"h1"}, {51}, {"web"})
NoneMixed == {}
NoProbes == {}
NoPush == {}

(* Link discovery: the ports of two switches. *)
SomeProbes == {x \in DOMAIN D!DeployedLink : x[1] \in {1, 3}}

(* A firewall that lists all hosts but h3. *)
MCConfigListed ==
  [D!DeployedConfig EXCEPT
     ![2].l3_fireWall = [h \in D!Hosts \ {"h3"} |-> "NoAction"]]

(* Rolling SFC out: two chains, and the entries they need, in any order. *)
OfferSfc == Send({"h1"}, {"h2"}, {12, 16}, {"web", "none"})
PushSfc ==
  {<<s, "sf_processing", s>> : s \in 1 .. 4}
    \cup {<<1, "sfc_classifier", d>> : d \in {12, 16}}
    \cup {<<1, "sfc_egress", 2>>, <<2, "sfc_egress", 3>>,
          <<2, "sfc_egress", 1>>, <<3, "sfc_egress", 4>>}
(* ... while hosts send to the one that the firewall does not list. *)
OfferRollout == OfferSfc \cup Send({"h1", "h4"}, {"h3"}, {0, 12}, {"web"})

(* A broadcast the ACL does not divert, as a DHCP request. *)
OfferBroadcast ==
  {[host |-> "h1", eth |-> "IPV4", dmac |-> "bcast", src |-> "h1",
    dst |-> "none", l4 |-> "other", dscp |-> 0, len |-> 300,
    lldp |-> << >>]}
=============================================================================
