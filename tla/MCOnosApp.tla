------------------------------ MODULE MCOnosApp ------------------------------
(* The ONOS application for TLC: two switches in a row, a host.            *)
EXTENDS OnosApp

MCHost == {"h1"}
MCPort == {"p1", "p2", "p3"}
MCHostAt == [h \in MCHost |-> <<"s1", "p1">>]
NoHost == {}
NoHostAt == [h \in NoHost |-> <<"s1", "p1">>]
OneInterface == {<<"s1", "p1">>}
MCGid == {"gid1", "gid100", "gid255"}

PairDev == {"s1", "s2"}
OneWay == {<<"s1", "p2", "s2">>}
PairInterface == {<<"s1", "p1">>, <<"s1", "p2">>, <<"s2", "p2">>}
PairKey == PairDev \cup MCHost \cup {"bcast", "acl7", "sink2"}

(* Commands for both switches. *)
PairScript ==
  <<[dev |-> "s1", kind |-> "route_insert", key |-> "acl7", arg |-> "p1"],
    [dev |-> "s2", kind |-> "mcast_port_add", key |-> "gid1", arg |-> {"p2"}],
    [dev |-> "s1", kind |-> "mirroring_add", key |-> "gid100", arg |-> {"p2"}],
    [dev |-> "s2", kind |-> "int_rule", key |-> "sink2", arg |-> "p2"]>>
NoLink == {}
OnlyS1 == {"s1"}
NoScript == << >>
=============================================================================
