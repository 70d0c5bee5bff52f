--------------------------- MODULE MCAclPipeliner ---------------------------
(* The objectives of ONOS's packet service: two for discovery (ARP, LLDP), *)
(* one that is not for the controller, one without a treatment.            *)
EXTENDS AclPipeliner

MCDev == {"s1", "s2"}
MCObjective == {"arp", "lldp", "route", "bad"}
MCIssuedBy == [o \in MCObjective |-> IF o = "route" THEN "fwd" ELSE "core"]
MCTreatment == [arp |-> "cpu", lldp |-> "cpu", route |-> "other", bad |-> "null"]
=============================================================================
