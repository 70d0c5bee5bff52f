--------------------------- MODULE DeploymentRules ---------------------------
(***************************************************************************)
(* What the entries under config/ and the links of topology.json have in   *)
(* common, whatever the topology: the rules an operator has to follow for  *)
(* the SFC service, the telemetry and the multicast groups to work.  TLC   *)
(* evaluates them on the deployed tables, the proofs use nothing else of   *)
(* these tables.                                                           *)
(***************************************************************************)
EXTENDS SfcNetwork

(* A port has a host or a link behind it (topology.json), a host hangs off *)
(* one port, and what is not IPv4 has no transport header.                 *)
ASSUME HostsAtEdge ==
  /\ DOMAIN HostAt \cap DOMAIN Link = {}
  /\ \A x, y \in DOMAIN HostAt : HostAt[x] = HostAt[y] => x = y
  /\ \A o \in Offered : /\ \E x \in DOMAIN HostAt : HostAt[x] = o.host
                        /\ o.eth # "IPV4" => o.l4 = NoL4

(* The ports of hosts are INT sources and sinks (config/INT_Tables), and   *)
(* no multicaster has hosts (config/SFC/s3.txt).                           *)
ASSUME EdgePortsMarked ==
  \A x \in DOMAIN HostAt :
    /\ x[2] \in DOMAIN Config[x[1]]["tb_set_source"]
    /\ x[2] \in DOMAIN Config[x[1]]["tb_set_sink"]
    /\ 1 \notin DOMAIN Config[x[1]]["multicaster"]

(* A switch reports by its number (INT_Transit_config.txt), and offers the *)
(* one function of that number (sf_processing of config/SFC).              *)
ASSUME SwitchesNumbered ==
  \A s \in Switch :
    /\ 0 \in DOMAIN Config[s]["tb_int_insert"]
    /\ Config[s]["tb_int_insert"][0] = s
    /\ 15 \in DOMAIN Config[s]["tb_int_inst_0003"]
    /\ DOMAIN Config[s]["sf_processing"] = {s}

(* The telemetry of a packet fits the shim's length, 8 bits of 4-byte      *)
(* words: MaxTrace hops of at most k words each, 23 hops of the deployed   *)
(* 11 words.                                                               *)
HopWords(k) ==
  /\ INT_HEADER_WORD + MaxTrace * k < Word8
  /\ \A s \in Switch :
       LET a == Config[s]["tb_int_inst_0003"]
           b == Config[s]["tb_int_inst_0407"]
       IN  (IF 15 \in DOMAIN a THEN a[15] ELSE 0)
             + (IF 15 \in DOMAIN b THEN b[15] ELSE 0) <= k
ASSUME ShimFits == MaxTrace \in Nat /\ \E k \in Byte : HopWords(k)

(* sfc_egress for function n leads over a link to the switch that offers n *)
ASSUME OverlayLeads ==
  \A s \in Switch : \A n \in DOMAIN Config[s]["sfc_egress"] :
    LET x == <<s, Config[s]["sfc_egress"][n]>>
    IN  x \in DOMAIN Link /\ Link[x][1] = n

(* The functions of a chain are switches, no two in a row the same, and    *)
(* every other switch has an sfc_egress entry for each.                    *)
ASSUME ChainsLead ==
  \A s \in Switch : \A d \in DOMAIN Config[s]["sfc_classifier"] :
    LET e == Config[s]["sfc_classifier"][d]
    IN  \A i \in 1 .. e.sc :
          /\ e.chain[i] \in Switch
          /\ i # 1 => e.chain[i] # e.chain[i - 1]
          /\ \A t \in Switch \ {e.chain[i]} :
               e.chain[i] \in DOMAIN Config[t]["sfc_egress"]

(* Where the entries for an address lead: a host's (config/IPv4) to its    *)
(* own port, over no link to a multicaster, and to no group.               *)
IsMulticaster(s) == 1 \in DOMAIN Config[s]["multicaster"]
ASSUME RoutesLead ==
  \A s \in Switch : \A k \in DOMAIN Config[s]["ipv4_lpm"] :
    LET m == Config[s]["ipv4_lpm"][k]
        x == <<s, Config[s]["unicast"][m]>>
    IN  /\ \A t \in Switch : m \notin DOMAIN Config[t]["multicast"]
        /\ m \in DOMAIN Config[s]["unicast"] =>
          /\ x \in DOMAIN HostAt => HostAt[x] = k[1]
          /\ x \in DOMAIN Link => ~IsMulticaster(Link[x][1])

(* An address that a multicaster writes is a group's: not routed, and its  *)
(* entries lead to its members, from a multicaster also to other switches, *)
(* each by one port, that are none (config/rules_mcast).                   *)
GroupPorts(s, mac) ==
  LET n == Config[s]["multicast"][mac]
  IN  IF mac \in DOMAIN Config[s]["multicast"] /\ n \in DOMAIN Config[s]["groups"]
      THEN Config[s]["groups"][n] ELSE {}
ASSUME GroupsLead ==
  \A t \in Switch : \A d \in DOMAIN Config[t]["multicast_dst_addr"] :
    LET g == Config[t]["multicast_dst_addr"][d]
    IN  /\ IsMulticaster(t)
        /\ \A s \in Switch :
             /\ \A k \in DOMAIN Config[s]["ipv4_lpm"] : k[1] # g.ip
             /\ \A o \in GroupPorts(s, g.mac) :
                  /\ <<s, o>> \in DOMAIN HostAt => HostAt[<<s, o>>] \in Members[g.ip]
                  /\ <<s, o>> \in DOMAIN Link =>
                       /\ IsMulticaster(s) /\ ~IsMulticaster(Link[<<s, o>>][1])
                       /\ \A q \in GroupPorts(s, g.mac) \ {o} :
                            <<s, q>> \in DOMAIN Link =>
                              Link[<<s, o>>][1] # Link[<<s, q>>][1]

(* ... and what reaches such a switch has a host to go to.                 *)
HasMembers(s, mac) == \E o \in GroupPorts(s, mac) : <<s, o>> \in DOMAIN HostAt
ASSUME GroupsEnd ==
  \A t \in Switch : \A d \in DOMAIN Config[t]["multicast_dst_addr"] :
    LET mac == Config[t]["multicast_dst_addr"][d].mac
    IN  \A s \in Switch : \A o \in GroupPorts(s, mac) :
          <<s, o>> \in DOMAIN Link => HasMembers(Link[<<s, o>>][1], mac)

(* Only ports of hosts are sinks, and a switch with hosts can report; what *)
(* it monitors is TCP or UDP and not for a host of its own                 *)
(* (config/INT_Tables).                                                    *)
ASSUME SinksReport ==
  /\ \A s \in Switch : \A o \in DOMAIN Config[s]["tb_set_sink"] :
       <<s, o>> \in DOMAIN HostAt
  /\ \A x \in DOMAIN HostAt :
       /\ 100 \in DOMAIN Config[x[1]]["sessions"]
       /\ 0 \in DOMAIN Config[x[1]]["tb_generate_report"]
       /\ \A s \in Switch : \A k \in DOMAIN Config[s]["tb_int_source"] :
            k[3] # NoL4 /\ (HostAt[x] = k[2] => x[1] # s)

(* No entry of the tables ts is still to come. *)
Installed(ts) == \A e \in Push : e[2] \notin ts
=============================================================================
