---------------------------- MODULE OnosAppProofs ----------------------------
(***************************************************************************)
(* The ONOS application, for every topology, network configuration and     *)
(* list of commands, and events in any order: what it installs once it is  *)
(* idle, and what it leaves behind when it starts again.                   *)
(***************************************************************************)
EXTENDS OnosApp, TLAPS

(* The argument the application, or a command, gives to the rule with key x. *)
Meant(x, v) ==
  \/ x[2] = BroadcastKey /\ v = BroadcastGid
  \/ x[2] \in Host /\ x[1] = HostAt[x[2]][1] /\ v = HostAt[x[2]][2]
  \/ \E l \in Link : x = <<l[1], l[3]>> /\ v = l[2]
  \/ \E i \in DOMAIN Script : /\ Script[i].kind \in RuleCommands
                              /\ x = <<Script[i].dev, Script[i].key>>
                              /\ v = Script[i].arg

Queued(t)  == \E i \in 1 .. Len(queue["live"]) : queue["live"][i] = t
Pending(t) == t \in timers["live"] \/ Queued([do |-> t, on |-> "all"])

Counters == losses \in Nat /\ stops \in Nat

(* ONOS knows links and hosts of connected switches only.                  *)
InventoryConsistent ==
  /\ \A l \in links : l[1] \in available /\ l[3] \in available
  /\ \A h \in hosts : HostAt[h][1] \in available

ConfigurationComplete == complete => configured = Dev /\ ifaces = Interface

(* Nothing of the live executor exists while the application does not run. *)
IdleUnlessRunning ==
  phase # "running" =>
    queue["live"] = << >> /\ timers["live"] = {} /\ done = {}

Removing == {"scan", "groups", "wait"}
TriesLeft ==
  phase \in Removing => retry > 0 /\ (retry < RetryTimes => OldDone)

(* Every link and every host has its rule, or a task that will install it. *)
LinksOnTheirWay ==
  phase = "running" /\ complete =>
    \A l \in links : \/ LinkServed(l) \/ Pending("RoutingAll")
                     \/ Queued([do |-> "NextHops", on |-> l[1]])
HostsOnTheirWay ==
  phase = "running" =>
    \A h \in hosts : \/ Installed(HostAt[h][1], h, HostAt[h][2])
                     \/ Pending("BridgingAll") \/ Queued([do |-> "Learn", on |-> h])

AppInv == /\ TypeOK /\ Counters /\ InventoryConsistent /\ ConfigurationComplete
          /\ IdleUnlessRunning /\ TriesLeft /\ LinksOnTheirWay /\ HostsOnTheirWay

-----------------------------------------------------------------------------
(* What holds besides as long as no switch and no link has been lost.      *)

OnConnected ==
  /\ known = available
  /\ \A k \in DOMAIN rules \cup DOMAIN groups : k[1] \in available
  /\ \A e \in Executors : \A i \in 1 .. Len(queue[e]) :
       /\ queue[e][i].do = "SetUp" => queue[e][i].on \in available
       /\ queue[e][i].do = "Learn" => HostAt[queue[e][i].on][1] \in available

(* From the second try on nothing is installed any more.                   *)
SecondTry ==
  phase \in {"groups", "wait"} /\ retry < RetryTimes =>
    /\ DOMAIN rules \subseteq dying
    /\ phase = "groups" => DOMAIN groups \subseteq dying \cup found
    /\ phase = "wait" => DOMAIN groups \subseteq dying

NothingDying == phase = "running" => dying = {}

AllPorts(d) == {x[2] : x \in {y \in Interface : y[1] = d}}
GroupsComplete ==
  phase = "running" /\ complete =>
    \A d \in Dev : <<d, BroadcastGid>> \in DOMAIN groups =>
                     groups[<<d, BroadcastGid>>] = AllPorts(d)
BroadcastSet(d) ==
  /\ Installed(d, BroadcastKey, BroadcastGid)
  /\ AllPorts(d) # {} => <<d, BroadcastGid>> \in DOMAIN groups
BroadcastOnItsWay ==
  phase = "running" /\ complete =>
    \A d \in available : \/ BroadcastSet(d) \/ Pending("BridgingAll")
                         \/ Queued([do |-> "SetUp", on |-> d])

Calm == /\ OnConnected /\ SecondTry /\ NothingDying /\ GroupsComplete
        /\ BroadcastOnItsWay /\ CommandsKept
UndisturbedInv == losses = 0 => Calm

-----------------------------------------------------------------------------
(* Keys, sequences and stores. *)

(* No two that write rules mean different things by one key: a neighbour,  *)
(* a host, broadcast and the commands are told apart, and a neighbour is   *)
(* behind one port.                                                        *)
LEMMA MeantOnce ==
  ASSUME NEW x, NEW v, NEW w, Meant(x, v), Meant(x, w)
  PROVE  v = w
<1>1. Link \subseteq Dev \X Port \X Dev /\ Dev \cap Host = {}
      /\ BroadcastKey \notin Dev \cup Host
  BY AppTyped
<1>2. ASSUME NEW l \in Link, x = <<l[1], l[3]>>
      PROVE  x[2] \in Dev
  BY <1>1, <1>2
<1>3. ASSUME NEW i \in DOMAIN Script, x = <<Script[i].dev, Script[i].key>>
      PROVE  x[2] \notin Dev \cup Host \cup {BroadcastKey}
  BY <1>3, CommandsApart
<1>4. CASE x[2] = BroadcastKey
  BY <1>1, <1>2, <1>3, <1>4 DEF Meant
<1>5. CASE x[2] \in Host
  BY <1>1, <1>2, <1>3, <1>5 DEF Meant
<1>6. CASE \E l \in Link : x = <<l[1], l[3]>>
  <2>1. x[2] \in Dev
    BY <1>2, <1>6
  <2>2. PICK l \in Link : x = <<l[1], l[3]>> /\ v = l[2]
    BY <1>1, <1>3, <2>1 DEF Meant
  <2>3. PICK m \in Link : x = <<m[1], m[3]>> /\ w = m[2]
    BY <1>1, <1>3, <2>1 DEF Meant
  <2>. QED  BY <2>2, <2>3, OneLinkPerNeighbour
<1>7. CASE x[2] # BroadcastKey /\ x[2] \notin Host /\ ~\E l \in Link : x = <<l[1], l[3]>>
  <2>1. PICK i \in DOMAIN Script : /\ Script[i].kind \in RuleCommands
                                   /\ x = <<Script[i].dev, Script[i].key>>
                                   /\ v = Script[i].arg
    BY <1>7 DEF Meant
  <2>2. PICK j \in DOMAIN Script : /\ Script[j].kind \in RuleCommands
                                   /\ x = <<Script[j].dev, Script[j].key>>
                                   /\ w = Script[j].arg
    BY <1>7 DEF Meant
  <2>. QED  BY <2>1, <2>2, CommandsApart
<1>. QED  BY <1>4, <1>5, <1>6, <1>7

(* What is left of a sequence without its head.                            *)
LEMMA TailElements ==
  ASSUME NEW S, NEW s \in Seq(S), s # << >>
  PROVE  /\ Head(s) \in S /\ Head(s) = s[1] /\ Tail(s) \in Seq(S)
         /\ \A i \in 1 .. Len(s) : i # 1 => /\ i - 1 \in 1 .. Len(Tail(s))
                                            /\ Tail(s)[i - 1] = s[i]
         /\ \A i \in 1 .. Len(Tail(s)) : /\ i + 1 \in 1 .. Len(s)
                                         /\ Tail(s)[i] = s[i + 1]
OBVIOUS

(* What is in a sequence made of two.                                      *)
LEMMA ConcatElements ==
  ASSUME NEW S, NEW s \in Seq(S), NEW t \in Seq(S)
  PROVE  /\ s \o t \in Seq(S)
         /\ \A i \in 1 .. Len(s) : i \in 1 .. Len(s \o t) /\ (s \o t)[i] = s[i]
         /\ \A i \in 1 .. Len(t) : /\ Len(s) + i \in 1 .. Len(s \o t)
                                   /\ (s \o t)[Len(s) + i] = t[i]
         /\ \A i \in 1 .. Len(s \o t) :
              \/ i \in 1 .. Len(s) /\ (s \o t)[i] = s[i]
              \/ i - Len(s) \in 1 .. Len(t) /\ (s \o t)[i] = t[i - Len(s)]
OBVIOUS

LEMMA AppendElements ==
  ASSUME NEW S, NEW s \in Seq(S), NEW r \in S
  PROVE  /\ Append(s, r) \in Seq(S)
         /\ \A i \in 1 .. Len(s) : i \in 1 .. Len(Append(s, r)) /\ Append(s, r)[i] = s[i]
         /\ Len(s) + 1 \in 1 .. Len(Append(s, r)) /\ Append(s, r)[Len(s) + 1] = r
         /\ \A i \in 1 .. Len(Append(s, r)) :
              (i \in 1 .. Len(s) /\ Append(s, r)[i] = s[i]) \/ Append(s, r)[i] = r
OBVIOUS

LEMMA MergeOf ==
  ASSUME NEW f, NEW g
  PROVE  /\ DOMAIN Merge(f, g) = DOMAIN f \cup DOMAIN g
         /\ \A x \in DOMAIN g : Merge(f, g)[x] = g[x]
         /\ \A x \in DOMAIN f \ DOMAIN g : Merge(f, g)[x] = f[x]
BY DEF Merge

(* A step that gives the rules new and the groups grp, and no others.      *)
InstallsRules(new) ==
  /\ DOMAIN rules' = DOMAIN rules \cup DOMAIN new
  /\ \A x \in DOMAIN new : rules'[x] = new[x]
  /\ \A x \in DOMAIN rules \ DOMAIN new : rules'[x] = rules[x]
  /\ dying' = dying \ DOMAIN new
InstallsGroups(grp) ==
  /\ DOMAIN groups' = DOMAIN groups \cup DOMAIN grp
  /\ \A x \in DOMAIN groups : groups'[x] = groups[x]
  /\ \A x \in DOMAIN grp \ DOMAIN groups : groups'[x] = grp[x]

LEMMA ApplyInstalls ==
  ASSUME NEW new, Apply(new)
  PROVE  InstallsRules(new)
BY MergeOf DEF Apply, InstallsRules

LEMMA AddGroupsInstalls ==
  ASSUME NEW grp, AddGroups(grp)
  PROVE  InstallsGroups(grp)
<1>. DEFINE all == Merge(grp, groups)
<1>1. groups' = all
  BY DEF AddGroups
<1>2. /\ DOMAIN all = DOMAIN grp \cup DOMAIN groups
      /\ \A x \in DOMAIN groups : all[x] = groups[x]
      /\ \A x \in DOMAIN grp \ DOMAIN groups : all[x] = grp[x]
  BY MergeOf
<1>. HIDE DEF all
<1>. QED  BY <1>1, <1>2 DEF InstallsGroups

LEMMA NothingInstalled ==
  /\ UNCHANGED <<rules, dying>> => InstallsRules(None)
  /\ UNCHANGED groups => InstallsGroups(None)
BY DEF InstallsRules, InstallsGroups, None

(* Rules and groups as only the application and its commands write them.   *)
ProperRules(new) ==
  /\ DOMAIN new \subseteq Dev \X Key
  /\ \A x \in DOMAIN new : new[x] \in Port \cup Gid /\ Meant(x, new[x])
ProperGroups(grp) ==
  /\ DOMAIN grp \subseteq Dev \X Gid
  /\ \A x \in DOMAIN grp : /\ grp[x] \subseteq Port
                           /\ x[2] = BroadcastGid => grp[x] = BroadcastPorts(x[1])
Proper(new, grp) == ProperRules(new) /\ ProperGroups(grp)

StoresTyped ==
  /\ DOMAIN rules \subseteq Dev \X Key
  /\ \A k \in DOMAIN rules : rules[k] \in Port \cup Gid
  /\ DOMAIN groups \subseteq Dev \X Gid
  /\ \A k \in DOMAIN groups : groups[k] \subseteq Port
  /\ dying \subseteq DOMAIN rules \cup DOMAIN groups

(* Installing keeps the stores' types and every rule that was as meant.    *)
LEMMA InstallKeeps ==
  ASSUME NEW new, NEW grp, StoresTyped, InstallsRules(new), InstallsGroups(grp),
         Proper(new, grp)
  PROVE  /\ StoresTyped'
         /\ \A d, k, v : Meant(<<d, k>>, v) /\ Installed(d, k, v) => Installed(d, k, v)'
         /\ \A d, k, v : Meant(<<d, k>>, v) /\ <<d, k>> \in DOMAIN new
                           => Installed(d, k, v)'
<1>1. StoresTyped'
  BY DEF StoresTyped, InstallsRules, InstallsGroups, Proper, ProperRules, ProperGroups
<1>2. ASSUME NEW d, NEW k, NEW v, Meant(<<d, k>>, v), <<d, k>> \in DOMAIN new
      PROVE  Installed(d, k, v)'
  <2>1. new[<<d, k>>] = v
    BY <1>2, MeantOnce DEF Proper, ProperRules
  <2>. QED  BY <1>2, <2>1 DEF Installed, InstallsRules
<1>3. ASSUME NEW d, NEW k, NEW v, Meant(<<d, k>>, v), Installed(d, k, v)
      PROVE  Installed(d, k, v)'
  <2>1. CASE <<d, k>> \in DOMAIN new
    BY <1>2, <1>3, <2>1
  <2>2. CASE <<d, k>> \notin DOMAIN new
    BY <1>3, <2>2 DEF Installed, InstallsRules
  <2>. QED  BY <2>1, <2>2
<1>. QED  BY <1>1, <1>2, <1>3

-----------------------------------------------------------------------------
(* What the tasks install. *)

(* The task t is done by these rules and groups.                           *)
DoneFor(d, new, grp) ==
  /\ <<d, BroadcastKey>> \in DOMAIN new
  /\ BroadcastPorts(d) # {} => <<d, BroadcastGid>> \in DOMAIN grp
Performs(t, new, grp) ==
  /\ t.do = "SetUp" => DoneFor(t.on, new, grp)
  /\ t.do = "Learn" => <<HostAt[t.on][1], t.on>> \in DOMAIN new
  /\ t.do = "BridgingAll" =>
       /\ \A d \in available : DoneFor(d, new, grp)
       /\ \A h \in hosts : HostAt[h][1] \in available => <<HostAt[h][1], h>> \in DOMAIN new
  /\ t.do = "NextHops" /\ configured = Dev =>
       \A l \in links : l[1] = t.on => <<l[1], l[3]>> \in DOMAIN new
  /\ t.do = "RoutingAll" /\ configured = Dev =>
       \A l \in links : l[1] \in available => <<l[1], l[3]>> \in DOMAIN new

(* And they are where the task is about.                                   *)
Within(t, new, grp) ==
  \A x \in DOMAIN new \cup DOMAIN grp :
    \/ x[1] \in available
    \/ t.do = "SetUp" /\ x[1] = t.on
    \/ t.do = "Learn" /\ x[1] = HostAt[t.on][1]
    \/ \E l \in links : x[1] = l[1]

LEMMA ManagementProper ==
  ASSUME NEW D \in SUBSET Dev, TypeOK
  PROVE  /\ Proper(ManagementRules(D), ManagementGroups(D))
         /\ \A x \in DOMAIN ManagementRules(D) \cup DOMAIN ManagementGroups(D) : x[1] \in D
         /\ \A d \in D : DoneFor(d, ManagementRules(D), ManagementGroups(D))
<1>1. DOMAIN ManagementRules(D) = D \X {BroadcastKey}
      /\ \A x \in DOMAIN ManagementRules(D) : ManagementRules(D)[x] = BroadcastGid
  BY DEF ManagementRules
<1>2. DOMAIN ManagementGroups(D)
        = {<<d, BroadcastGid>> : d \in {e \in D : BroadcastPorts(e) # {}}}
      /\ \A x \in DOMAIN ManagementGroups(D) : ManagementGroups(D)[x] = BroadcastPorts(x[1])
  BY DEF ManagementGroups
<1>3. BroadcastKey \in Key /\ BroadcastGid \in Gid /\ Interface \subseteq Dev \X Port
  BY AppTyped
<1>4. \A d : BroadcastPorts(d) \subseteq Port
  BY <1>3 DEF TypeOK, BroadcastPorts
<1>5. ProperRules(ManagementRules(D))
  BY <1>1, <1>3 DEF ProperRules, Meant
<1>6. ProperGroups(ManagementGroups(D))
  BY <1>2, <1>3, <1>4 DEF ProperGroups
<1>7. \A d \in D : DoneFor(d, ManagementRules(D), ManagementGroups(D))
  BY <1>1, <1>2 DEF DoneFor
<1>8. \A x \in DOMAIN ManagementRules(D) \cup DOMAIN ManagementGroups(D) : x[1] \in D
  BY <1>1, <1>2
<1>. QED  BY <1>5, <1>6, <1>7, <1>8 DEF Proper

LEMMA HostRulesProper ==
  ASSUME NEW H \in SUBSET Host
  PROVE  /\ ProperRules(HostRules(H))
         /\ \A x \in DOMAIN HostRules(H) : x[2] \in H /\ x[1] = HostAt[x[2]][1]
         /\ \A h \in H : <<HostAt[h][1], h>> \in DOMAIN HostRules(H)
<1>1. DOMAIN HostRules(H) = {<<HostAt[h][1], h>> : h \in H}
      /\ \A x \in DOMAIN HostRules(H) : HostRules(H)[x] = HostAt[x[2]][2]
  BY DEF HostRules
<1>2. Host \subseteq Key /\ \A h \in Host : HostAt[h][1] \in Dev /\ HostAt[h][2] \in Port
  BY AppTyped
<1>3. ProperRules(HostRules(H))
  BY <1>1, <1>2 DEF ProperRules, Meant
<1>. QED  BY <1>1, <1>3

LEMMA NextHopRulesProper ==
  ASSUME NEW L \in SUBSET Link
  PROVE  /\ ProperRules(NextHopRules(L))
         /\ \A x \in DOMAIN NextHopRules(L) : \E l \in L : x = <<l[1], l[3]>>
         /\ \A l \in L : <<l[1], l[3]>> \in DOMAIN NextHopRules(L)
<1>. DEFINE via(x) == CHOOSE l \in L : l[1] = x[1] /\ l[3] = x[2]
<1>1. DOMAIN NextHopRules(L) = {<<l[1], l[3]>> : l \in L}
      /\ \A x \in DOMAIN NextHopRules(L) : NextHopRules(L)[x] = via(x)[2]
  BY DEF NextHopRules
<1>2. Dev \subseteq Key /\ \A l \in Link : l[1] \in Dev /\ l[2] \in Port /\ l[3] \in Dev
  BY AppTyped
<1>3. ASSUME NEW x \in DOMAIN NextHopRules(L)
      PROVE  /\ x \in Dev \X Key /\ NextHopRules(L)[x] \in Port \cup Gid
             /\ Meant(x, NextHopRules(L)[x])
  <2>1. PICK l \in L : x = <<l[1], l[3]>>
    BY <1>1
  <2>2. via(x) \in L /\ via(x)[1] = x[1] /\ via(x)[3] = x[2]
    BY <2>1
  <2>. HIDE DEF via
  <2>3. via(x) \in Link /\ x = <<via(x)[1], via(x)[3]>> /\ NextHopRules(L)[x] = via(x)[2]
    BY <1>1, <2>1, <2>2
  <2>. QED  BY <1>2, <2>3 DEF Meant
<1>. QED  BY <1>1, <1>3 DEF ProperRules

(* However the set-up of links ends, it is about links of these devices;   *)
(* when every switch is configured it is about all of them.                *)
LEMMA LinksOfSetUp ==
  ASSUME NEW D \in SUBSET Dev, NEW L \in LinksSetUp(D), links \subseteq Link
  PROVE  /\ L \subseteq links
         /\ configured = Dev => L = EgressLinks(D)
<1>. DEFINE unresolved(d) == EgressLinks({d}) \ Resolved(EgressLinks({d}))
            stuck == {d \in D : unresolved(d) # {}}
            ways  == UNION {(SUBSET (D \ stuck)) \X (SUBSET Resolved(EgressLinks({d}))) :
                              d \in stuck}
<1>1. IF stuck = {} THEN L = EgressLinks(D)
      ELSE \E x \in ways : L = EgressLinks(x[1]) \cup x[2]
  BY DEF LinksSetUp
<1>2. \A E : EgressLinks(E) \subseteq links /\ Resolved(EgressLinks(E)) \subseteq links
  BY DEF EgressLinks, Resolved
<1>3. L \subseteq links
  <2>1. CASE stuck = {}
    BY <1>1, <1>2, <2>1
  <2>2. CASE stuck # {}
    <3>1. PICK x \in ways : L = EgressLinks(x[1]) \cup x[2]
      BY <1>1, <2>2
    <3>2. PICK d \in stuck : x \in (SUBSET (D \ stuck)) \X (SUBSET Resolved(EgressLinks({d})))
      BY <3>1
    <3>. QED  BY <1>2, <3>1, <3>2
  <2>. QED  BY <2>1, <2>2
<1>4. ASSUME configured = Dev
      PROVE  L = EgressLinks(D)
  <2>1. \A l \in links : l[3] \in configured
    BY <1>4, AppTyped
  <2>2. \A d \in D : unresolved(d) = {}
    BY <2>1, <1>2 DEF Resolved
  <2>. QED  BY <1>1, <2>2
<1>. QED  BY <1>3, <1>4

(* The head of the queue is a task of its kind.                            *)
LEMMA TaskTaken ==
  ASSUME TypeOK, NEW e \in Executors, NEW what, Take(e, what)
  PROVE  /\ queue[e] \in Seq(Task) /\ queue[e] # << >>
         /\ Head(queue[e]) \in Task /\ Head(queue[e]).do = what
         /\ queue' \in [Executors -> Seq(Task)]
         /\ \A f \in Executors : queue'[f] = IF f = e THEN Tail(queue[e]) ELSE queue[f]
BY TailElements DEF TypeOK, Take

LEMMA TasksAre ==
  ASSUME NEW t \in Task
  PROVE  /\ t.do \in {"SetUp", "NextHops", "Learn", "BridgingAll", "RoutingAll"}
         /\ t.do \in {"SetUp", "NextHops"} => t.on \in Dev
         /\ t.do = "Learn" => t.on \in Host
         /\ t.do \in SetUpAll => t.on = "all"
         /\ t = [do |-> t.do, on |-> t.on]
BY DEF Task, SetUpAll

(* One step of an executor: the head of its queue is done and taken off.   *)
LEMMA Execution ==
  ASSUME AppInv, NEW e \in Executors, Execute(e)
  PROVE  /\ Take(e, Head(queue[e]).do)
         /\ \E new, grp : /\ InstallsRules(new) /\ InstallsGroups(grp)
                          /\ Proper(new, grp)
                          /\ Performs(Head(queue[e]), new, grp)
                          /\ Within(Head(queue[e]), new, grp)
<1>. DEFINE t == Head(queue[e])
<1>0. TypeOK /\ available \subseteq Dev /\ links \subseteq Link /\ hosts \subseteq Host
  BY DEF AppInv, TypeOK
<1>n. /\ DOMAIN None = {} /\ ProperRules(None) /\ ProperGroups(None)
  BY DEF None, ProperRules, ProperGroups
<1>1. CASE SetUpDevice(e)
  <2>1. Take(e, "SetUp") /\ AddGroups(ManagementGroups({t.on}))
        /\ Apply(ManagementRules({t.on}))
    BY <1>1 DEF SetUpDevice
  <2>2. t.do = "SetUp" /\ t.on \in Dev
    BY <2>1, <1>0, TaskTaken, TasksAre
  <2>3. InstallsRules(ManagementRules({t.on})) /\ InstallsGroups(ManagementGroups({t.on}))
    BY <2>1, ApplyInstalls, AddGroupsInstalls
  <2>4. /\ Proper(ManagementRules({t.on}), ManagementGroups({t.on}))
        /\ Performs(t, ManagementRules({t.on}), ManagementGroups({t.on}))
        /\ Within(t, ManagementRules({t.on}), ManagementGroups({t.on}))
    BY <2>2, <1>0, ManagementProper DEF Performs, Within
  <2>. QED  BY <2>1, <2>2, <2>3, <2>4
<1>2. CASE SetUpL2NextHopRules(e)
  <2>1. Take(e, "NextHops") /\ UNCHANGED groups
    BY <1>2 DEF SetUpL2NextHopRules
  <2>2. PICK L \in LinksSetUp({t.on}) : Apply(NextHopRules(L))
    BY <1>2 DEF SetUpL2NextHopRules
  <2>3. t.do = "NextHops" /\ t.on \in Dev
    BY <2>1, <1>0, TaskTaken, TasksAre
  <2>4. L \subseteq links /\ (configured = Dev => L = EgressLinks({t.on}))
    BY <2>3, <1>0, LinksOfSetUp
  <2>5. InstallsRules(NextHopRules(L)) /\ InstallsGroups(None)
    BY <2>1, <2>2, ApplyInstalls, NothingInstalled
  <2>6. Proper(NextHopRules(L), None)
    BY <2>4, <1>0, <1>n, NextHopRulesProper DEF Proper
  <2>7. Performs(t, NextHopRules(L), None)
    BY <2>3, <2>4, <1>0, NextHopRulesProper DEF Performs, EgressLinks
  <2>8. Within(t, NextHopRules(L), None)
    BY <2>4, <1>0, <1>n, NextHopRulesProper DEF Within
  <2>. QED  BY <2>1, <2>3, <2>5, <2>6, <2>7, <2>8
<1>3. CASE LearnHost(e)
  <2>1. Take(e, "Learn") /\ Apply(HostRules({t.on})) /\ UNCHANGED groups
    BY <1>3 DEF LearnHost
  <2>2. t.do = "Learn" /\ t.on \in Host
    BY <2>1, <1>0, TaskTaken, TasksAre
  <2>3. InstallsRules(HostRules({t.on})) /\ InstallsGroups(None)
    BY <2>1, ApplyInstalls, NothingInstalled
  <2>4. Proper(HostRules({t.on}), None)
    BY <2>2, <1>n, HostRulesProper DEF Proper
  <2>5. Performs(t, HostRules({t.on}), None) /\ Within(t, HostRules({t.on}), None)
    BY <2>2, <1>n, HostRulesProper DEF Performs, Within
  <2>. QED  BY <2>1, <2>2, <2>3, <2>4, <2>5
<1>4. CASE SetUpAllBridging(e)
  <2>. DEFINE H    == {h \in hosts : HostAt[h][1] \in available}
              new  == Merge(ManagementRules(available), HostRules(H))
              grp  == ManagementGroups(available)
  <2>1. Take(e, "BridgingAll") /\ AddGroups(grp) /\ Apply(new)
    BY <1>4 DEF SetUpAllBridging
  <2>2. t.do = "BridgingAll"
    BY <2>1, <1>0, TaskTaken
  <2>3. H \in SUBSET Host /\ available \in SUBSET Dev
    BY <1>0
  <2>. HIDE DEF H
  <2>4. /\ Proper(ManagementRules(available), grp)
        /\ \A x \in DOMAIN ManagementRules(available) \cup DOMAIN grp : x[1] \in available
        /\ \A d \in available : DoneFor(d, ManagementRules(available), grp)
    BY <2>3, <1>0, ManagementProper
  <2>5. /\ ProperRules(HostRules(H))
        /\ \A x \in DOMAIN HostRules(H) : x[2] \in H /\ x[1] = HostAt[x[2]][1]
        /\ \A h \in H : <<HostAt[h][1], h>> \in DOMAIN HostRules(H)
    BY <2>3, HostRulesProper
  <2>6. /\ DOMAIN new = DOMAIN ManagementRules(available) \cup DOMAIN HostRules(H)
        /\ \A x \in DOMAIN HostRules(H) : new[x] = HostRules(H)[x]
        /\ \A x \in DOMAIN ManagementRules(available) \ DOMAIN HostRules(H) :
             new[x] = ManagementRules(available)[x]
    BY MergeOf
  <2>. HIDE DEF new, grp
  <2>7. Proper(new, grp)
    BY <2>4, <2>5, <2>6 DEF Proper, ProperRules
  <2>8. \A d \in available : DoneFor(d, new, grp)
    BY <2>4, <2>6 DEF DoneFor
  <2>9. \A h \in hosts : HostAt[h][1] \in available => <<HostAt[h][1], h>> \in DOMAIN new
    BY <2>5, <2>6 DEF H
  <2>10. \A x \in DOMAIN new \cup DOMAIN grp : x[1] \in available
    BY <2>4, <2>5, <2>6 DEF H
  <2>11. Performs(t, new, grp) /\ Within(t, new, grp)
    BY <2>2, <2>8, <2>9, <2>10 DEF Performs, Within
  <2>. QED  BY <2>1, <2>2, <2>7, <2>11, ApplyInstalls, AddGroupsInstalls
<1>5. CASE SetUpAllRouting(e)
  <2>1. Take(e, "RoutingAll") /\ UNCHANGED groups
    BY <1>5 DEF SetUpAllRouting
  <2>2. PICK L \in LinksSetUp(available) : Apply(NextHopRules(L))
    BY <1>5 DEF SetUpAllRouting
  <2>3. t.do = "RoutingAll"
    BY <2>1, <1>0, TaskTaken
  <2>4. L \subseteq links /\ (configured = Dev => L = EgressLinks(available))
    BY <1>0, LinksOfSetUp
  <2>5. InstallsRules(NextHopRules(L)) /\ InstallsGroups(None)
    BY <2>1, <2>2, ApplyInstalls, NothingInstalled
  <2>6. Proper(NextHopRules(L), None)
    BY <2>4, <1>0, <1>n, NextHopRulesProper DEF Proper
  <2>7. Performs(t, NextHopRules(L), None)
    BY <2>3, <2>4, <1>0, NextHopRulesProper DEF Performs, EgressLinks
  <2>8. Within(t, NextHopRules(L), None)
    BY <2>4, <1>0, <1>n, NextHopRulesProper DEF Within
  <2>. QED  BY <2>1, <2>3, <2>5, <2>6, <2>7, <2>8
<1>. QED  BY <1>1, <1>2, <1>3, <1>4, <1>5 DEF Execute

-----------------------------------------------------------------------------
(* The executor keeps the invariant. *)

LEMMA MeantRules ==
  /\ \A l \in Link : Meant(<<l[1], l[3]>>, l[2])
  /\ \A h \in Host : Meant(<<HostAt[h][1], h>>, HostAt[h][2])
  /\ \A d : Meant(<<d, BroadcastKey>>, BroadcastGid)
  /\ \A i \in DOMAIN Script :
       Script[i].kind \in RuleCommands
         => Meant(<<Script[i].dev, Script[i].key>>, Script[i].arg)
BY DEF Meant

(* A task that is taken leaves the others in the queue.                    *)
LEMMA QueuedAfterTake ==
  ASSUME TypeOK, NEW e \in Executors, NEW what, Take(e, what)
  PROVE  /\ \A t : Queued(t) => Queued(t)' \/ (e = "live" /\ t = Head(queue["live"]))
         /\ \A f \in Executors : \A i \in 1 .. Len(queue'[f]) :
              \E j \in 1 .. Len(queue[f]) : queue'[f][i] = queue[f][j]
         /\ OldDone => e = "live" /\ OldDone'
<1>1. /\ queue[e] \in Seq(Task) /\ queue[e] # << >>
      /\ \A f \in Executors : queue'[f] = IF f = e THEN Tail(queue[e]) ELSE queue[f]
  BY TaskTaken
<1>2. /\ Head(queue[e]) = queue[e][1]
      /\ \A i \in 1 .. Len(queue[e]) :
           i # 1 => /\ i - 1 \in 1 .. Len(Tail(queue[e]))
                    /\ Tail(queue[e])[i - 1] = queue[e][i]
      /\ \A i \in 1 .. Len(Tail(queue[e])) :
           /\ i + 1 \in 1 .. Len(queue[e]) /\ Tail(queue[e])[i] = queue[e][i + 1]
  BY <1>1, TailElements
<1>3. "live" \in Executors /\ "old" \in Executors /\ (e = "live" \/ e = "old")
  BY DEF Executors
<1>4. ASSUME NEW t, Queued(t), ~(e = "live" /\ t = Head(queue["live"]))
      PROVE  Queued(t)'
  <2>1. PICK i \in 1 .. Len(queue["live"]) : queue["live"][i] = t
    BY <1>4 DEF Queued
  <2>2. CASE e = "live"
    <3>1. i # 1
      BY <1>2, <1>4, <2>1, <2>2
    <3>2. i - 1 \in 1 .. Len(queue'["live"]) /\ queue'["live"][i - 1] = t
      BY <1>1, <1>2, <2>1, <2>2, <3>1
    <3>. QED  BY <3>2 DEF Queued
  <2>3. CASE e # "live"
    BY <1>1, <1>3, <2>1, <2>3 DEF Queued
  <2>. QED  BY <2>2, <2>3
<1>5. \A f \in Executors : \A i \in 1 .. Len(queue'[f]) :
        \E j \in 1 .. Len(queue[f]) : queue'[f][i] = queue[f][j]
  <2>. SUFFICES ASSUME NEW f \in Executors, NEW i \in 1 .. Len(queue'[f])
                PROVE  \E j \in 1 .. Len(queue[f]) : queue'[f][i] = queue[f][j]
    OBVIOUS
  <2>1. CASE f = e
    <3>1. queue'[f] = Tail(queue[e]) /\ i \in 1 .. Len(Tail(queue[e]))
      BY <1>1, <2>1
    <3>2. i + 1 \in 1 .. Len(queue[f]) /\ queue'[f][i] = queue[f][i + 1]
      BY <1>2, <2>1, <3>1
    <3>. QED  BY <3>2
  <2>2. CASE f # e
    <3>1. queue'[f] = queue[f]
      BY <1>1, <2>2
    <3>. QED  BY <3>1
  <2>. QED  BY <2>1, <2>2
<1>6. OldDone => e = "live" /\ OldDone'
  BY <1>1, <1>3 DEF OldDone, Take
<1>. QED  BY <1>4, <1>5, <1>6

LEMMA ExecuteKeepsAppInv ==
  ASSUME AppInv, NEW e \in Executors, Execute(e)
  PROVE  AppInv'
<1>. DEFINE t == Head(queue[e])
<1>1. Take(e, t.do)
  BY Execution
<1>2. PICK new, grp : /\ InstallsRules(new) /\ InstallsGroups(grp)
                      /\ Proper(new, grp) /\ Performs(t, new, grp)
  BY Execution
<1>3. TypeOK /\ StoresTyped
  BY DEF AppInv, TypeOK, StoresTyped
<1>4. /\ StoresTyped'
      /\ \A d, k, v : Meant(<<d, k>>, v) /\ Installed(d, k, v) => Installed(d, k, v)'
      /\ \A d, k, v : Meant(<<d, k>>, v) /\ <<d, k>> \in DOMAIN new => Installed(d, k, v)'
  BY <1>2, <1>3, InstallKeeps
<1>5. /\ UNCHANGED <<inventory, config, life, timers, session, losses>>
      /\ queue' \in [Executors -> Seq(Task)] /\ queue[e] # << >>
      /\ \A f \in Executors : queue'[f] = IF f = e THEN Tail(queue[e]) ELSE queue[f]
  BY <1>1, <1>3, TaskTaken DEF Take
<1>6. /\ \A u : Queued(u) => Queued(u)' \/ (e = "live" /\ u = t)
      /\ OldDone => e = "live" /\ OldDone'
  BY <1>1, <1>3, QueuedAfterTake
<1>7. TypeOK'
  BY <1>3, <1>4, <1>5
     DEF TypeOK, StoresTyped, inventory, config, life, session
<1>8. (Counters /\ InventoryConsistent /\ ConfigurationComplete)'
  BY <1>5 DEF AppInv, Counters, InventoryConsistent, ConfigurationComplete,
              inventory, config, life, session
<1>9. IdleUnlessRunning'
  <2>1. "live" \in Executors
    BY DEF Executors
  <2>. QED  BY <1>5, <2>1 DEF AppInv, IdleUnlessRunning, life, session
<1>10. TriesLeft'
  BY <1>5, <1>6 DEF AppInv, TriesLeft, life
<1>11. LinksOnTheirWay'
  <2>. SUFFICES ASSUME phase' = "running", complete', NEW l \in links'
                PROVE  (\/ LinkServed(l) \/ Pending("RoutingAll")
                        \/ Queued([do |-> "NextHops", on |-> l[1]]))'
    BY DEF LinksOnTheirWay
  <2>1. /\ phase = "running" /\ complete /\ l \in links /\ l \in Link
        /\ configured = Dev /\ l[1] \in available
    BY <1>5 DEF AppInv, TypeOK, InventoryConsistent, ConfigurationComplete,
                inventory, life
  <2>2. \/ LinkServed(l) \/ Pending("RoutingAll")
        \/ Queued([do |-> "NextHops", on |-> l[1]])
    BY <2>1 DEF AppInv, LinksOnTheirWay
  <2>3. Meant(<<l[1], l[3]>>, l[2])
    BY <2>1, MeantRules
  <2>4. CASE LinkServed(l)
    BY <1>4, <2>3, <2>4 DEF LinkServed
  <2>5. CASE t.do = "RoutingAll" \/ (t.do = "NextHops" /\ t.on = l[1])
    <3>1. <<l[1], l[3]>> \in DOMAIN new
      BY <1>2, <2>1, <2>5 DEF Performs
    <3>. QED  BY <1>4, <2>3, <3>1 DEF LinkServed
  <2>6. CASE Pending("RoutingAll") /\ ~(t.do = "RoutingAll")
    BY <1>5, <1>6, <2>6 DEF Pending
  <2>7. CASE Queued([do |-> "NextHops", on |-> l[1]])
             /\ ~(t.do = "NextHops" /\ t.on = l[1])
    BY <1>6, <2>7
  <2>. QED  BY <2>2, <2>4, <2>5, <2>6, <2>7
<1>12. HostsOnTheirWay'
  <2>. SUFFICES ASSUME phase' = "running", NEW h \in hosts'
                PROVE  (\/ Installed(HostAt[h][1], h, HostAt[h][2])
                        \/ Pending("BridgingAll") \/ Queued([do |-> "Learn", on |-> h]))'
    BY DEF HostsOnTheirWay
  <2>1. phase = "running" /\ h \in hosts /\ h \in Host /\ HostAt[h][1] \in available
    BY <1>5 DEF AppInv, TypeOK, InventoryConsistent, inventory, life
  <2>2. \/ Installed(HostAt[h][1], h, HostAt[h][2])
        \/ Pending("BridgingAll") \/ Queued([do |-> "Learn", on |-> h])
    BY <2>1 DEF AppInv, HostsOnTheirWay
  <2>3. Meant(<<HostAt[h][1], h>>, HostAt[h][2])
    BY <2>1, MeantRules
  <2>4. CASE Installed(HostAt[h][1], h, HostAt[h][2])
    BY <1>4, <2>3, <2>4
  <2>5. CASE t.do = "BridgingAll" \/ (t.do = "Learn" /\ t.on = h)
    <3>1. <<HostAt[h][1], h>> \in DOMAIN new
      BY <1>2, <2>1, <2>5 DEF Performs
    <3>. QED  BY <1>4, <2>3, <3>1
  <2>6. CASE Pending("BridgingAll") /\ ~(t.do = "BridgingAll")
    BY <1>5, <1>6, <2>6 DEF Pending
  <2>7. CASE Queued([do |-> "Learn", on |-> h]) /\ ~(t.do = "Learn" /\ t.on = h)
    BY <1>6, <2>7
  <2>. QED  BY <2>2, <2>4, <2>5, <2>6, <2>7
<1>. QED  BY <1>7, <1>8, <1>9, <1>10, <1>11, <1>12 DEF AppInv

-----------------------------------------------------------------------------
(* So do the timers, the switches, activation and deactivation. *)

LEMMA TimerKeepsAppInv ==
  ASSUME AppInv, NEW e \in Executors, NEW t \in SetUpAll, TimerFires(e, t)
  PROVE  AppInv'
<1>. DEFINE r == [do |-> t, on |-> "all"]
<1>1. /\ UNCHANGED <<inventory, config, stores, life, session, losses>>
      /\ t \in timers[e] /\ timers' = [timers EXCEPT ![e] = @ \ {t}]
      /\ queue' = [queue EXCEPT ![e] = Append(@, r)]
  BY DEF TimerFires
<1>2. TypeOK /\ r \in Task /\ queue[e] \in Seq(Task)
  BY DEF AppInv, TypeOK, Task
<1>3. /\ \A f \in Executors : queue'[f] = IF f = e THEN Append(queue[e], r) ELSE queue[f]
      /\ \A f \in Executors : timers'[f] = IF f = e THEN timers[e] \ {t} ELSE timers[f]
  BY <1>1, <1>2 DEF TypeOK
<1>4. "live" \in Executors /\ "old" \in Executors /\ (e = "live" \/ e = "old")
  BY DEF Executors
<1>a. /\ \A i \in 1 .. Len(queue[e]) : /\ i \in 1 .. Len(Append(queue[e], r))
                                         /\ Append(queue[e], r)[i] = queue[e][i]
      /\ Len(queue[e]) + 1 \in 1 .. Len(Append(queue[e], r))
      /\ Append(queue[e], r)[Len(queue[e]) + 1] = r
  <2>. HIDE DEF r
  <2>. QED  BY <1>2, AppendElements
<1>5. \A u : Queued(u) => Queued(u)'
  <2>. SUFFICES ASSUME NEW u, Queued(u) PROVE Queued(u)'
    OBVIOUS
  <2>1. PICK i \in 1 .. Len(queue["live"]) : queue["live"][i] = u
    BY DEF Queued
  <2>2. i \in 1 .. Len(queue'["live"]) /\ queue'["live"][i] = u
    <3>1. CASE e = "live"
      BY <1>a, <1>3, <1>4, <2>1, <3>1
    <3>2. CASE e # "live"
      BY <1>3, <1>4, <2>1, <3>2
    <3>. QED  BY <3>1, <3>2
  <2>. QED  BY <2>2 DEF Queued
<1>6. e = "live" => Queued(r)'
  <2>. SUFFICES ASSUME e = "live" PROVE Queued(r)'
    OBVIOUS
  <2>1. \E i \in 1 .. Len(queue'["live"]) : queue'["live"][i] = r
    BY <1>a, <1>3, <1>4
  <2>. QED  BY <2>1 DEF Queued
<1>7. \A u \in SetUpAll : Pending(u) => Pending(u)'
  BY <1>3, <1>4, <1>5, <1>6 DEF Pending
<1>8. TypeOK'
  BY <1>1, <1>2 DEF TypeOK, inventory, config, stores, life, session
<1>9. (Counters /\ InventoryConsistent /\ ConfigurationComplete)'
  BY <1>1 DEF AppInv, Counters, InventoryConsistent, ConfigurationComplete,
              inventory, config, life, session
<1>10. IdleUnlessRunning'
  BY <1>1, <1>3, <1>4 DEF AppInv, IdleUnlessRunning, life, session
<1>11. TriesLeft'
  BY <1>1, <1>3, <1>4 DEF AppInv, TriesLeft, OldDone, life
<1>12. (LinksOnTheirWay /\ HostsOnTheirWay)'
  <2>1. \A d, k, v : Installed(d, k, v) => Installed(d, k, v)'
    BY <1>1 DEF Installed, stores
  <2>2. LinksOnTheirWay'
    BY <1>1, <1>5, <1>7, <2>1
       DEF AppInv, LinksOnTheirWay, LinkServed, SetUpAll, inventory, life
  <2>3. HostsOnTheirWay'
    BY <1>1, <1>5, <1>7, <2>1 DEF AppInv, HostsOnTheirWay, SetUpAll, inventory, life
  <2>. QED  BY <2>2, <2>3
<1>. QED  BY <1>8, <1>9, <1>10, <1>11, <1>12 DEF AppInv

(* What only touches the stores and keeps what is not dying.               *)
LEMMA ConfirmKeepsAppInv ==
  ASSUME AppInv, NEW k \in dying, Confirm(k)
  PROVE  AppInv'
<1>1. /\ UNCHANGED <<inventory, config, life, executors, session, losses>>
      /\ dying' = dying \ {k}
      /\ DOMAIN rules' = DOMAIN rules \ {k} /\ DOMAIN groups' = DOMAIN groups \ {k}
      /\ \A x \in DOMAIN rules \ {k} : rules'[x] = rules[x]
      /\ \A x \in DOMAIN groups \ {k} : groups'[x] = groups[x]
  BY DEF Confirm
<1>2. TypeOK'
  BY <1>1 DEF AppInv, TypeOK, inventory, config, life, executors, session
<1>3. \A d, j, v : Installed(d, j, v) => Installed(d, j, v)'
  BY <1>1 DEF Installed
<1>4. \A u : (Queued(u) => Queued(u)') /\ (Pending(u) => Pending(u)')
  BY <1>1 DEF Queued, Pending, executors
<1>5. LinksOnTheirWay'
  BY <1>1, <1>3, <1>4 DEF AppInv, LinksOnTheirWay, LinkServed, inventory, life
<1>6. HostsOnTheirWay'
  BY <1>1, <1>3, <1>4 DEF AppInv, HostsOnTheirWay, inventory, life
<1>7. (Counters /\ InventoryConsistent /\ ConfigurationComplete
        /\ IdleUnlessRunning /\ TriesLeft)'
  BY <1>1 DEF AppInv, Counters, InventoryConsistent, ConfigurationComplete,
       IdleUnlessRunning, TriesLeft, OldDone, inventory, config, life, executors, session
<1>. QED  BY <1>2, <1>5, <1>6, <1>7 DEF AppInv

(* Starting: the set-up of everything is scheduled.                        *)
LEMMA StartedSchedules ==
  ASSUME TypeOK, Started
  PROVE  /\ phase' = "running"
         /\ timers' \in [Executors -> SUBSET SetUpAll]
         /\ timers'["live"] = SetUpAll /\ timers'["old"] = timers["old"]
         /\ complete' \in BOOLEAN
         /\ complete' => configured = Dev /\ ifaces = Interface
         /\ Pending("RoutingAll")' /\ Pending("BridgingAll")'
<1>1. /\ phase' = "running" /\ complete' = (configured = Dev /\ ifaces = Interface)
      /\ timers' = [timers EXCEPT !["live"] = SetUpAll]
  BY DEF Started
<1>2. "live" \in Executors /\ "old" \in Executors /\ "live" # "old"
  BY DEF Executors
<1>3. /\ timers' \in [Executors -> SUBSET SetUpAll]
      /\ timers'["live"] = SetUpAll /\ timers'["old"] = timers["old"]
  BY <1>1, <1>2 DEF TypeOK
<1>4. Pending("RoutingAll")' /\ Pending("BridgingAll")'
  BY <1>3 DEF Pending, SetUpAll
<1>. QED  BY <1>1, <1>3, <1>4

LEMMA ActivateKeepsAppInv ==
  ASSUME AppInv, Activate
  PROVE  AppInv'
<1>1. /\ phase = "stopped" /\ phase' = "scan" /\ retry' = RetryTimes
      /\ UNCHANGED <<inventory, config, stores, found, stops, complete, executors,
                     session, losses>>
      /\ RetryTimes \in Nat \ {0, 1}
  BY AppTyped DEF Activate
<1>2. TypeOK'
  BY <1>1 DEF AppInv, TypeOK, inventory, config, stores, executors, session
<1>. QED
  BY <1>1, <1>2 DEF AppInv, Counters, InventoryConsistent, ConfigurationComplete,
       IdleUnlessRunning, TriesLeft, LinksOnTheirWay, HostsOnTheirWay,
       inventory, config, executors, session

LEMMA CleanUpKeepsAppInv ==
  ASSUME AppInv, CleanUp
  PROVE  AppInv'
<1>1. /\ phase \in {"scan", "stopping"} /\ dying' = dying \cup DOMAIN rules
      /\ found' = ListedGroups
      /\ UNCHANGED <<inventory, config, rules, groups, retry, stops, queue,
                     session, losses>>
      /\ \/ Started
         \/ phase = "scan" /\ phase' = "groups" /\ UNCHANGED <<timers, complete>>
         \/ phase = "stopping" /\ phase' = "stopGroups" /\ UNCHANGED <<timers, complete>>
  BY DEF CleanUp
<1>2. TypeOK
  BY DEF AppInv
<1>3. CASE Started
  <2>1. TypeOK'
    BY <1>1, <1>2, <1>3, StartedSchedules
       DEF TypeOK, ListedGroups, inventory, config, session
  <2>. QED
    BY <1>1, <1>2, <1>3, <2>1, StartedSchedules
       DEF AppInv, Counters, InventoryConsistent, ConfigurationComplete,
           IdleUnlessRunning, TriesLeft, Removing, LinksOnTheirWay, HostsOnTheirWay,
           inventory, config, session
<1>4. CASE /\ UNCHANGED <<timers, complete>>
           /\ \/ phase = "scan" /\ phase' = "groups"
              \/ phase = "stopping" /\ phase' = "stopGroups"
  <2>1. TypeOK'
    BY <1>1, <1>2, <1>4 DEF TypeOK, ListedGroups, inventory, config, session
  <2>. QED
    BY <1>1, <1>4, <2>1
       DEF AppInv, Counters, InventoryConsistent, ConfigurationComplete,
           IdleUnlessRunning, TriesLeft, Removing, OldDone, LinksOnTheirWay,
           HostsOnTheirWay, inventory, config, session
<1>. QED  BY <1>1, <1>3, <1>4

LEMMA RemoveGroupsKeepsAppInv ==
  ASSUME AppInv, RemoveGroups
  PROVE  AppInv'
<1>1. /\ phase \in {"groups", "stopGroups"}
      /\ dying' = dying \cup (found \cap DOMAIN groups) /\ found' = {}
      /\ phase' = IF phase = "groups" THEN "wait" ELSE "stopped"
      /\ UNCHANGED <<inventory, config, rules, groups, retry, stops, complete,
                     executors, session, losses>>
  BY DEF RemoveGroups
<1>2. TypeOK'
  BY <1>1 DEF AppInv, TypeOK, inventory, config, executors, session
<1>. QED
  BY <1>1, <1>2 DEF AppInv, Counters, InventoryConsistent, ConfigurationComplete,
       IdleUnlessRunning, TriesLeft, Removing, OldDone, LinksOnTheirWay,
       HostsOnTheirWay, inventory, config, executors, session

LEMMA RetryKeepsAppInv ==
  ASSUME AppInv, RetryCleanUp
  PROVE  AppInv'
<1>1. /\ phase = "wait" /\ OldDone /\ retry' = retry - 1
      /\ UNCHANGED <<inventory, config, stores, found, stops, queue, session, losses>>
      /\ \/ retry' = 0 /\ Started
         \/ retry' # 0 /\ phase' = "scan" /\ UNCHANGED <<timers, complete>>
  BY DEF RetryCleanUp
<1>2. TypeOK /\ RetryTimes \in Nat /\ retry \in 0 .. RetryTimes /\ retry > 0
  BY <1>1, AppTyped DEF AppInv, TypeOK, TriesLeft, Removing
<1>3. CASE retry' = 0 /\ Started
  <2>1. TypeOK'
    BY <1>1, <1>2, <1>3, StartedSchedules
       DEF TypeOK, inventory, config, stores, session
  <2>. QED
    BY <1>1, <1>2, <1>3, <2>1, StartedSchedules
       DEF AppInv, Counters, InventoryConsistent, ConfigurationComplete,
           IdleUnlessRunning, TriesLeft, Removing, LinksOnTheirWay, HostsOnTheirWay,
           inventory, config, session
<1>4. CASE retry' # 0 /\ phase' = "scan" /\ UNCHANGED <<timers, complete>>
  <2>1. TypeOK'
    BY <1>1, <1>2, <1>4 DEF TypeOK, inventory, config, stores, session
  <2>2. TriesLeft'
    BY <1>1, <1>2, <1>4 DEF TriesLeft, OldDone
  <2>. QED
    BY <1>1, <1>4, <2>1, <2>2
       DEF AppInv, Counters, InventoryConsistent, ConfigurationComplete,
           IdleUnlessRunning, LinksOnTheirWay, HostsOnTheirWay,
           inventory, config, session
<1>. QED  BY <1>1, <1>3, <1>4

LEMMA DeactivateKeepsAppInv ==
  ASSUME AppInv, Deactivate
  PROVE  AppInv'
<1>1. /\ phase' = "stopping" /\ stops' = stops + 1 /\ line' = 1 /\ done' = {}
      /\ queue' = [live |-> << >>, old |-> queue["live"]]
      /\ timers' = [live |-> {}, old |-> timers["live"]]
      /\ UNCHANGED <<inventory, config, stores, retry, found, complete, losses>>
  BY DEF Deactivate
<1>2. TypeOK /\ Len(Script) \in Nat
  BY AppTyped DEF AppInv, TypeOK
<1>3. queue["live"] \in Seq(Task) /\ timers["live"] \in SUBSET SetUpAll
  BY <1>2 DEF TypeOK, Executors
<1>4. /\ queue' \in [Executors -> Seq(Task)] /\ timers' \in [Executors -> SUBSET SetUpAll]
      /\ queue'["live"] = << >> /\ timers'["live"] = {}
  <2>. DEFINE q == [live |-> << >>, old |-> queue["live"]]
              m == [live |-> {}, old |-> timers["live"]]
  <2>1. /\ q = [f \in {"live", "old"} |-> q[f]] /\ q["live"] = << >> /\ q["old"] = queue["live"]
        /\ m = [f \in {"live", "old"} |-> m[f]] /\ m["live"] = {} /\ m["old"] = timers["live"]
    OBVIOUS
  <2>2. << >> \in Seq(Task)
    OBVIOUS
  <2>. QED  BY <1>1, <1>3, <2>1, <2>2 DEF Executors
<1>5. TypeOK'
  <2>1. line' \in 1 .. Len(Script) + 1 /\ done' \subseteq 1 .. Len(Script)
    BY <1>1, <1>2
  <2>. QED  BY <1>1, <1>2, <1>4, <2>1 DEF TypeOK, inventory, config, stores
<1>. QED
  BY <1>1, <1>4, <1>5 DEF AppInv, Counters, InventoryConsistent, ConfigurationComplete,
       IdleUnlessRunning, TriesLeft, Removing, LinksOnTheirWay, HostsOnTheirWay,
       inventory, config

-----------------------------------------------------------------------------
(* And events and commands. *)

(* A listener only adds to the queue, and only while the application runs. *)
LEMMA Notified ==
  ASSUME TypeOK, NEW tasks \in Seq(Task), Notify(tasks)
  PROVE  /\ queue' \in [Executors -> Seq(Task)]
         /\ queue'["old"] = queue["old"]
         /\ phase # "running" => queue' = queue
         /\ \A u : Queued(u) => Queued(u)'
         /\ phase = "running" => \A i \in 1 .. Len(tasks) : Queued(tasks[i])'
         /\ \A f \in Executors : \A i \in 1 .. Len(queue'[f]) :
              \/ \E j \in 1 .. Len(queue[f]) : queue'[f][i] = queue[f][j]
              \/ \E j \in 1 .. Len(tasks) : queue'[f][i] = tasks[j]
<1>1. queue' = IF phase = "running"
               THEN [queue EXCEPT !["live"] = @ \o tasks] ELSE queue
  BY DEF Notify
<1>2. /\ "live" \in Executors /\ "old" \in Executors /\ "live" # "old"
      /\ queue \in [Executors -> Seq(Task)] /\ queue["live"] \in Seq(Task)
  BY DEF TypeOK, Executors
<1>3. CASE phase # "running"
  BY <1>1, <1>2, <1>3 DEF Queued
<1>4. CASE phase = "running"
  <2>. DEFINE s == queue["live"]
  <2>1. /\ s \o tasks \in Seq(Task)
        /\ \A i \in 1 .. Len(s) : i \in 1 .. Len(s \o tasks) /\ (s \o tasks)[i] = s[i]
        /\ \A i \in 1 .. Len(tasks) : /\ Len(s) + i \in 1 .. Len(s \o tasks)
                                      /\ (s \o tasks)[Len(s) + i] = tasks[i]
        /\ \A i \in 1 .. Len(s \o tasks) :
             \/ i \in 1 .. Len(s) /\ (s \o tasks)[i] = s[i]
             \/ i - Len(s) \in 1 .. Len(tasks) /\ (s \o tasks)[i] = tasks[i - Len(s)]
    <3>. HIDE DEF s
    <3>. QED  BY <1>2, ConcatElements DEF s
  <2>2. \A f \in Executors : queue'[f] = IF f = "live" THEN s \o tasks ELSE queue[f]
    BY <1>1, <1>2, <1>4
  <2>3. queue' \in [Executors -> Seq(Task)]
    BY <1>1, <1>2, <1>4, <2>1
  <2>4. \A u : Queued(u) => Queued(u)'
    BY <1>2, <2>1, <2>2 DEF Queued
  <2>5. ASSUME NEW i \in 1 .. Len(tasks)
        PROVE  Queued(tasks[i])'
    <3>1. queue'["live"] = s \o tasks
      BY <1>2, <2>2
    <3>2. \E j \in 1 .. Len(s \o tasks) : (s \o tasks)[j] = tasks[i]
      BY <2>1
    <3>. QED  BY <3>1, <3>2 DEF Queued
  <2>6. ASSUME NEW f \in Executors, NEW i \in 1 .. Len(queue'[f])
        PROVE  \/ \E j \in 1 .. Len(queue[f]) : queue'[f][i] = queue[f][j]
               \/ \E j \in 1 .. Len(tasks) : queue'[f][i] = tasks[j]
    <3>1. CASE f = "live"
      <4>1. queue'[f] = s \o tasks /\ i \in 1 .. Len(s \o tasks)
        BY <2>2, <3>1
      <4>. QED  BY <2>1, <3>1, <4>1
    <3>2. CASE f # "live"
      <4>1. queue'[f] = queue[f]
        BY <2>2, <3>2
      <4>. QED  BY <4>1
    <3>. QED  BY <3>1, <3>2
  <2>. QED  BY <1>2, <1>4, <2>2, <2>3, <2>4, <2>5, <2>6
<1>. QED  BY <1>3, <1>4

(* What an event changes in the inventory, with its tasks queued.          *)
LEMMA EventKeepsAppInv ==
  ASSUME AppInv, NEW tasks \in Seq(Task), Notify(tasks),
         UNCHANGED <<config, stores, life, timers, session, losses>>,
         available \subseteq available', available' \subseteq known',
         known' \subseteq Dev, links' \subseteq Link, hosts' \subseteq Host,
         InventoryConsistent',
         \A l \in links' \ links :
           \E i \in 1 .. Len(tasks) : tasks[i] = [do |-> "NextHops", on |-> l[1]],
         \A h \in hosts' \ hosts :
           \E i \in 1 .. Len(tasks) : tasks[i] = [do |-> "Learn", on |-> h]
  PROVE  AppInv'
<1>1. TypeOK
  BY DEF AppInv
<1>2. /\ queue' \in [Executors -> Seq(Task)] /\ queue'["old"] = queue["old"]
      /\ phase # "running" => queue' = queue
      /\ \A u : Queued(u) => Queued(u)'
      /\ phase = "running" => \A i \in 1 .. Len(tasks) : Queued(tasks[i])'
  BY <1>1, Notified
<1>3. TypeOK'
  BY <1>1, <1>2 DEF TypeOK, config, stores, life, session
<1>4. (Counters /\ ConfigurationComplete /\ IdleUnlessRunning /\ TriesLeft)'
  BY <1>2 DEF AppInv, Counters, ConfigurationComplete, IdleUnlessRunning, TriesLeft,
              OldDone, config, life, session
<1>5. /\ \A d, k, v : Installed(d, k, v) => Installed(d, k, v)'
      /\ \A u : Pending(u) => Pending(u)'
  BY <1>2 DEF Installed, Pending, stores
<1>6. LinksOnTheirWay'
  <2>. SUFFICES ASSUME phase' = "running", complete', NEW l \in links'
                PROVE  (\/ LinkServed(l) \/ Pending("RoutingAll")
                        \/ Queued([do |-> "NextHops", on |-> l[1]]))'
    BY DEF LinksOnTheirWay
  <2>1. phase = "running" /\ complete
    BY DEF life
  <2>2. CASE l \in links
    BY <1>2, <1>5, <2>1, <2>2 DEF AppInv, LinksOnTheirWay, LinkServed
  <2>3. CASE l \notin links
    BY <1>2, <2>1, <2>3
  <2>. QED  BY <2>2, <2>3
<1>7. HostsOnTheirWay'
  <2>. SUFFICES ASSUME phase' = "running", NEW h \in hosts'
                PROVE  (\/ Installed(HostAt[h][1], h, HostAt[h][2])
                        \/ Pending("BridgingAll") \/ Queued([do |-> "Learn", on |-> h]))'
    BY DEF HostsOnTheirWay
  <2>1. phase = "running"
    BY DEF life
  <2>2. CASE h \in hosts
    BY <1>2, <1>5, <2>1, <2>2 DEF AppInv, HostsOnTheirWay
  <2>3. CASE h \notin hosts
    BY <1>2, <2>1, <2>3
  <2>. QED  BY <2>2, <2>3
<1>. QED  BY <1>3, <1>4, <1>6, <1>7 DEF AppInv

(* A loss: fewer links and hosts, and nothing is queued.                   *)
LEMMA LossKeepsAppInv ==
  ASSUME AppInv, UNCHANGED <<known, config, stores, life, executors, session>>,
         losses' = losses + 1, available' \subseteq available,
         links' \subseteq links, hosts' \subseteq hosts, InventoryConsistent'
  PROVE  AppInv'
<1>1. TypeOK'
  BY DEF AppInv, TypeOK, config, stores, life, executors, session
<1>2. (Counters /\ ConfigurationComplete /\ IdleUnlessRunning /\ TriesLeft)'
  BY DEF AppInv, Counters, ConfigurationComplete, IdleUnlessRunning, TriesLeft,
         OldDone, config, life, session, executors
<1>3. /\ \A d, k, v : Installed(d, k, v) => Installed(d, k, v)'
      /\ \A u : (Pending(u) => Pending(u)') /\ (Queued(u) => Queued(u)')
  BY DEF Installed, Pending, Queued, stores, executors
<1>4. LinksOnTheirWay'
  BY <1>3 DEF AppInv, LinksOnTheirWay, LinkServed, life
<1>5. HostsOnTheirWay'
  BY <1>3 DEF AppInv, HostsOnTheirWay, life
<1>. QED  BY <1>1, <1>2, <1>4, <1>5 DEF AppInv

(* More of netcfg.json.                                                    *)
LEMMA ConfigurationKeepsAppInv ==
  ASSUME AppInv, UNCHANGED <<inventory, stores, life, executors, session, losses>>,
         configured \subseteq configured', configured' \subseteq Dev,
         ifaces \subseteq ifaces', ifaces' \subseteq Interface
  PROVE  AppInv'
<1>1. TypeOK'
  BY DEF AppInv, TypeOK, inventory, stores, life, executors, session
<1>2. ConfigurationComplete'
  BY DEF AppInv, ConfigurationComplete, life
<1>3. (Counters /\ InventoryConsistent /\ IdleUnlessRunning /\ TriesLeft)'
  BY DEF AppInv, Counters, InventoryConsistent, IdleUnlessRunning, TriesLeft,
         OldDone, inventory, life, session, executors
<1>4. /\ \A d, k, v : Installed(d, k, v) => Installed(d, k, v)'
      /\ \A u : (Pending(u) => Pending(u)') /\ (Queued(u) => Queued(u)')
  BY DEF Installed, Pending, Queued, stores, executors
<1>5. LinksOnTheirWay'
  BY <1>4 DEF AppInv, LinksOnTheirWay, LinkServed, inventory, life
<1>6. HostsOnTheirWay'
  BY <1>4 DEF AppInv, HostsOnTheirWay, inventory, life
<1>. QED  BY <1>1, <1>2, <1>3, <1>5, <1>6 DEF AppInv

(* A command that is carried out installs what was typed.                  *)
LEMMA CommandDone ==
  ASSUME AppInv, Command, DeviceFound(Script[line])
  PROVE  /\ line \in DOMAIN Script /\ done' = done \cup {line}
         /\ \E new, grp :
              /\ InstallsRules(new) /\ InstallsGroups(grp) /\ Proper(new, grp)
              /\ \A x \in DOMAIN new \cup DOMAIN grp : x[1] \in known
              /\ <<Script[line].dev, Script[line].key>>
                   \in DOMAIN (IF Script[line].kind \in RuleCommands THEN new ELSE grp)
<1>. DEFINE c == Script[line]
            x == <<c.dev, c.key>>
            one == [k \in {x} |-> c.arg]
<1>1. /\ line \in DOMAIN Script /\ done' = done \cup {line}
      /\ RouteInsert(c) \/ IntRule(c) \/ McastPortAdd(c) \/ MirroringAdd(c)
      /\ c.dev \in known
  BY DEF Command, DeviceFound
<1>2. c \in Commands
  BY <1>1, AppTyped
<1>3. DOMAIN one = {x} /\ one[x] = c.arg /\ x[1] = c.dev /\ x[2] = c.key
  OBVIOUS
<1>4. c.key # BroadcastGid
  BY <1>1, CommandsApart
<1>5. DOMAIN None = {}
  BY DEF None
<1>6. CASE c.kind \in RuleCommands
  <2>1. c.dev \in Dev /\ c.key \in Key /\ c.arg \in Port
    BY <1>2, <1>6 DEF Commands, RuleCommands, GroupCommands
  <2>2. Apply(one) /\ UNCHANGED groups
    BY <1>1, <1>6 DEF RouteInsert, IntRule, McastPortAdd, MirroringAdd, RuleCommands
  <2>3. Meant(x, c.arg)
    BY <1>1, <1>6, MeantRules
  <2>. HIDE DEF c, x, one
  <2>4. ProperRules(one)
    BY <1>3, <2>1, <2>3 DEF ProperRules, x
  <2>5. Proper(one, None)
    BY <1>5, <2>4 DEF Proper, ProperGroups
  <2>6. InstallsRules(one) /\ InstallsGroups(None)
    BY <2>2, ApplyInstalls, NothingInstalled
  <2>7. \A y \in DOMAIN one \cup DOMAIN None : y[1] \in known
    BY <1>1, <1>3, <1>5
  <2>8. x \in DOMAIN (IF c.kind \in RuleCommands THEN one ELSE None)
    BY <1>3, <1>6
  <2>. QED  BY <1>1, <2>5, <2>6, <2>7, <2>8 DEF c, x
<1>7. CASE c.kind \notin RuleCommands
  <2>1. c.dev \in Dev /\ c.key \in Gid /\ c.arg \subseteq Port
    BY <1>2, <1>7 DEF Commands, RuleCommands, GroupCommands
  <2>2. AddGroups(one) /\ UNCHANGED <<rules, dying>>
    BY <1>1, <1>7 DEF RouteInsert, IntRule, McastPortAdd, MirroringAdd, RuleCommands
  <2>. HIDE DEF c, x, one
  <2>3. ProperGroups(one)
    BY <1>3, <1>4, <2>1 DEF ProperGroups, x
  <2>4. Proper(None, one)
    BY <1>5, <2>3 DEF Proper, ProperRules
  <2>5. InstallsRules(None) /\ InstallsGroups(one)
    BY <2>2, AddGroupsInstalls, NothingInstalled
  <2>6. \A y \in DOMAIN None \cup DOMAIN one : y[1] \in known
    BY <1>1, <1>3, <1>5
  <2>7. x \in DOMAIN (IF c.kind \in RuleCommands THEN None ELSE one)
    BY <1>3, <1>7
  <2>. QED  BY <1>1, <2>4, <2>5, <2>6, <2>7 DEF c, x
<1>. QED  BY <1>6, <1>7

LEMMA CommandKeepsAppInv ==
  ASSUME AppInv, Command
  PROVE  AppInv'
<1>1. /\ phase = "running" /\ line \in DOMAIN Script /\ line' = line + 1
      /\ UNCHANGED <<inventory, config, life, executors, losses>>
      /\ \/ DeviceFound(Script[line])
         \/ UNCHANGED <<stores, done>>
  BY DEF Command
<1>2. TypeOK /\ StoresTyped /\ DOMAIN Script = 1 .. Len(Script) /\ Len(Script) \in Nat
  BY AppTyped DEF AppInv, TypeOK, StoresTyped
<1>3. /\ StoresTyped' /\ done' \subseteq 1 .. Len(Script)
      /\ \A d, k, v : Meant(<<d, k>>, v) /\ Installed(d, k, v) => Installed(d, k, v)'
  <2>1. CASE DeviceFound(Script[line])
    <3>1. PICK new, grp : InstallsRules(new) /\ InstallsGroups(grp) /\ Proper(new, grp)
      BY <2>1, CommandDone
    <3>2. /\ StoresTyped'
          /\ \A d, k, v : Meant(<<d, k>>, v) /\ Installed(d, k, v) => Installed(d, k, v)'
      BY <1>2, <3>1, InstallKeeps
    <3>. QED  BY <1>1, <1>2, <2>1, <3>2, CommandDone DEF TypeOK
  <2>2. CASE UNCHANGED <<stores, done>>
    BY <1>2, <2>2 DEF StoresTyped, TypeOK, Installed, stores
  <2>. QED  BY <1>1, <2>1, <2>2
<1>4. TypeOK'
  <2>1. line' \in 1 .. Len(Script) + 1
    BY <1>1, <1>2
  <2>. QED  BY <1>1, <1>2, <1>3, <2>1
     DEF TypeOK, StoresTyped, inventory, config, life, executors
<1>5. (Counters /\ InventoryConsistent /\ ConfigurationComplete
        /\ IdleUnlessRunning /\ TriesLeft)'
  BY <1>1 DEF AppInv, Counters, InventoryConsistent, ConfigurationComplete,
       IdleUnlessRunning, TriesLeft, OldDone, inventory, config, life, executors
<1>6. \A u : (Pending(u) => Pending(u)') /\ (Queued(u) => Queued(u)')
  BY <1>1 DEF Pending, Queued, executors
<1>7. LinksOnTheirWay'
  BY <1>1, <1>2, <1>3, <1>6, MeantRules
     DEF AppInv, TypeOK, LinksOnTheirWay, LinkServed, inventory, life
<1>8. HostsOnTheirWay'
  BY <1>1, <1>2, <1>3, <1>6, MeantRules
     DEF AppInv, TypeOK, HostsOnTheirWay, inventory, life
<1>. QED  BY <1>4, <1>5, <1>7, <1>8 DEF AppInv

-----------------------------------------------------------------------------
LEMMA InitAppInv == Init => AppInv
<1>. SUFFICES ASSUME Init PROVE AppInv
  OBVIOUS
<1>1. /\ queue = [e \in Executors |-> << >>] /\ timers = [e \in Executors |-> {}]
      /\ "live" \in Executors /\ phase = "stopped"
      /\ << >> \in Seq(Task) /\ Len(Script) \in Nat /\ RetryTimes \in Nat
  BY AppTyped DEF Init, Executors
<1>2. TypeOK
  <2>1. DOMAIN rules = {} /\ DOMAIN groups = {}
    BY DEF Init, None
  <2>2. queue \in [Executors -> Seq(Task)] /\ timers \in [Executors -> SUBSET SetUpAll]
    BY <1>1
  <2>3. line \in 1 .. Len(Script) + 1 /\ retry \in 0 .. RetryTimes
    BY <1>1 DEF Init
  <2>4. configured \subseteq Dev /\ ifaces \subseteq Interface
    BY AppTyped DEF Init
  <2>. QED  BY <2>1, <2>2, <2>3, <2>4 DEF Init, TypeOK
<1>. QED
  BY <1>1, <1>2 DEF Init, AppInv, Counters, InventoryConsistent, ConfigurationComplete,
       IdleUnlessRunning, TriesLeft, Removing, LinksOnTheirWay, HostsOnTheirWay

LEMMA StutterKeepsAppInv == AppInv /\ UNCHANGED vars => AppInv'
BY DEF AppInv, TypeOK, Counters, InventoryConsistent, ConfigurationComplete,
       IdleUnlessRunning, TriesLeft, OldDone, LinksOnTheirWay, HostsOnTheirWay,
       LinkServed, Installed, Pending, Queued, vars, inventory, config, stores, life,
       executors, session

LEMMA NextKeepsAppInv == AppInv /\ [Next]_vars => AppInv'
<1>. SUFFICES ASSUME AppInv, [Next]_vars PROVE AppInv'
  OBVIOUS
<1>0. /\ TypeOK /\ InventoryConsistent
      /\ Link \subseteq Dev \X Port \X Dev /\ Interface \subseteq Dev \X Port
      /\ \A h \in Host : HostAt[h][1] \in Dev
  BY AppTyped DEF AppInv
<1>1. ASSUME NEW d \in Dev, DeviceAvailable(d)
      PROVE  AppInv'
  <2>. DEFINE tasks == <<[do |-> "SetUp", on |-> d]>>
  <2>1. /\ available' = available \cup {d} /\ known' = known \cup {d} /\ Notify(tasks)
        /\ UNCHANGED <<links, hosts, config, stores, life, timers, session, losses>>
    BY <1>1 DEF DeviceAvailable
  <2>2. tasks \in Seq(Task)
    BY DEF Task
  <2>3. InventoryConsistent'
    BY <1>0, <2>1 DEF InventoryConsistent
  <2>. HIDE DEF tasks
  <2>. QED  BY <1>0, <2>1, <2>2, <2>3, EventKeepsAppInv DEF TypeOK
<1>2. ASSUME NEW d \in Dev, DeviceLost(d)
      PROVE  AppInv'
  <2>1. InventoryConsistent'
    BY <1>0, <1>2 DEF DeviceLost, InventoryConsistent
  <2>. QED  BY <1>2, <2>1, LossKeepsAppInv DEF DeviceLost
<1>3. ASSUME NEW d \in Dev, Configure(d)
      PROVE  AppInv'
  BY <1>0, <1>3, ConfigurationKeepsAppInv DEF Configure, TypeOK
<1>4. ASSUME NEW l \in Link, LinkAdded(l)
      PROVE  AppInv'
  <2>. DEFINE tasks == <<[do |-> "NextHops", on |-> l[1]], [do |-> "NextHops", on |-> l[3]]>>
  <2>1. /\ links' = links \cup {l} /\ {l[1], l[3]} \subseteq available /\ Notify(tasks)
        /\ UNCHANGED <<known, available, hosts, config, stores, life, timers, session, losses>>
    BY <1>4 DEF LinkAdded
  <2>2. tasks \in Seq(Task) /\ 1 \in 1 .. Len(tasks)
        /\ tasks[1] = [do |-> "NextHops", on |-> l[1]]
    BY <1>0 DEF Task
  <2>3. InventoryConsistent'
    BY <1>0, <2>1 DEF InventoryConsistent
  <2>. HIDE DEF tasks
  <2>. QED  BY <1>0, <2>1, <2>2, <2>3, EventKeepsAppInv DEF TypeOK
<1>5. ASSUME NEW l \in Link, LinkRemoved(l)
      PROVE  AppInv'
  <2>1. InventoryConsistent'
    BY <1>0, <1>5 DEF LinkRemoved, InventoryConsistent
  <2>. QED  BY <1>5, <2>1, LossKeepsAppInv DEF LinkRemoved
<1>6. ASSUME NEW h \in Host, HostAdded(h)
      PROVE  AppInv'
  <2>. DEFINE tasks == <<[do |-> "Learn", on |-> h]>>
  <2>1. /\ hosts' = hosts \cup {h} /\ HostAt[h][1] \in available /\ Notify(tasks)
        /\ UNCHANGED <<known, available, links, config, stores, life, timers, session, losses>>
    BY <1>6 DEF HostAdded
  <2>2. tasks \in Seq(Task) /\ 1 \in 1 .. Len(tasks)
        /\ tasks[1] = [do |-> "Learn", on |-> h]
    BY DEF Task
  <2>3. InventoryConsistent'
    BY <1>0, <2>1 DEF InventoryConsistent
  <2>. HIDE DEF tasks
  <2>. QED  BY <1>0, <2>1, <2>2, <2>3, EventKeepsAppInv DEF TypeOK
<1>7. ASSUME NEW x \in Interface, ConfigureInterface(x)
      PROVE  AppInv'
  BY <1>0, <1>7, ConfigurationKeepsAppInv DEF ConfigureInterface, TypeOK
<1>8. CASE Command
  BY <1>8, CommandKeepsAppInv
<1>9. CASE Activate
  BY <1>9, ActivateKeepsAppInv
<1>10. CASE Deactivate
  BY <1>10, DeactivateKeepsAppInv
<1>11. CASE CleanUp
  BY <1>11, CleanUpKeepsAppInv
<1>12. CASE RemoveGroups
  BY <1>12, RemoveGroupsKeepsAppInv
<1>13. CASE RetryCleanUp
  BY <1>13, RetryKeepsAppInv
<1>14. ASSUME NEW e \in Executors, Execute(e)
       PROVE  AppInv'
  BY <1>14, ExecuteKeepsAppInv
<1>15. ASSUME NEW e \in Executors, NEW t \in SetUpAll, TimerFires(e, t)
       PROVE  AppInv'
  BY <1>15, TimerKeepsAppInv
<1>16. ASSUME NEW k \in dying, Confirm(k)
       PROVE  AppInv'
  BY <1>16, ConfirmKeepsAppInv
<1>17. CASE UNCHANGED vars
  BY <1>17, StutterKeepsAppInv
<1>. QED
  BY <1>1, <1>2, <1>3, <1>4, <1>5, <1>6, <1>7, <1>8, <1>9, <1>10, <1>11, <1>12, <1>13,
     <1>14, <1>15, <1>16, <1>17 DEF Next, Environment, Program

LEMMA AppInvAlways == Spec => []AppInv
BY InitAppInv, NextKeepsAppInv, PTL DEF Spec

(* The stores, queues and counters of the application keep their types:    *)
(* it writes no key or port that the topology, netcfg.json and the         *)
(* commands do not name, and the tries of waitPreviousCleanup never fall   *)
(* below zero.                                                             *)
THEOREM AppTypes == Spec => []TypeOK
BY AppInvAlways, PTL DEF AppInv

(* Whatever order switches, links, losses, reloads and the configuration   *)
(* come in: once the executor is idle, an application that was started     *)
(* with netcfg.json complete has a next-hop rule for every link ONOS       *)
(* knows, also when an activation before it set the switches up too early  *)
(* (Ipv4RoutingComponent: a task for each event, and setUpAllDevices).     *)
THEOREM LinksAreServed == Spec => []LinksServedOnceConfigured
<1>1. AppInv => LinksServedOnceConfigured
  <2>. SUFFICES ASSUME AppInv, complete, Quiet, NEW l \in Resolved(links)
                PROVE  LinkServed(l)
    BY DEF LinksServedOnceConfigured
  <2>1. l \in links /\ phase = "running"
    BY DEF Resolved, Quiet
  <2>2. timers["live"] = {} /\ Len(queue["live"]) = 0
    BY DEF Quiet
  <2>3. \A t : ~Queued(t)
    BY <2>2 DEF Queued
  <2>4. ~Pending("RoutingAll")
    BY <2>2, <2>3 DEF Pending
  <2>. QED  BY <2>1, <2>3, <2>4 DEF AppInv, LinksOnTheirWay
<1>. QED  BY <1>1, AppInvAlways, PTL

(* Likewise for the unicast rule of every host ONOS knows, whether the     *)
(* configuration was complete or not (L2BridgingComponent).                *)
THEOREM HostsAreLearned == Spec => []HostsLearned
<1>1. AppInv => HostsLearned
  <2>. SUFFICES ASSUME AppInv, Quiet, NEW h \in hosts
                PROVE  Installed(HostAt[h][1], h, HostAt[h][2])
    BY DEF HostsLearned
  <2>1. timers["live"] = {} /\ Len(queue["live"]) = 0 /\ phase = "running"
    BY DEF Quiet
  <2>2. \A t : ~Queued(t)
    BY <2>1 DEF Queued
  <2>3. ~Pending("BridgingAll")
    BY <2>1, <2>2 DEF Pending
  <2>. QED  BY <2>1, <2>2, <2>3 DEF AppInv, HostsOnTheirWay
<1>. QED  BY <1>1, AppInvAlways, PTL

-----------------------------------------------------------------------------
(* As long as nothing is lost. *)

(* Installing rules and groups on connected switches.                      *)
LEMMA InstallKeepsCalm ==
  ASSUME AppInv, Calm, NEW new, NEW grp,
         InstallsRules(new), InstallsGroups(grp), Proper(new, grp),
         \A x \in DOMAIN new \cup DOMAIN grp : x[1] \in available,
         UNCHANGED <<inventory, config, life>>
  PROVE  /\ \A k \in (DOMAIN rules \cup DOMAIN groups)' : k[1] \in available'
         /\ NothingDying' /\ GroupsComplete'
         /\ \A d : phase = "running" /\ BroadcastSet(d) => BroadcastSet(d)'
         /\ \A d \in Dev : phase = "running" /\ complete /\ DoneFor(d, new, grp)
                             => BroadcastSet(d)'
         /\ \A d, k, v : Meant(<<d, k>>, v) /\ Installed(d, k, v) => Installed(d, k, v)'
         /\ \A k \in DOMAIN groups : k \in DOMAIN groups'
<1>1. StoresTyped
  BY DEF AppInv, TypeOK, StoresTyped
<1>2. /\ \A d, k, v : Meant(<<d, k>>, v) /\ Installed(d, k, v) => Installed(d, k, v)'
      /\ \A d, k, v : Meant(<<d, k>>, v) /\ <<d, k>> \in DOMAIN new => Installed(d, k, v)'
  BY <1>1, InstallKeeps
<1>3. complete => \A d : BroadcastPorts(d) = AllPorts(d)
  BY DEF AppInv, ConfigurationComplete, BroadcastPorts, AllPorts
<1>4. \A k \in (DOMAIN rules \cup DOMAIN groups)' : k[1] \in available'
  BY DEF InstallsRules, InstallsGroups, Calm, OnConnected, inventory
<1>5. NothingDying'
  BY DEF InstallsRules, Calm, NothingDying, life
<1>6. GroupsComplete'
  <2>. SUFFICES ASSUME phase = "running", complete, NEW d \in Dev,
                       <<d, BroadcastGid>> \in DOMAIN groups'
                PROVE  groups'[<<d, BroadcastGid>>] = AllPorts(d)
    BY DEF GroupsComplete, life
  <2>1. CASE <<d, BroadcastGid>> \in DOMAIN groups
    BY <2>1 DEF InstallsGroups, Calm, GroupsComplete
  <2>2. CASE <<d, BroadcastGid>> \notin DOMAIN groups
    <3>1. <<d, BroadcastGid>> \in DOMAIN grp /\ groups'[<<d, BroadcastGid>>] = grp[<<d, BroadcastGid>>]
      BY <2>2 DEF InstallsGroups
    <3>2. grp[<<d, BroadcastGid>>] = BroadcastPorts(d)
      BY <3>1 DEF Proper, ProperGroups
    <3>. QED  BY <1>3, <3>1, <3>2
  <2>. QED  BY <2>1, <2>2
<1>7. ASSUME NEW d, BroadcastSet(d)
      PROVE  BroadcastSet(d)'
  BY <1>2, <1>7, MeantRules DEF BroadcastSet, InstallsGroups
<1>8. ASSUME NEW d \in Dev, complete, DoneFor(d, new, grp)
      PROVE  BroadcastSet(d)'
  <2>1. Installed(d, BroadcastKey, BroadcastGid)'
    BY <1>2, <1>8, MeantRules DEF DoneFor
  <2>2. AllPorts(d) # {} => <<d, BroadcastGid>> \in DOMAIN groups'
    BY <1>3, <1>8 DEF DoneFor, InstallsGroups
  <2>. QED  BY <2>1, <2>2 DEF BroadcastSet
<1>9. \A k \in DOMAIN groups : k \in DOMAIN groups'
  BY DEF InstallsGroups
<1>. QED  BY <1>2, <1>4, <1>5, <1>6, <1>7, <1>8, <1>9

(* Commands that are done stay done while rules only change as meant.      *)
LEMMA CommandsStay ==
  ASSUME AppInv, CommandsKept, phase = "running", NEW i \in done,
         \A d, k, v : Meant(<<d, k>>, v) /\ Installed(d, k, v) => Installed(d, k, v)',
         \A k \in DOMAIN groups : k \in DOMAIN groups'
  PROVE  LET c == Script[i] IN
         IF c.kind \in RuleCommands THEN Installed(c.dev, c.key, c.arg)'
         ELSE <<c.dev, c.key>> \in DOMAIN groups'
<1>1. i \in DOMAIN Script
  BY AppTyped DEF AppInv, TypeOK
<1>. QED  BY <1>1, MeantRules DEF CommandsKept

LEMMA ExecuteKeepsCalm ==
  ASSUME AppInv, Calm, NEW e \in Executors, Execute(e)
  PROVE  Calm'
<1>. DEFINE t == Head(queue[e])
<1>1. Take(e, t.do)
  BY Execution
<1>2. PICK new, grp : /\ InstallsRules(new) /\ InstallsGroups(grp)
                      /\ Proper(new, grp) /\ Performs(t, new, grp) /\ Within(t, new, grp)
  BY Execution
<1>3. TypeOK /\ InventoryConsistent
  BY DEF AppInv
<1>4. UNCHANGED <<inventory, config, life, timers, session, losses>>
  BY <1>1 DEF Take
<1>5. /\ queue[e] # << >> /\ queue[e] \in Seq(Task) /\ t \in Task
  BY <1>1, <1>3, TaskTaken
<1>6. 1 \in 1 .. Len(queue[e]) /\ t = queue[e][1]
  BY <1>5, TailElements
<1>7. \A x \in DOMAIN new \cup DOMAIN grp : x[1] \in available
  BY <1>2, <1>3, <1>6 DEF Within, Calm, OnConnected, InventoryConsistent
<1>8. /\ \A k \in (DOMAIN rules \cup DOMAIN groups)' : k[1] \in available'
      /\ NothingDying' /\ GroupsComplete'
      /\ \A d : phase = "running" /\ BroadcastSet(d) => BroadcastSet(d)'
      /\ \A d \in Dev : phase = "running" /\ complete /\ DoneFor(d, new, grp)
                          => BroadcastSet(d)'
      /\ \A d, k, v : Meant(<<d, k>>, v) /\ Installed(d, k, v) => Installed(d, k, v)'
      /\ \A k \in DOMAIN groups : k \in DOMAIN groups'
  BY <1>2, <1>4, <1>7, InstallKeepsCalm
<1>9. /\ \A u : Queued(u) => Queued(u)' \/ (e = "live" /\ u = t)
      /\ \A f \in Executors : \A i \in 1 .. Len(queue'[f]) :
           \E j \in 1 .. Len(queue[f]) : queue'[f][i] = queue[f][j]
      /\ OldDone => e = "live"
  BY <1>1, <1>3, QueuedAfterTake
<1>10. OnConnected'
  <2>1. known' = available' /\ available' = available
    BY <1>4 DEF Calm, OnConnected, inventory
  <2>2. ASSUME NEW f \in Executors, NEW i \in 1 .. Len(queue'[f])
        PROVE  /\ queue'[f][i].do = "SetUp" => queue'[f][i].on \in available
               /\ queue'[f][i].do = "Learn" => HostAt[queue'[f][i].on][1] \in available
    BY <1>9 DEF Calm, OnConnected
  <2>. QED  BY <1>8, <2>1, <2>2 DEF OnConnected
<1>11. SecondTry'
  <2>1. phase \in {"groups", "wait"} => retry >= RetryTimes
    <3>. SUFFICES ASSUME phase \in {"groups", "wait"}, retry < RetryTimes
                  PROVE  FALSE
      BY <1>3, AppTyped DEF TypeOK
    <3>1. e = "live"
      BY <1>9 DEF AppInv, TriesLeft, Removing
    <3>. QED  BY <1>5, <3>1 DEF AppInv, IdleUnlessRunning
  <2>. QED  BY <1>3, <1>4, <2>1, AppTyped DEF SecondTry, TypeOK, life
<1>12. BroadcastOnItsWay'
  <2>. SUFFICES ASSUME phase' = "running", complete', NEW d \in available'
                PROVE  (\/ BroadcastSet(d) \/ Pending("BridgingAll")
                        \/ Queued([do |-> "SetUp", on |-> d]))'
    BY DEF BroadcastOnItsWay
  <2>1. phase = "running" /\ complete /\ d \in available /\ d \in Dev
    BY <1>3, <1>4 DEF TypeOK, inventory, life
  <2>2. \/ BroadcastSet(d) \/ Pending("BridgingAll")
        \/ Queued([do |-> "SetUp", on |-> d])
    BY <2>1 DEF Calm, BroadcastOnItsWay
  <2>3. CASE BroadcastSet(d)
    BY <1>8, <2>1, <2>3
  <2>4. CASE t.do = "BridgingAll" \/ (t.do = "SetUp" /\ t.on = d)
    BY <1>2, <1>8, <2>1, <2>4 DEF Performs
  <2>5. CASE Pending("BridgingAll") /\ ~(t.do = "BridgingAll")
    BY <1>4, <1>9, <2>5 DEF Pending
  <2>6. CASE Queued([do |-> "SetUp", on |-> d]) /\ ~(t.do = "SetUp" /\ t.on = d)
    BY <1>9, <2>6
  <2>. QED  BY <2>2, <2>3, <2>4, <2>5, <2>6
<1>13. CommandsKept'
  <2>. SUFFICES ASSUME phase = "running", NEW i \in done
                PROVE  LET c == Script[i] IN
                       IF c.kind \in RuleCommands THEN Installed(c.dev, c.key, c.arg)'
                       ELSE <<c.dev, c.key>> \in DOMAIN groups'
    BY <1>4 DEF CommandsKept, life, session
  <2>. QED  BY <1>8, CommandsStay DEF Calm
<1>. QED  BY <1>8, <1>10, <1>11, <1>12, <1>13 DEF Calm

LEMMA CommandKeepsCalm ==
  ASSUME AppInv, Calm, Command
  PROVE  Calm'
<1>1. /\ phase = "running" /\ line \in DOMAIN Script
      /\ UNCHANGED <<inventory, config, life, executors, losses>>
      /\ \/ DeviceFound(Script[line])
         \/ ~DeviceFound(Script[line]) /\ UNCHANGED <<stores, done>>
  BY DEF Command
<1>2. CASE UNCHANGED <<stores, done>>
  BY <1>1, <1>2 DEF Calm, OnConnected, SecondTry, NothingDying, GroupsComplete,
       BroadcastOnItsWay, BroadcastSet, CommandsKept, Installed, Pending, Queued,
       inventory, config, life, executors, stores
<1>3. CASE DeviceFound(Script[line])
  <2>1. PICK new, grp :
          /\ InstallsRules(new) /\ InstallsGroups(grp) /\ Proper(new, grp)
          /\ \A x \in DOMAIN new \cup DOMAIN grp : x[1] \in known
          /\ <<Script[line].dev, Script[line].key>>
               \in DOMAIN (IF Script[line].kind \in RuleCommands THEN new ELSE grp)
    BY <1>3, CommandDone
  <2>2. known = available /\ done' = done \cup {line}
    BY <1>3, CommandDone DEF Calm, OnConnected
  <2>3. /\ \A k \in (DOMAIN rules \cup DOMAIN groups)' : k[1] \in available'
        /\ NothingDying' /\ GroupsComplete'
        /\ \A d : phase = "running" /\ BroadcastSet(d) => BroadcastSet(d)'
        /\ \A d, k, v : Meant(<<d, k>>, v) /\ Installed(d, k, v) => Installed(d, k, v)'
        /\ \A k \in DOMAIN groups : k \in DOMAIN groups'
    BY <1>1, <2>1, <2>2, InstallKeepsCalm
  <2>4. OnConnected' /\ SecondTry'
    BY <1>1, <2>3 DEF Calm, OnConnected, SecondTry, inventory, executors, life
  <2>5. BroadcastOnItsWay'
    BY <1>1, <2>3 DEF Calm, BroadcastOnItsWay, Pending, Queued, inventory, executors, life
  <2>6. CommandsKept'
    <3>. SUFFICES ASSUME NEW i \in done'
                  PROVE  LET c == Script[i] IN
                         IF c.kind \in RuleCommands THEN Installed(c.dev, c.key, c.arg)'
                         ELSE <<c.dev, c.key>> \in DOMAIN groups'
      BY DEF CommandsKept
    <3>1. CASE i \in done
      BY <1>1, <2>3, <3>1, CommandsStay DEF Calm
    <3>2. CASE i = line
      <4>1. CASE Script[line].kind \in RuleCommands
        <5>1. \A d, k, v : Meant(<<d, k>>, v) /\ <<d, k>> \in DOMAIN new => Installed(d, k, v)'
          BY <2>1, InstallKeeps DEF AppInv, TypeOK, StoresTyped
        <5>. QED  BY <1>1, <2>1, <3>2, <4>1, <5>1, MeantRules
      <4>2. CASE Script[line].kind \notin RuleCommands
        BY <2>1, <3>2, <4>2 DEF InstallsGroups
      <4>. QED  BY <4>1, <4>2
    <3>. QED  BY <2>2, <3>1, <3>2
  <2>. QED  BY <2>3, <2>4, <2>5, <2>6 DEF Calm
<1>. QED  BY <1>1, <1>2, <1>3

LEMMA TimerKeepsCalm ==
  ASSUME AppInv, Calm, NEW e \in Executors, NEW t \in SetUpAll, TimerFires(e, t)
  PROVE  Calm'
<1>. DEFINE r == [do |-> t, on |-> "all"]
<1>1. /\ UNCHANGED <<inventory, config, stores, life, session, losses>>
      /\ t \in timers[e] /\ timers' = [timers EXCEPT ![e] = @ \ {t}]
      /\ queue' = [queue EXCEPT ![e] = Append(@, r)]
  BY DEF TimerFires
<1>2. TypeOK /\ r \in Task /\ queue[e] \in Seq(Task) /\ r.do \notin {"SetUp", "Learn"}
  BY DEF AppInv, TypeOK, Task, SetUpAll
<1>3. /\ \A f \in Executors : queue'[f] = IF f = e THEN Append(queue[e], r) ELSE queue[f]
      /\ \A f \in Executors : timers'[f] = IF f = e THEN timers[e] \ {t} ELSE timers[f]
      /\ "live" \in Executors
  BY <1>1, <1>2 DEF TypeOK, Executors
<1>4. /\ \A i \in 1 .. Len(queue[e]) : /\ i \in 1 .. Len(Append(queue[e], r))
                                       /\ Append(queue[e], r)[i] = queue[e][i]
      /\ Len(queue[e]) + 1 \in 1 .. Len(Append(queue[e], r))
      /\ Append(queue[e], r)[Len(queue[e]) + 1] = r
      /\ \A i \in 1 .. Len(Append(queue[e], r)) :
           (i \in 1 .. Len(queue[e]) /\ Append(queue[e], r)[i] = queue[e][i])
           \/ Append(queue[e], r)[i] = r
  <2>. HIDE DEF r
  <2>. QED  BY <1>2, AppendElements
<1>5. OnConnected'
  <2>1. ASSUME NEW f \in Executors, NEW i \in 1 .. Len(queue'[f])
        PROVE  /\ queue'[f][i].do = "SetUp" => queue'[f][i].on \in available
               /\ queue'[f][i].do = "Learn" => HostAt[queue'[f][i].on][1] \in available
    <3>1. CASE f = e
      <4>1. queue'[f] = Append(queue[e], r) /\ i \in 1 .. Len(Append(queue[e], r))
        BY <1>3, <3>1
      <4>2. CASE i \in 1 .. Len(queue[e]) /\ queue'[f][i] = queue[e][i]
        BY <4>2 DEF Calm, OnConnected
      <4>3. CASE queue'[f][i] = r
        BY <1>2, <4>3
      <4>. QED  BY <1>4, <4>1, <4>2, <4>3
    <3>2. CASE f # e
      <4>1. queue'[f] = queue[f]
        BY <1>3, <3>2
      <4>. QED  BY <4>1 DEF Calm, OnConnected
    <3>. QED  BY <3>1, <3>2
  <2>. QED  BY <1>1, <2>1 DEF Calm, OnConnected, inventory, stores
<1>6. /\ \A u : Queued(u) => Queued(u)'
      /\ Pending("BridgingAll") => Pending("BridgingAll")'
  <2>1. CASE e = "live"
    <3>1. \A u : Queued(u) => Queued(u)'
      BY <1>3, <1>4, <2>1 DEF Queued
    <3>2. Queued(r)'
      <4>. HIDE DEF r
      <4>1. queue'["live"] = Append(queue["live"], r)
        BY <1>3, <2>1
      <4>2. /\ Len(queue["live"]) + 1 \in 1 .. Len(queue'["live"])
            /\ queue'["live"][Len(queue["live"]) + 1] = r
        BY <1>4, <2>1, <4>1
      <4>. QED  BY <4>2 DEF Queued
    <3>. QED  BY <1>3, <2>1, <3>1, <3>2 DEF Pending
  <2>2. CASE e # "live"
    BY <1>3, <2>2 DEF Queued, Pending
  <2>. QED  BY <2>1, <2>2
<1>7. BroadcastOnItsWay'
  BY <1>1, <1>6 DEF Calm, BroadcastOnItsWay, BroadcastSet, Installed, inventory, stores, life
<1>8. (SecondTry /\ NothingDying /\ GroupsComplete /\ CommandsKept)'
  BY <1>1 DEF Calm, SecondTry, NothingDying, GroupsComplete, CommandsKept, Installed,
              stores, life, session
<1>. QED  BY <1>5, <1>7, <1>8 DEF Calm

LEMMA ConfirmKeepsCalm ==
  ASSUME AppInv, Calm, NEW k \in dying, Confirm(k)
  PROVE  Calm'
<1>1. /\ UNCHANGED <<inventory, config, life, executors, session, losses>>
      /\ dying' = dying \ {k}
      /\ DOMAIN rules' = DOMAIN rules \ {k} /\ DOMAIN groups' = DOMAIN groups \ {k}
  BY DEF Confirm
<1>2. phase # "running"
  BY DEF Calm, NothingDying
<1>. QED
  BY <1>1, <1>2 DEF Calm, OnConnected, SecondTry, NothingDying, GroupsComplete,
       BroadcastOnItsWay, CommandsKept, inventory, life, executors

(* What starts is empty: then nothing is dying and no group is old.        *)
LEMMA StartKeepsCalm ==
  ASSUME AppInv, Calm, phase # "running", Started, dying' = {},
         DOMAIN rules = {}, DOMAIN groups = {},
         UNCHANGED <<inventory, rules, groups, queue, session>>
  PROVE  Calm'
<1>1. phase' = "running" /\ Pending("BridgingAll")'
  BY StartedSchedules DEF AppInv
<1>2. done' = {}
  BY DEF AppInv, IdleUnlessRunning, session
<1>. QED
  BY <1>1, <1>2 DEF Calm, OnConnected, SecondTry, NothingDying, GroupsComplete,
       BroadcastOnItsWay, CommandsKept, inventory

(* And it is: nothing is left, or all that is left was to go and nothing   *)
(* that could still answer is to go.                                       *)
LEMMA StartsEmpty ==
  ASSUME AppInv, Calm,
         \/ CleanUp /\ phase' = "running"
         \/ RetryCleanUp /\ phase' = "running"
  PROVE  /\ Started /\ dying' = {} /\ DOMAIN rules = {} /\ DOMAIN groups = {}
         /\ phase # "running"
         /\ UNCHANGED <<inventory, rules, groups, queue, session>>
<1>0. /\ dying \subseteq DOMAIN rules \cup DOMAIN groups
      /\ \A k \in DOMAIN rules \cup DOMAIN groups : k[1] \in available
  BY DEF AppInv, TypeOK, Calm, OnConnected
<1>1. CASE CleanUp /\ phase' = "running"
  <2>1. Started /\ NothingLeft /\ dying' = dying \cup DOMAIN rules /\ phase = "scan"
        /\ UNCHANGED <<inventory, rules, groups, queue, session>>
    BY <1>1 DEF CleanUp
  <2>2. DOMAIN rules = {} /\ {k \in DOMAIN groups : k[1] \in available} = {}
    BY <2>1 DEF NothingLeft, ListedGroups, None
  <2>. QED  BY <1>0, <2>1, <2>2
<1>2. CASE RetryCleanUp /\ phase' = "running"
  <2>1. /\ phase = "wait" /\ Started /\ retry - 1 = 0
        /\ \A k \in dying : k[1] \notin available
        /\ UNCHANGED <<inventory, stores, queue, session>>
    BY <1>2 DEF RetryCleanUp
  <2>2. retry < RetryTimes
    BY <2>1, AppTyped DEF AppInv, TypeOK
  <2>3. DOMAIN rules \subseteq dying /\ DOMAIN groups \subseteq dying
    BY <2>1, <2>2 DEF Calm, SecondTry
  <2>. QED  BY <1>0, <2>1, <2>3 DEF stores
<1>. QED  BY <1>1, <1>2

LEMMA LifeKeepsCalm ==
  ASSUME AppInv, Calm,
         Activate \/ CleanUp \/ RemoveGroups \/ RetryCleanUp \/ Deactivate
  PROVE  Calm'
<1>1. CASE Activate
  BY <1>1 DEF Activate, Calm, OnConnected, SecondTry, NothingDying, GroupsComplete,
       BroadcastOnItsWay, CommandsKept, inventory, stores, executors
<1>2. CASE (CleanUp \/ RetryCleanUp) /\ phase' = "running"
  BY <1>2, StartsEmpty, StartKeepsCalm
<1>3. CASE CleanUp /\ phase' # "running"
  <2>1. /\ dying' = dying \cup DOMAIN rules /\ found' = ListedGroups
        /\ UNCHANGED <<inventory, rules, groups, queue>>
        /\ phase' \in {"groups", "stopGroups"}
    BY <1>3 DEF CleanUp, Started
  <2>2. ListedGroups = DOMAIN groups
    BY DEF ListedGroups, Calm, OnConnected
  <2>. QED
    BY <2>1, <2>2 DEF Calm, OnConnected, SecondTry, NothingDying, GroupsComplete,
         BroadcastOnItsWay, CommandsKept, inventory
<1>4. CASE RemoveGroups
  <2>1. /\ dying' = dying \cup (found \cap DOMAIN groups)
        /\ phase' = IF phase = "groups" THEN "wait" ELSE "stopped"
        /\ UNCHANGED <<inventory, rules, groups, retry, executors>>
        /\ phase \in {"groups", "stopGroups"}
    BY <1>4 DEF RemoveGroups
  <2>. QED
    BY <2>1 DEF Calm, OnConnected, SecondTry, NothingDying, GroupsComplete,
         BroadcastOnItsWay, CommandsKept, inventory, executors
<1>5. CASE RetryCleanUp /\ phase' # "running"
  <2>1. phase' = "scan" /\ UNCHANGED <<inventory, stores, queue>>
    BY <1>5 DEF RetryCleanUp, Started
  <2>. QED
    BY <2>1 DEF Calm, OnConnected, SecondTry, NothingDying, GroupsComplete,
         BroadcastOnItsWay, CommandsKept, inventory, stores
<1>6. CASE Deactivate
  <2>. DEFINE q == [live |-> << >>, old |-> queue["live"]]
  <2>1. phase' = "stopping" /\ queue' = q /\ UNCHANGED <<inventory, stores>>
    BY <1>6 DEF Deactivate
  <2>2. q["live"] = << >> /\ q["old"] = queue["live"] /\ Len(q["live"]) = 0
    OBVIOUS
  <2>3. ASSUME NEW f \in Executors, NEW i \in 1 .. Len(queue'[f])
        PROVE  /\ queue'[f][i].do = "SetUp" => queue'[f][i].on \in available
               /\ queue'[f][i].do = "Learn" => HostAt[queue'[f][i].on][1] \in available
    <3>1. "live" \in Executors /\ (f = "live" \/ f = "old")
      BY DEF Executors
    <3>2. f = "old" /\ queue'[f] = queue["live"]
      BY <2>1, <2>2, <3>1
    <3>. QED  BY <3>1, <3>2 DEF Calm, OnConnected
  <2>4. OnConnected'
    BY <2>1, <2>3 DEF Calm, OnConnected, inventory, stores
  <2>. QED
    BY <2>1, <2>4 DEF Calm, SecondTry, NothingDying, GroupsComplete,
         BroadcastOnItsWay, CommandsKept
<1>. QED  BY <1>1, <1>2, <1>3, <1>4, <1>5, <1>6

(* An event that adds to the inventory.                                    *)
LEMMA EventKeepsCalm ==
  ASSUME AppInv, Calm, NEW tasks \in Seq(Task), Notify(tasks),
         UNCHANGED <<config, stores, life, timers, session>>,
         available \subseteq available', known' = available',
         \A i \in 1 .. Len(tasks) :
           /\ tasks[i].do = "SetUp" => tasks[i].on \in available'
           /\ tasks[i].do = "Learn" => HostAt[tasks[i].on][1] \in available',
         \A d \in available' \ available :
           \E i \in 1 .. Len(tasks) : tasks[i] = [do |-> "SetUp", on |-> d]
  PROVE  Calm'
<1>1. /\ \A u : Queued(u) => Queued(u)'
      /\ phase = "running" => \A i \in 1 .. Len(tasks) : Queued(tasks[i])'
      /\ \A f \in Executors : \A i \in 1 .. Len(queue'[f]) :
           \/ \E j \in 1 .. Len(queue[f]) : queue'[f][i] = queue[f][j]
           \/ \E j \in 1 .. Len(tasks) : queue'[f][i] = tasks[j]
  BY Notified DEF AppInv
<1>2. OnConnected'
  <2>1. ASSUME NEW f \in Executors, NEW i \in 1 .. Len(queue'[f])
        PROVE  /\ queue'[f][i].do = "SetUp" => queue'[f][i].on \in available'
               /\ queue'[f][i].do = "Learn" => HostAt[queue'[f][i].on][1] \in available'
    <3>1. CASE \E j \in 1 .. Len(queue[f]) : queue'[f][i] = queue[f][j]
      BY <3>1 DEF Calm, OnConnected
    <3>2. CASE \E j \in 1 .. Len(tasks) : queue'[f][i] = tasks[j]
      BY <3>2
    <3>. QED  BY <1>1, <3>1, <3>2
  <2>. QED  BY <2>1 DEF Calm, OnConnected, stores
<1>3. BroadcastOnItsWay'
  <2>. SUFFICES ASSUME phase = "running", complete, NEW d \in available'
                PROVE  (\/ BroadcastSet(d) \/ Pending("BridgingAll")
                        \/ Queued([do |-> "SetUp", on |-> d]))'
    BY DEF BroadcastOnItsWay, life
  <2>1. CASE d \in available
    <3>1. \/ BroadcastSet(d) \/ Pending("BridgingAll")
          \/ Queued([do |-> "SetUp", on |-> d])
      BY <2>1 DEF Calm, BroadcastOnItsWay
    <3>2. BroadcastSet(d) => BroadcastSet(d)'
      BY DEF BroadcastSet, Installed, stores
    <3>3. Pending("BridgingAll") => Pending("BridgingAll")'
      BY <1>1 DEF Pending
    <3>. QED  BY <1>1, <3>1, <3>2, <3>3
  <2>2. CASE d \notin available
    BY <1>1, <2>2
  <2>. QED  BY <2>1, <2>2
<1>4. (SecondTry /\ NothingDying /\ GroupsComplete /\ CommandsKept)'
  BY DEF Calm, SecondTry, NothingDying, GroupsComplete, CommandsKept, Installed,
         stores, life, session
<1>. QED  BY <1>2, <1>3, <1>4 DEF Calm

LEMMA ConfigurationKeepsCalm ==
  ASSUME Calm, UNCHANGED <<inventory, stores, life, executors, session>>
  PROVE  Calm'
BY DEF Calm, OnConnected, SecondTry, NothingDying, GroupsComplete,
       BroadcastOnItsWay, BroadcastSet, CommandsKept, Installed, Pending, Queued,
       inventory, stores, life, executors, session

LEMMA NextKeepsUndisturbed == AppInv /\ UndisturbedInv /\ [Next]_vars => UndisturbedInv'
<1>. SUFFICES ASSUME AppInv, UndisturbedInv, [Next]_vars, losses' = 0
              PROVE  Calm'
  BY DEF UndisturbedInv
<1>0. losses \in Nat
  BY DEF AppInv, Counters
<1>1. ASSUME NEW d \in Dev, DeviceAvailable(d), Calm
      PROVE  Calm'
  <2>. DEFINE tasks == <<[do |-> "SetUp", on |-> d]>>
  <2>1. /\ available' = available \cup {d} /\ known' = known \cup {d} /\ Notify(tasks)
        /\ UNCHANGED <<config, stores, life, timers, session>>
    BY <1>1 DEF DeviceAvailable
  <2>2. /\ tasks \in Seq(Task) /\ 1 \in 1 .. Len(tasks)
        /\ tasks[1] = [do |-> "SetUp", on |-> d]
        /\ \A i \in 1 .. Len(tasks) : tasks[i].do # "Learn" /\ tasks[i].on = d
    BY DEF Task
  <2>3. known' = available'
    BY <1>1, <2>1 DEF Calm, OnConnected
  <2>. HIDE DEF tasks
  <2>. QED  BY <1>1, <2>1, <2>2, <2>3, EventKeepsCalm
<1>2. ASSUME NEW l \in Link, LinkAdded(l), Calm
      PROVE  Calm'
  <2>. DEFINE tasks == <<[do |-> "NextHops", on |-> l[1]], [do |-> "NextHops", on |-> l[3]]>>
  <2>1. /\ Notify(tasks) /\ UNCHANGED <<known, available, config, stores, life, timers, session>>
    BY <1>2 DEF LinkAdded
  <2>2. /\ tasks \in Seq(Task)
        /\ \A i \in 1 .. Len(tasks) : tasks[i].do = "NextHops"
    BY AppTyped DEF Task
  <2>3. known' = available'
    BY <1>2, <2>1 DEF Calm, OnConnected
  <2>. HIDE DEF tasks
  <2>. QED  BY <1>2, <2>1, <2>2, <2>3, EventKeepsCalm
<1>3. ASSUME NEW h \in Host, HostAdded(h), Calm
      PROVE  Calm'
  <2>. DEFINE tasks == <<[do |-> "Learn", on |-> h]>>
  <2>1. /\ Notify(tasks) /\ HostAt[h][1] \in available
        /\ UNCHANGED <<known, available, config, stores, life, timers, session>>
    BY <1>3 DEF HostAdded
  <2>2. /\ tasks \in Seq(Task)
        /\ \A i \in 1 .. Len(tasks) : tasks[i].do = "Learn" /\ tasks[i].on = h
    BY DEF Task
  <2>3. known' = available'
    BY <1>3, <2>1 DEF Calm, OnConnected
  <2>. HIDE DEF tasks
  <2>. QED  BY <1>3, <2>1, <2>2, <2>3, EventKeepsCalm
<1>4. ASSUME NEW d \in Dev, DeviceLost(d)
      PROVE  FALSE
  BY <1>0, <1>4 DEF DeviceLost
<1>5. ASSUME NEW l \in Link, LinkRemoved(l)
      PROVE  FALSE
  BY <1>0, <1>5 DEF LinkRemoved
<1>6. ASSUME NEW d \in Dev, Configure(d), Calm
      PROVE  Calm'
  BY <1>6, ConfigurationKeepsCalm DEF Configure
<1>7. ASSUME NEW x \in Interface, ConfigureInterface(x), Calm
      PROVE  Calm'
  BY <1>7, ConfigurationKeepsCalm DEF ConfigureInterface
<1>8. ASSUME Calm, UNCHANGED vars
      PROVE  Calm'
  BY <1>8, ConfigurationKeepsCalm DEF vars
<1>9. ASSUME ~\E d \in Dev : DeviceLost(d), ~\E l \in Link : LinkRemoved(l)
      PROVE  losses = 0
  BY <1>9 DEF Next, Environment, Program, DeviceAvailable, LinkAdded, HostAdded, Configure,
       ConfigureInterface, Command, Activate, Deactivate, CleanUp, RemoveGroups,
       RetryCleanUp, Execute, SetUpDevice, SetUpL2NextHopRules, LearnHost,
       SetUpAllBridging, SetUpAllRouting, Take, TimerFires, Confirm, vars
<1>10. Calm
  BY <1>4, <1>5, <1>9 DEF UndisturbedInv
<1>. QED
  BY <1>1, <1>2, <1>3, <1>4, <1>5, <1>6, <1>7, <1>8, <1>10, CommandKeepsCalm,
     LifeKeepsCalm, ExecuteKeepsCalm, TimerKeepsCalm, ConfirmKeepsCalm
     DEF Next, Environment, Program

LEMMA UndisturbedAlways == Spec => []UndisturbedInv
<1>1. Init => UndisturbedInv
  <2>1. DOMAIN None = {}
    BY DEF None
  <2>2. ASSUME Init
        PROVE  \A e \in Executors : Len(queue[e]) = 0
    BY <2>2 DEF Init
  <2>. QED
    BY <2>1, <2>2 DEF Init, UndisturbedInv, Calm, OnConnected, SecondTry, NothingDying,
         GroupsComplete, BroadcastOnItsWay, CommandsKept
<1>. QED  BY <1>1, NextKeepsUndisturbed, AppInvAlways, PTL DEF Spec

(* As long as no switch and no link is lost, an idle application that was  *)
(* started with netcfg.json complete has given every switch its broadcast  *)
(* rule and a group with all of its ports: a reload leaves nothing of what *)
(* was set up too early (L2BridgingComponent.insertMulticastGroup,         *)
(* MainComponent.waitPreviousCleanup).                                     *)
THEOREM BroadcastIsComplete == Spec => [](losses = 0 => BroadcastComplete)
<1>1. AppInv /\ UndisturbedInv => (losses = 0 => BroadcastComplete)
  <2>. SUFFICES ASSUME AppInv, Calm, complete, Quiet, NEW d \in available
                PROVE  /\ BroadcastSet(d)
                       /\ AllPorts(d) # {} => groups[<<d, BroadcastGid>>] = AllPorts(d)
    BY DEF BroadcastComplete, UndisturbedInv, BroadcastSet, AllPorts
  <2>1. timers["live"] = {} /\ Len(queue["live"]) = 0 /\ phase = "running"
    BY DEF Quiet
  <2>2. \A t : ~Queued(t)
    BY <2>1 DEF Queued
  <2>3. ~Pending("BridgingAll")
    BY <2>1, <2>2 DEF Pending
  <2>4. BroadcastSet(d)
    BY <2>1, <2>2, <2>3 DEF Calm, BroadcastOnItsWay
  <2>5. d \in Dev
    BY DEF AppInv, TypeOK
  <2>. QED  BY <2>1, <2>4, <2>5 DEF Calm, GroupsComplete, BroadcastSet
<1>. QED  BY <1>1, AppInvAlways, UndisturbedAlways, PTL

(* As long as none is lost, nothing the application installs replaces what *)
(* a command has installed, in whatever order tasks, reloads and commands  *)
(* come (INTComponent, RouteInsertCommand, McastPortIsertCommand).         *)
THEOREM CommandsAreKept == Spec => [](losses = 0 => CommandsKept)
<1>1. UndisturbedInv => (losses = 0 => CommandsKept)
  BY DEF UndisturbedInv, Calm
<1>. QED  BY <1>1, UndisturbedAlways, PTL

(* As long as none is lost, activate() does not end before all rules and   *)
(* groups of the activation before are gone, those included that tasks of  *)
(* it have added after its clean-up: the second try waits for them         *)
(* (MainComponent.waitPreviousCleanup).                                    *)
THEOREM EveryStartIsClean == Spec /\ [](losses = 0) => StartsClean
<1>. DEFINE Clean == phase # "running" /\ phase' = "running" =>
                       \A k \in DOMAIN rules \cup DOMAIN groups : k[1] \notin available
<1>1. AppInv /\ UndisturbedInv /\ losses = 0 /\ [Next]_vars => [Clean]_vars
  <2>. SUFFICES ASSUME AppInv, Calm, Next, phase # "running", phase' = "running"
                PROVE  DOMAIN rules = {} /\ DOMAIN groups = {}
    BY DEF UndisturbedInv
  <2>1. CleanUp \/ RetryCleanUp
    BY DEF Next, Environment, Program, DeviceAvailable, DeviceLost, LinkAdded, LinkRemoved,
         HostAdded, Configure, ConfigureInterface, Command, Activate, Deactivate,
         RemoveGroups, Execute, SetUpDevice, SetUpL2NextHopRules, LearnHost,
         SetUpAllBridging, SetUpAllRouting, Take, TimerFires, Confirm, life
  <2>. QED  BY <2>1, StartsEmpty
<1>. QED  BY <1>1, AppInvAlways, UndisturbedAlways, PTL DEF Spec, StartsClean
=============================================================================
