------------------------------- MODULE OnosApp -------------------------------
(***************************************************************************)
(* The ONOS application: the components activated and deactivated together *)
(* (MainComponent, L2BridgingComponent, Ipv4RoutingComponent, the commands *)
(* of INTComponent and the CLI), the single-threaded executor they share,  *)
(* and the ONOS stores they read (devices, links, hosts, configuration)    *)
(* and write (flow rules and groups of this application).                  *)
(*                                                                         *)
(* A listener only queues a task; the task reads the stores when it runs.  *)
(* deactivate() does not shut the executor down, so each activation has an *)
(* executor of its own: "live" belongs to the running application, "old"   *)
(* to the activation before.  A task is one step.  A MAC address is named  *)
(* after the switch or host that has it.                                   *)
(***************************************************************************)
EXTENDS Naturals, Sequences

CONSTANTS
  Dev,           \* switches
  Host,          \* hosts
  Port,          \* ports
  Link,          \* <<device, port, device at the other end>>: the topology
  HostAt,        \* host -> <<device, port>> it is attached to
  Interface,     \* <<device, port>>: the interfaces of netcfg.json
  Key,           \* match keys of the rules; the switches and hosts are keys
  Gid,           \* group identifiers
  BroadcastKey, BroadcastGid,    \* ff:ff:ff:ff:ff:ff and 255
  Script,        \* the commands typed: [dev, kind, key, arg] each
  RetryTimes,    \* DEFAULT_CLEAN_UP_RETRY_TIMES
  Preset,        \* devices whose configuration is there from the start
  MaxLosses,     \* bound: devices and links lost
  MaxStops,      \* bound: deactivations
  MaxQueue       \* bound: tasks waiting when an event arrives

RuleCommands  == {"route_insert", "int_rule"}
GroupCommands == {"mcast_port_add", "mirroring_add"}

Commands == [dev: Dev, kind: RuleCommands, key: Key, arg: Port]
              \cup [dev: Dev, kind: GroupCommands, key: Gid, arg: SUBSET Port \ {{}}]

ASSUME AppTyped ==
  /\ Dev \cup Host \subseteq Key /\ BroadcastKey \in Key \ (Dev \cup Host)
  /\ Dev \cap Host = {}
  /\ BroadcastGid \in Gid /\ Key \cap Gid = {}
  /\ Link \subseteq Dev \X Port \X Dev
  /\ HostAt \in [Host -> Dev \X Port] /\ Interface \subseteq Dev \X Port
  /\ Script \in Seq(Commands)
  /\ RetryTimes \in Nat \ {0, 1} /\ Preset \subseteq Dev
  /\ MaxLosses \in Nat /\ MaxStops \in Nat /\ MaxQueue \in Nat

(* One link at most leads from a device to another.                        *)
ASSUME OneLinkPerNeighbour ==
  \A l, m \in Link : l[1] = m[1] /\ l[3] = m[3] => l = m

(* The commands of config/ fill tables and groups the application leaves   *)
(* alone, and give no entry twice with another argument.                   *)
ASSUME CommandsApart ==
  \A i \in DOMAIN Script :
    /\ Script[i].key \notin Dev \cup Host \cup {BroadcastKey, BroadcastGid}
    /\ \A j \in DOMAIN Script :
         /\ {Script[i].kind, Script[j].kind} \subseteq RuleCommands
         /\ Script[i].dev = Script[j].dev /\ Script[i].key = Script[j].key
         => Script[i].arg = Script[j].arg

VARIABLES
  known,         \* devices ONOS has met
  available,     \* devices with a session and a pipeline
  links,         \* link store
  hosts,         \* host store
  configured,    \* devices with a srv6DeviceConfig
  ifaces,        \* interfaces of the network configuration
  rules,         \* <<device, key>> -> argument: flow rules of this application
  groups,        \* <<device, gid>> -> ports: groups of this application
  dying,         \* keys of both that are removed but not yet confirmed
  phase,         \* where the application is in its life
  retry,         \* tries left in waitPreviousCleanup
  found,         \* groups listed by the clean-up that is under way
  queue,         \* executor -> tasks
  timers,        \* executor -> tasks scheduled with INITIAL_SETUP_DELAY
  line,          \* next command of the script
  done,          \* commands that took effect since the activation
  complete,      \* history: netcfg.json was complete when it last started
  losses, stops  \* counters for the bounds

inventory == <<known, available, links, hosts>>
config    == <<configured, ifaces>>
stores    == <<rules, groups, dying>>
life      == <<phase, retry, found, stops, complete>>
executors == <<queue, timers>>
session   == <<line, done>>
vars == <<inventory, config, stores, life, executors, session, losses>>

Executors == {"live", "old"}
SetUpAll  == {"BridgingAll", "RoutingAll"}
Task == [do: {"SetUp", "NextHops"}, on: Dev] \cup [do: {"Learn"}, on: Host]
          \cup [do: SetUpAll, on: {"all"}]

None == [k \in {} |-> {}]

Init ==
  /\ known = {} /\ available = {} /\ links = {} /\ hosts = {}
  /\ configured = Preset /\ ifaces = {x \in Interface : x[1] \in Preset}
  /\ rules = None /\ groups = None /\ dying = {}
  /\ phase = "stopped" /\ retry = 0 /\ found = {}
  /\ queue = [e \in Executors |-> << >>]
  /\ timers = [e \in Executors |-> {}]
  /\ line = 1 /\ done = {}
  /\ complete = FALSE /\ losses = 0 /\ stops = 0

-----------------------------------------------------------------------------
(* The stores. *)

Merge(f, g) == [x \in DOMAIN f \cup DOMAIN g |->
                  IF x \in DOMAIN g THEN g[x] ELSE f[x]]

(* A rule with the match and priority of another replaces it, also while   *)
(* that one waits for its removal.                                         *)
Apply(new) == /\ rules' = Merge(rules, new)
              /\ dying' = dying \ DOMAIN new

(* A group that exists stays as it is.                                     *)
AddGroups(new) == groups' = Merge(new, groups)

(* The switch answers a removal; it has to be connected. *)
Confirm(k) ==
  /\ k \in dying /\ k[1] \in available
  /\ dying' = dying \ {k}
  /\ rules' = [x \in DOMAIN rules \ {k} |-> rules[x]]
  /\ groups' = [x \in DOMAIN groups \ {k} |-> groups[x]]
  /\ UNCHANGED <<inventory, config, life, executors, session, losses>>

-----------------------------------------------------------------------------
(* What the set-up tasks install. *)

BroadcastPorts(d) == {x[2] : x \in {y \in ifaces : y[1] = d}}

ManagementGroups(D) ==
  [k \in {<<d, BroadcastGid>> : d \in {e \in D : BroadcastPorts(e) # {}}} |->
     BroadcastPorts(k[1])]
ManagementRules(D) == [k \in D \X {BroadcastKey} |-> BroadcastGid]

HostRules(H) == [k \in {<<HostAt[h][1], h>> : h \in H} |-> HostAt[k[2]][2]]

NextHopRules(L) ==
  [k \in {<<l[1], l[3]>> : l \in L} |->
     (CHOOSE l \in L : l[1] = k[1] /\ l[3] = k[2])[2]]

EgressLinks(D) == {l \in links : l[1] \in D}
Resolved(L)    == {l \in L : l[3] \in configured}

(***************************************************************************)
(* The links that get a rule when the devices D are set up, in some order, *)
(* each link by link in some order, until a neighbour has no configured    *)
(* address: getMyStationMac throws and nothing after it is done.           *)
(***************************************************************************)
LinksSetUp(D) ==
  LET unresolved(d) == EgressLinks({d}) \ Resolved(EgressLinks({d}))
      stuck == {d \in D : unresolved(d) # {}}
  IN  IF stuck = {} THEN {EgressLinks(D)}
      ELSE {EgressLinks(x[1]) \cup x[2] :
              x \in UNION {(SUBSET (D \ stuck)) \X (SUBSET Resolved(EgressLinks({d}))) :
                             d \in stuck}}

-----------------------------------------------------------------------------
(* The executor. *)

Take(e, what) ==
  /\ queue[e] # << >> /\ Head(queue[e]).do = what
  /\ queue' = [queue EXCEPT ![e] = Tail(@)]
  /\ UNCHANGED <<inventory, config, life, timers, session, losses>>

SetUpDevice(e) ==
  LET d == Head(queue[e]).on IN
  /\ Take(e, "SetUp")
  /\ AddGroups(ManagementGroups({d}))
  /\ Apply(ManagementRules({d}))

SetUpL2NextHopRules(e) ==
  LET d == Head(queue[e]).on IN
  /\ Take(e, "NextHops")
  /\ \E L \in LinksSetUp({d}) : Apply(NextHopRules(L))
  /\ UNCHANGED groups

LearnHost(e) ==
  LET h == Head(queue[e]).on IN
  /\ Take(e, "Learn")
  /\ Apply(HostRules({h}))
  /\ UNCHANGED groups

(* Seeded fault: the hosts known already are not learnt. *)
SetUpAllBridgingOnly(e) ==
  /\ Take(e, "BridgingAll")
  /\ AddGroups(ManagementGroups(available))
  /\ Apply(ManagementRules(available))

(* setUpAllDevices of L2BridgingComponent and of Ipv4RoutingComponent. *)
SetUpAllBridging(e) ==
  /\ Take(e, "BridgingAll")
  /\ AddGroups(ManagementGroups(available))
  /\ Apply(Merge(ManagementRules(available),
                 HostRules({h \in hosts : HostAt[h][1] \in available})))

SetUpAllRouting(e) ==
  /\ Take(e, "RoutingAll")
  /\ \E L \in LinksSetUp(available) : Apply(NextHopRules(L))
  /\ UNCHANGED groups

Execute(e) == \/ SetUpDevice(e) \/ SetUpL2NextHopRules(e) \/ LearnHost(e)
              \/ SetUpAllBridging(e) \/ SetUpAllRouting(e)

(* scheduleTask: the delay is over. *)
TimerFires(e, t) ==
  /\ t \in timers[e]
  /\ timers' = [timers EXCEPT ![e] = @ \ {t}]
  /\ queue' = [queue EXCEPT ![e] = Append(@, [do |-> t, on |-> "all"])]
  /\ UNCHANGED <<inventory, config, stores, life, session, losses>>

-----------------------------------------------------------------------------
(* Activation and deactivation. *)

(* Seeded fault: Ipv4RoutingComponent schedules no set-up. *)
StartedBridging ==
  /\ phase' = "running"
  /\ complete' = (configured = Dev /\ ifaces = Interface)
  /\ timers' = [timers EXCEPT !["live"] = {"BridgingAll"}]

(* The listeners are there and the set-up of what is known is scheduled. *)
Started ==
  /\ phase' = "running"
  /\ complete' = (configured = Dev /\ ifaces = Interface)
  /\ timers' = [timers EXCEPT !["live"] = SetUpAll]

Activate ==
  /\ phase = "stopped"
  /\ phase' = "scan" /\ retry' = RetryTimes
  /\ UNCHANGED <<inventory, config, stores, found, stops, complete, executors,
                 session, losses>>

ListedGroups == {k \in DOMAIN groups : k[1] \in available}
(* Seeded fault: either store being empty is taken for both. *)
OneLeft      == rules = None \/ ListedGroups = {}
NothingLeft  == rules = None /\ ListedGroups = {}

(* cleanUp up to its sleep, in activate() and in deactivate(). *)
CleanUp ==
  /\ phase \in {"scan", "stopping"}
  /\ dying' = dying \cup DOMAIN rules
  /\ found' = ListedGroups
  /\ \/ phase = "scan" /\ NothingLeft /\ Started
     \/ phase = "scan" /\ ~NothingLeft
        /\ phase' = "groups" /\ UNCHANGED <<timers, complete>>
     \/ phase = "stopping"
        /\ phase' = "stopGroups" /\ UNCHANGED <<timers, complete>>
  /\ UNCHANGED <<inventory, config, rules, groups, retry, stops, queue,
                 session, losses>>

(* Seeded fault: activate() does not wait for the removals. *)
RemoveGroupsAndStart ==
  /\ phase \in {"groups", "stopGroups"}
  /\ dying' = dying \cup (found \cap DOMAIN groups)
  /\ found' = {}
  /\ \/ phase = "groups" /\ Started
     \/ phase = "stopGroups" /\ phase' = "stopped" /\ UNCHANGED <<timers, complete>>
  /\ UNCHANGED <<inventory, config, rules, groups, retry, stops, queue,
                 session, losses>>

RemoveGroups ==
  /\ phase \in {"groups", "stopGroups"}
  /\ dying' = dying \cup (found \cap DOMAIN groups)
  /\ found' = {}
  /\ phase' = IF phase = "groups" THEN "wait" ELSE "stopped"
  /\ UNCHANGED <<inventory, config, rules, groups, retry, stops, complete,
                 executors, session, losses>>

(* Every executor of an activation before has run dry. *)
OldDone == queue["old"] = << >> /\ timers["old"] = {}

(* Seeded fault: the tries are counted and never run out. *)
RetryForever ==
  /\ phase = "wait"
  /\ \A k \in dying : k[1] \notin available
  /\ OldDone
  /\ retry' = IF retry = 0 THEN 0 ELSE retry - 1
  /\ phase' = "scan"
  /\ UNCHANGED <<inventory, config, stores, found, stops, complete, timers,
                 queue, session, losses>>

(* Seeded fault: the tries are tested for zero before they are counted. *)
RetryBelowZero ==
  /\ phase = "wait"
  /\ \A k \in dying : k[1] \notin available
  /\ OldDone
  /\ retry' = retry - 1
  /\ IF retry = 0 THEN Started ELSE phase' = "scan" /\ UNCHANGED <<timers, complete>>
  /\ UNCHANGED <<inventory, config, stores, found, stops, queue, session,
                 losses>>

(***************************************************************************)
(* CLEAN_UP_DELAY is over.  Two seconds are taken to be enough for the     *)
(* connected switches to confirm what they were asked, and for the tasks   *)
(* an earlier activation scheduled INITIAL_SETUP_DELAY ahead.              *)
(***************************************************************************)
RetryCleanUp ==
  /\ phase = "wait"
  /\ \A k \in dying : k[1] \notin available
  /\ OldDone
  /\ retry' = retry - 1
  /\ IF retry' = 0 THEN Started ELSE phase' = "scan" /\ UNCHANGED <<timers, complete>>
  /\ UNCHANGED <<inventory, config, stores, found, stops, queue, session,
                 losses>>

(* The listeners are removed; the executor keeps its tasks.  The operator  *)
(* has to type the commands again.                                         *)
Deactivate ==
  /\ phase = "running" /\ stops < MaxStops /\ OldDone
  /\ phase' = "stopping" /\ stops' = stops + 1
  /\ queue' = [live |-> << >>, old |-> queue["live"]]
  /\ timers' = [live |-> {}, old |-> timers["live"]]
  /\ line' = 1 /\ done' = {}
  /\ UNCHANGED <<inventory, config, stores, retry, found, complete, losses>>

-----------------------------------------------------------------------------
(* Events: what ONOS learns, and the tasks the listeners queue for it. *)

Notify(tasks) ==
  /\ Len(queue["live"]) <= MaxQueue
  /\ queue' = IF phase = "running"
              THEN [queue EXCEPT !["live"] = @ \o tasks] ELSE queue

(* Seeded fault: only the set-up on activation handles devices. *)
DeviceUnheard(d) ==
  /\ d \notin available
  /\ available' = available \cup {d} /\ known' = known \cup {d}
  /\ UNCHANGED <<links, hosts, config, stores, life, executors, session,
                 losses>>

DeviceAvailable(d) ==
  /\ d \notin available
  /\ available' = available \cup {d} /\ known' = known \cup {d}
  /\ Notify(<<[do |-> "SetUp", on |-> d]>>)
  /\ UNCHANGED <<links, hosts, config, stores, life, timers, session, losses>>

(* ONOS drops the links and the hosts of a device it has lost; none of the *)
(* listeners of the application acts on any of the three events.           *)
DeviceLost(d) ==
  /\ d \in available /\ losses < MaxLosses
  /\ available' = available \ {d} /\ losses' = losses + 1
  /\ links' = {l \in links : d \notin {l[1], l[3]}}
  /\ hosts' = {h \in hosts : HostAt[h][1] # d}
  /\ UNCHANGED <<known, config, stores, life, executors, session>>

(* Seeded fault: the rules of the far end only are set up. *)
LinkAddedFarEnd(l) ==
  /\ l \in Link \ links /\ {l[1], l[3]} \subseteq available
  /\ links' = links \cup {l}
  /\ Notify(<<[do |-> "NextHops", on |-> l[3]]>>)
  /\ UNCHANGED <<known, available, hosts, config, stores, life, timers,
                 session, losses>>

LinkAdded(l) ==
  /\ l \in Link \ links /\ {l[1], l[3]} \subseteq available
  /\ links' = links \cup {l}
  /\ Notify(<<[do |-> "NextHops", on |-> l[1]], [do |-> "NextHops", on |-> l[3]]>>)
  /\ UNCHANGED <<known, available, hosts, config, stores, life, timers,
                 session, losses>>

LinkRemoved(l) ==
  /\ l \in links /\ losses < MaxLosses
  /\ links' = links \ {l} /\ losses' = losses + 1
  /\ UNCHANGED <<known, available, hosts, config, stores, life, executors,
                 session>>

HostAdded(h) ==
  /\ h \in Host \ hosts /\ HostAt[h][1] \in available
  /\ hosts' = hosts \cup {h}
  /\ Notify(<<[do |-> "Learn", on |-> h]>>)
  /\ UNCHANGED <<known, available, links, config, stores, life, timers,
                 session, losses>>

(* The entries of netcfg.json take effect one by one; nothing listens. *)
Configure(d) ==
  /\ d \in Dev \ configured
  /\ configured' = configured \cup {d}
  /\ UNCHANGED <<inventory, ifaces, stores, life, executors, session, losses>>

ConfigureInterface(x) ==
  /\ x \in Interface \ ifaces
  /\ ifaces' = ifaces \cup {x}
  /\ UNCHANGED <<inventory, configured, stores, life, executors, session,
                 losses>>

(* What a command does on a device ONOS has met. *)
RouteInsert(c) ==
  /\ c.kind = "route_insert"
  /\ Apply([k \in {<<c.dev, c.key>>} |-> c.arg])
  /\ UNCHANGED groups

IntRule(c) ==
  /\ c.kind = "int_rule"
  /\ Apply([k \in {<<c.dev, c.key>>} |-> c.arg])
  /\ UNCHANGED groups

McastPortAdd(c) ==
  /\ c.kind = "mcast_port_add"
  /\ AddGroups([k \in {<<c.dev, c.key>>} |-> c.arg])
  /\ UNCHANGED <<rules, dying>>

(* A clone group has the key a multicast group of its number would have.   *)
MirroringAdd(c) ==
  /\ c.kind = "mirroring_add"
  /\ AddGroups([k \in {<<c.dev, c.key>>} |-> c.arg])
  /\ UNCHANGED <<rules, dying>>

DeviceFound(c) == c.dev \in known

(* The next command of the operator, in the thread of the shell.  It is    *)
(* passed over when ONOS has not met the device.                           *)
Command ==
  LET c == Script[line] IN
  /\ phase = "running" /\ line \in DOMAIN Script
  /\ line' = line + 1
  /\ IF DeviceFound(c)
     THEN /\ RouteInsert(c) \/ IntRule(c) \/ McastPortAdd(c) \/ MirroringAdd(c)
          /\ done' = done \cup {line}
     ELSE UNCHANGED <<stores, done>>
  /\ UNCHANGED <<inventory, config, life, executors, losses>>

-----------------------------------------------------------------------------
Environment ==
  \/ \E d \in Dev : DeviceAvailable(d) \/ DeviceLost(d) \/ Configure(d)
  \/ \E l \in Link : LinkAdded(l) \/ LinkRemoved(l)
  \/ \E h \in Host : HostAdded(h)
  \/ \E x \in Interface : ConfigureInterface(x)
  \/ Command
  \/ Activate
  \/ Deactivate

Program ==
  \/ CleanUp
  \/ RemoveGroups
  \/ RetryCleanUp
  \/ \E e \in Executors : Execute(e) \/ \E t \in SetUpAll : TimerFires(e, t)

Next == \/ Environment
        \/ Program
        \/ \E k \in dying : Confirm(k)

Spec == Init /\ [][Next]_vars

-----------------------------------------------------------------------------
(* Properties *)

Keys == Dev \X (Key \cup Gid)

(* Type invariant. *)
TypeOK ==
  /\ available \subseteq known /\ known \subseteq Dev
  /\ links \subseteq Link /\ hosts \subseteq Host
  /\ configured \subseteq Dev /\ ifaces \subseteq Interface
  /\ DOMAIN rules \subseteq Dev \X Key
  /\ \A k \in DOMAIN rules : rules[k] \in Port \cup Gid
  /\ DOMAIN groups \subseteq Dev \X Gid
  /\ \A k \in DOMAIN groups : groups[k] \subseteq Port
  /\ dying \subseteq DOMAIN rules \cup DOMAIN groups
  /\ found \subseteq Dev \X Gid
  /\ phase \in {"stopped", "scan", "groups", "wait", "running", "stopping",
                "stopGroups"}
  /\ retry \in 0 .. RetryTimes
  /\ queue \in [Executors -> Seq(Task)]
  /\ timers \in [Executors -> SUBSET SetUpAll]
  /\ line \in 1 .. Len(Script) + 1 /\ done \subseteq 1 .. Len(Script)
  /\ complete \in BOOLEAN

(* The application runs and no task of it is left. *)
Quiet == /\ phase = "running" /\ OldDone
         /\ queue["live"] = << >> /\ timers["live"] = {}

Installed(d, key, arg) == /\ <<d, key>> \in DOMAIN rules \ dying
                          /\ rules[<<d, key>>] = arg

LinkServed(l) == Installed(l[1], l[3], l[2])

(***************************************************************************)
(* Once the executor is idle, every link to a configured switch has its    *)
(* next-hop rule (Ipv4RoutingComponent.java:316-318: "all device are       *)
(* always configured with a topology view that includes all links"), if    *)
(* the application was started, or reloaded, after the configuration:      *)
(* whatever the order of discovery, losses and reloads, and whatever was   *)
(* set up before.                                                          *)
(***************************************************************************)
LinksServedOnceConfigured ==
  complete /\ Quiet => \A l \in Resolved(links) : LinkServed(l)

(* Likewise every host ONOS knows has its rule on the switch it is at      *)
(* (L2BridgingComponent: a host-added event or the set-up on activation).  *)
HostsLearned ==
  Quiet => \A h \in hosts : Installed(HostAt[h][1], h, HostAt[h][2])

(***************************************************************************)
(* And the broadcast rule of every switch leads to a group with ALL the    *)
(* ports netcfg.json gives the switch (L2BridgingComponent.java:228,       *)
(* README.md:409): a reload repairs what was set up too early.             *)
(***************************************************************************)
BroadcastComplete ==
  complete /\ Quiet =>
    \A d \in available :
      LET ports == {x[2] : x \in {y \in Interface : y[1] = d}} IN
      /\ Installed(d, BroadcastKey, BroadcastGid)
      /\ ports # {} => /\ <<d, BroadcastGid>> \in DOMAIN groups
                       /\ groups[<<d, BroadcastGid>>] = ports

(* The rule of a command stays as it was typed until the application is    *)
(* deactivated, whatever the application installs meanwhile, and there is  *)
(* a group wherever a command asked for one.                               *)
CommandsKept ==
  phase = "running" =>
    \A i \in done :
      LET c == Script[i] IN
      IF c.kind \in RuleCommands THEN Installed(c.dev, c.key, c.arg)
      ELSE <<c.dev, c.key>> \in DOMAIN groups

(***************************************************************************)
(* When activate() ends, no switch that is connected has a rule or a group *)
(* of the execution before (MainComponent.java:90).                        *)
(***************************************************************************)
StartsClean ==
  [][phase # "running" /\ phase' = "running" =>
       \A k \in DOMAIN rules \cup DOMAIN groups : k[1] \notin available]_vars

(* When the application has stopped and nothing of it runs any more, its   *)
(* clean-up has left no rule and no group (MainComponent.java:144-147).    *)
StopsClean ==
  phase = "stopped" /\ OldDone =>
    \A k \in DOMAIN rules \cup DOMAIN groups : k \in dying

(***************************************************************************)
(* The executor works its queue off, timers fire, activate() and           *)
(* deactivate() run on, and connected switches confirm removals.           *)
(***************************************************************************)
FairSpec ==
  /\ Spec
  /\ WF_vars(CleanUp) /\ WF_vars(RemoveGroups) /\ WF_vars(RetryCleanUp)
  /\ \A e \in Executors :
       WF_vars(Execute(e)) /\ \A t \in SetUpAll : WF_vars(TimerFires(e, t))
  /\ \A k \in Keys : WF_vars(Confirm(k))

(* Activation comes to an end, also with a switch that never answers.      *)
ActivationEnds == phase = "scan" ~> phase = "running"

(* A link that is discovered while the application runs gets its rule,     *)
(* unless the link or the application goes first.                          *)
LinksGetServed ==
  \A l \in Link :
    l \in links /\ phase = "running" /\ complete
      ~> LinkServed(l) \/ l \notin links \/ phase # "running"
=============================================================================
