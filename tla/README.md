# Verification of P4-SFC-SDN

P4-SFC-SDN is a software-defined network of BMv2 switches that steers packets
through service functions. The switches run one P4 program (`p4src/`), an ONOS
application (`app/`) and command files (`config/`) fill its tables, in-band
telemetry (INT) follows monitored packets, and Python tools (`mininet/`, `INT/`)
generate traffic, collect telemetry and process results.

This directory holds TLA+ models of that system, the TLC runs that check them
on the deployed network, and TLAPS proofs about networks of any shape.

## 1. Inventory

| part | state | operations | interacts with |
|---|---|---|---|
| P4 program (`p4src/include`) | tables, register `seq_number`, multicast groups, clone sessions | one pass of parser, ingress, replication, egress, deparser per packet | links, controller (packet-in/out), collector (clone session 100) |
| links and hosts (`mininet/topo.py`, `config/topology.json`) | frames under way | send, lose, deliver | switches |
| table entries (`config/*`) | command files | pushed through the ONOS CLI, one asynchronous flow rule each | ONOS application |
| ONOS `MainComponent` | single-thread executor, flows and groups of the previous run | activate, clean up with retries, deactivate | flow rule and group services |
| ONOS `L2BridgingComponent`, `Ipv4RoutingComponent` | none of their own: rules derived from devices, hosts and links | handlers of device, host and link events, set-up of all devices, CLI entry points | executor, flow rule and group services |
| ONOS `INTComponent` and CLI | none | source, sink, report, transit and mirroring rules | flow rule and group services |
| ONOS pipeconf (`InterpreterImpl`, `PipelinerImpl`) | none | packet-in/out mapping; objectives to ACL rules and the clone group | ONOS core |
| collector (`INT/receive`) | a sniffing thread per report interface, the stop flag, points in InfluxDB | take a report, decode its hops, write points, stop at Ctrl-C, end with an unanswered write | reports, visualizer, result processing |
| load test (`interface.py`) | iteration, sleeps | remove the old file, start receivers, after a gap the senders, sleep | traffic tools, by starting them |
| traffic tools (`send.py`, `receive.py`) | packets sent, packet queue and its thread, metrics of each flow, shared CSV file and its lock | send until count or time-out, sniff and count, export under the lock | hosts, result processing |
| result processing (`INT/process_results`) | nested dictionaries of results, workbook | read and merge the rows of each file, loss and delay, averages, comparison, plots | CSV files, InfluxDB |
| visualizer (`INT/visualizer`) | colour, age and flow indices of each edge | poll, update, expire | InfluxDB |

What is hard here: entries are installed while packets are in flight and no two
switches are updated together; a packet crosses the same switch several times,
with SFC and INT headers put on and taken off on the way; multicast makes
copies that are in different switches at once; the telemetry report is made from
a clone that has seen none of the ingress changes; `drop()` in P4 is only an
assignment that a later table can undo; hosts, switches and links appear to the
controller in any order; senders and receivers share one result file, and nothing
but sleeps keeps the iterations of a test apart; the collector's threads, the
visualizer and result processing share a database that keeps the last point
per series and time; result processing finds lines and cells by their text.

What makes each part correct:

* data plane: every function of a packet's chain is visited, in order and once;
  hosts never notice SFC or INT; the packet reaches the hosts it is for, once;
  a firewall lets through only what it lists; the TTL counts hops; nothing loops;
* telemetry: one report per sink switch, its path the true path, reports numbered
  without gaps;
* controller: a packet-in names the true port, so only real links are discovered;
  the rules installed are those of the current topology; clean-up leaves nothing;
* collector and visualizer: the points say what the switches stamped, the links
  are links of the topology; an edge is shown if and only if it was used of late,
  by the constants of the code;
* tools: the result file has one header and whole rows; a packet finds its own
  receiver sniffing and no other; rows say what arrived;
* result processing: merged results do not depend on the order of rows; loss and
  delay are those of the flow they stand beside; the averages of late and lost packets
  and of jitter are those of the rows in the files.

`PROJECT.json` lists the hazards one by one at the line where they bite. Smaller
ones that no property can be about, as the code makes no claim: DSCP 23 from
a host, the 22-bit report number and the shim length that wrap after more packets and hops than the
deployment can have, reports of TCP flows labelled as another protocol, formulas without
their closing parenthesis.

Some titles and sentences say one thing and the code does another, which the models follow. Those
that a run shows are the findings of section 3. Others, found while modelling, have no run:

* Column N of a sheet, "Packet Loss (%)" (`configure.py:231`), divides by what arrived: the line
  called `pkts_sent` (line 257) is the receivers'. Of 6 packets sent and 3 received it says 100 %.
* "AVG 1º Packet Delay" (`configure.py:341`) averages column I (line 369), arrival times, where the
  delays are in column O.
* Result processing takes a flow for an emergency one from DSCP 40 on (`configure.py:526-531`);
  `README.md:570` says above 40.
* The percentile cuts packet sizes too (`configure.py:18`, `33`), for which `README.md:566` names
  latencies only: from eleven points on, the bytes per switch lack the largest packets of the test.
* The visualizer looks for an edge among the flows before it draws numbers (`visualizer.py:138`), so it
  draws none; `README.md:274` has numbered arrows.

## 2. Modules

| module | what it is |
|---|---|
| `P4Switch` | the P4 program of one switch as operators on a parsed packet, over the table entries the switch holds |
| `SfcNetwork` | EXTENDS `P4Switch`: frames, hosts, links, losses, entry installation, packet-out and packet-in; the properties |
| `SfcService` | abstract specification: what chaining promises a packet |
| `Deployment` | the tables and topology of the repository |
| `MCSfcNetwork` | EXTENDS `DeploymentRules`: values for the constants, packets offered and entries pushed in each run |
| `DeploymentRules` | EXTENDS `SfcNetwork`: what the deployed tables and links have in common, as assumptions |
| `SfcNetworkProofs` | lemmas about the operators of `P4Switch`; types, SFC header, TTL, firewalls and inferred links |
| `IntProofs`, `DeliveryProofs` | under `DeploymentRules`: telemetry; overlay, service, receivers, refinement, reports |
| `OnosApp` | the components of the ONOS application, their executor and commands, over the ONOS stores |
| `AclPipeliner` | forwarding objectives to ACL rules and the shared clone group, beside the clean-up of the application |
| `MCOnosApp`, `MCAclPipeliner` | values for their constants |
| `OnosAppProofs`, `AclPipelinerProofs` | theorems about the application and the pipeliner |
| `LoadTest` | the load test, senders, receivers with their threads, the shared file and its lock, in seconds |
| `Results`, `Fractions` | result processing step by step, and its numbers |
| `Measurement`, `MCMeasurement` | EXTENDS `LoadTest`, INSTANCE `Results`: tests, and the processing of the files they leave |
| `MeasurementProofs` | theorems about the file, the timing of the test, the rows of receivers and the pairing of lines |
| `Collector` | reports on the wire, the threads of the collector, the points they write |
| `Visualizer` | the loop of the path visualizer |
| `IntQueries` | the queries of result processing to the database |
| `Telemetry`, `MCTelemetry` | EXTENDS `Collector`, INSTANCE `Visualizer` and `IntQueries`: the three programs around one database |
| `CollectorProofs` | lemmas: the round trip of a report through the bytes of a packet, and the points made of it |
| `TelemetryProofs` | theorems about the end of the collector, the points it leaves and the picture of the visualizer |

The parts are composed where they share state: `SfcNetwork` (switches, links, hosts, telemetry
registers), `Measurement` (tools, file, result processing) and `Telemetry` (collector,
database, visualizer, queries). Between these, one hands the other finished data: what the
controller leaves on the switches enters `SfcNetwork` as `Config` and the order in which it
gets there as `pending`; `MCTelemetry` has the paths that `SfcNetwork` gives two flows.

**P4Switch.** A packet is a record of the header fields that control reads or
properties talk about. `chain` is the part of the SFC stack still on the packet,
`stack` the INT metadata reduced to the switch id of each hop, newest first.
`Config[s][table]` is a function from match keys to action data; `Hit` is a
table lookup, which also needs the entry not to be in `pending`. `Ingress` follows
the `apply` block of `Ingress.p4` in its order: `Encapsulated`, `Served` and
`Decapsulated` are the SFC block, `SfcForward` and `L3Forward` the two ways to
forward, `IntSource` the telemetry source. A table that writes `egress_spec` does so
whatever was there before: this is why `L3Forward` ignores an earlier drop. The
traffic manager (`CopyPorts`) is BMv2's and is marked external. `Egress` is the
transit and sink block; `Copies` gives every copy of a packet that leaves.

**SfcNetwork.** A frame is a packet about to be processed by a switch. Processing
is one action per way ingress can end (`PuntToCpu`, `DropAtIngress`, `Forward`);
it is atomic because a BMv2 packet shares nothing with others but the register
`seq_number`, which `register.read`/`write` use inside one egress pass. `Install` makes one
pending entry effective: `applyFlowRules` and `addGroup` return before the switch
has the entry, so any order is possible. Histories (`h`) record what happened
to a packet; no action reads them.

**SfcService.** A packet carried by the network owes a list of functions; a step
may take the first off, copy or lose the packet, and it may arrive only when none is
owed, only where it is meant to. `SfcNetwork` implements it with the mapping
`OwedTo`: a fresh frame owes the policy of its DSCP, one with an SFC header the
first `sc` entries of its stack, any other nothing.

**OnosApp.** Environment actions are what ONOS learns (devices, links and hosts come
and go, entries of `netcfg.json` take effect one by one), what the operator types
(`Command`) and the activation and deactivation of the application. A listener
only queues a task (`Notify`); the task reads the stores when the executor runs it
and is one step. Its parts:

* *Two executors.* `deactivate()` does not shut the executor down, so the tasks and timers
  of the activation before stay (`"old"`) beside those of the running one (`"live"`).
* *Stores.* `rules` and `groups` hold what this application installed; a removal
  is a mark (`dying`) until the connected switch confirms it (`Confirm`). A rule with the
  same match replaces another, also one being removed; `addGroup` with a key
  that exists, also one being removed, does nothing. These are ONOS's and marked external.
* *Set-up.* `LinksSetUp` gives the links that get a next-hop rule: device by device and link
  by link in any order, up to the first neighbour without configuration,
  where `getMyStationMac` throws and the task ends.
* *Clean-up.* `CleanUp` and `RemoveGroups` are the two halves around the sleep,
  `RetryCleanUp` the tries of `waitPreviousCleanup`. Its delay of two seconds is taken to
  be enough for connected switches to confirm and for old tasks to finish.
* *Lost devices.* ONOS drops the links and hosts of a device it loses; none of the
  listeners acts on it. The controller is the master of every device.

**AclPipeliner.** One action per branch of `forward`. Rules and groups carry
the application they belong to: `CleanUp` removes what belongs to this one.

**LoadTest.** One action per step of a process that others can see: starts, a packet sent
or failed, a packet put on the queues of all who sniff, one taken off by the
thread, the end of sniffing, the join, and the export as two steps (`Open` looks for the file and
creates it, `Close` writes header and rows, which are buffered until then, and gives up the lock).
Time is explicit: `Tick` goes to the next deadline and passes none, so a process starts
within `StartUp`, a packet arrives or is lost within `Transit`, and an export,
waiting for the lock included, takes at most `ExportTime`. `update_times` is
`ReceiverTimeout` and `IterationSleep`, with Python's integers.

**Results.** One action per step of `main`, over a pair of files. A workbook sheet is its
sequence of lines: name (column A), DSCP (column E), numbers; the code finds
everything by these, and so does the model. Numbers are fractions (`Fractions`), the
percentile is numpy's with interpolation; the variance stands for its root. `Fail` has
the exceptions that end the program: a flow without receiver, a DSCP without a value, and a query that the
database leaves without answer, point or number (`unanswered`), while rows are read, in the calculations
or for the plots. Which contents of the database answer is `CanProcess` of `IntQueries`; here it
may fail at any of these stages.

**Collector.** A report carries the metadata byte for byte: `HopBytes` is the deparser's
order, `ReadHop` the reads of `parse_int_metadata` for the bits of the instruction mask. A
thread takes a report and the timestamp of its points (`TakeReport`), then writes
(`WritePoints`) or runs into an outage (`WriteFails`). `Written` is InfluxDB's rule
for points of one series and time, and is external.

**Visualizer, IntQueries.** `Poll` is one turn of the loop: `update_graph` over the flows in
any order (a Python set), then the expiry. The dictionaries of colours, times and identifiers are
functions, extended by `Put`; the indices of a flow are the set of edges they number, as nothing
shows the numbers. `IntQueries` has InfluxDB's nearest-rank `PERCENTILE`
(external) and each query's own cut: over all DSCPs even when one is asked for, by size
for bytes and by latency for packets.

**Seeded faults.** Operators commented "Seeded fault" are variants of the
definition that follows them, used by the mutants of `PROJECT.json` to show that each
property can fail. No specification uses them.

## 3. Runs

The runs of `SfcNetwork` use the five switches, four hosts, links and tables of the
repository, those of the application two switches.

| run | question | instance |
|---|---|---|
| `deployed` | do SFC, routing, multicast, telemetry and the headers agree, for every kind of packet? do packets that share switches disturb each other? does the network refine the service? | 1 packet out of 612 kinds (host pairs x 17 DSCPs x 3 transports), or up to 3 packets of 4 flows together; lossy |
| `delivery` | does the network drain and deliver? | 2 packets, loss-free, fair |
| `sfc_rollout` | while entries arrive: do header and history agree? does anything get past a firewall that does not list it? can discovery infer a link that is not there? | 10 entries in any order; 1 packet of two chains or for the unlisted h3, or a probe from a port of s1 or s3; lossy |
| `broadcast_loop` | (finding) does the loop guard work? | one broadcast from h1 |
| `app_events` | do discovery, losses and a reload in any order end with a rule for every link? does activation end? | 2 switches, a link, 1 loss, 1 reload, fair |
| `app_reload` | is what a reload finds cleaned up, and what comes after it complete and kept? | 2 switches, a host, 4 commands of all kinds, configuration arriving, 1 reload |
| `app_stop` | (finding) does a stopped application leave nothing behind? | 2 switches, a link, 1 stop |
| `acl_discovery` | can a reload take link or host discovery away? | 2 switches, 4 objectives of 2 applications, 2 withdrawals |
| `measurement` | is the file of a test well formed and true, are iterations kept apart, does the test end? do the sheets tell what the files say, in whatever order their rows came? | a test of 2 iterations, an emergency flow to a host, 2 receivers, 2 packets lost, failed or reordered; or an earlier file of 2 iterations and 2 flows, all orders of 5 rows and each row missing |
| `sender_rows` | (finding) is what a sender reports what it sent? | as above, 1 iteration |
| `telemetry` | do the points, the queries and the picture tell what the switches stamped? | 2 packets of 2 flows (a path that visits s1 twice; two copies of a multicast), 3 sinks, 1 outage, Ctrl-C; 10 earlier reports for the queries |
| `finished_flow` | (finding) is the path of a flow that has ended no longer drawn? | as above |

*Bounds, network.* Packets interact only through `seq_number` and through what is installed, so one
packet at a time explores every path of every kind; three packets of flows that
share sources, sinks and the multicaster cover the register. `MaxSent` bounds the
packets, `Mixed` has those that may share the network with others (the four flows), `MaxTrace` = 8 the switches one packet may pass: it is reached only by the
storm of `broadcast_loop` (a chain of three functions and the way to the
destination take at most five). TTL starts at 64 and cannot run out in eight hops.

*Bounds, application.* `MaxLosses` and `MaxStops` allow one loss of a device or a link and one
reload, which is what it takes for tasks of two activations to meet;
`RetryTimes` = 2 (10 in the code) reaches both ends of the wait; `MaxQueue` = 0 holds events back
until the live queue is empty, so up to two tasks and two timers are waiting at once. Two
switches suffice for links and groups.

*Bounds, measurement.* Times are those of the repository (300 s, gaps of 5 s), at the limit
of what the theorem below allows (`StartUp` 4 of less than 5, `StartUp` + `Transit` 14 of less
than 15, `StartUp` + `ExportTime` 24 of less than 26).
`MaxPackets` counts the packets beyond the first of each sender; two
iterations are the least in which one can run into the next; three receivers of a flow and two flows are
the least in which averaging and pairing can go wrong. `MaxTests` = 1, and processing
comes last: it only reads what a test has left.

*Bounds, telemetry.* Time is in quarters of a second and ends at `Horizon` = 12 (3 s: the query's
second and the two seconds of expiry); reports come in the first half second;
drawing takes half a second (`PollTimes`), a write a quarter. Two packets put several reports on
one interface and paths with shared edges on the screen. The percentiles cut nothing below eleven points, so
the queries also see `Before`: ten reports of the same test, too old for the picture and not
part of the state, one of them larger than all others. With one more report the size
percentile drops it, and its bytes.

Where the claims stop: with a loss during the reload `StartsClean` and
`BroadcastComplete` fail, because the clean-up gives up after its tries and sees only
available devices; a broadcast group made before all interfaces were
configured keeps the ports it got until the next reload (`complete` in the property); one
neighbour without configuration makes `getMyStationMac` throw and the set-up of the
others end, so that `LinksServedOnceConfigured` is about what follows the
configuration; a packet classified before all `sfc_egress` entries are there is
routed by IPv4 with its SFC header on, so that `HostSeesOriginal` is not claimed of the
roll-out; a file that lacks a sender's row shifts the pairing of the lines that follow, so that
`LossOfItsFlow` is about files that lack none, and says nothing of column N; of the averages,
`AveragesTellFiles` leaves out the loss in percent and the 1st packet delay, whose columns are not what their
titles say (section 1); `QueriesTellReports` lets the bytes lack what the size percentile drops;
`FailsOnlyWithoutData` is about processing whose queries are answered;
`DiscoverySurvives` leaves out switches from which an objective was withdrawn; `ShownIsRecentTraffic` and
`EveryPathShown` hold the picture to the constants of the code (a query of one second, an expiry of
two), not to the tenth of a second of `README.md:268`; what is shown for longer than a turn of the
visualizer's loop plus a write below one second is not claimed at all; when the database does not
answer, the interface is no longer listened to, and the reports that follow are lost.

*Deadlock* checking is off where the system really stops: everything sent is delivered, the menu has
no test left, or time is up.

*Fairness.* `FairSpec` of `SfcNetwork` says that some frame is eventually processed as long as there are
any: BMv2's ingress and egress threads take packets off their queues as long as
there are packets. Nothing is assumed about which frame is next; liveness
follows because each packet makes finitely many hops. Delivery is claimed on
links that lose nothing. In `OnosApp`, `FairSpec` lets each executor work its queue off, each
timer fire, `activate()` and `deactivate()` run on and each connected switch
confirm removals: threads of the ONOS process and switches that answer. The
environment (devices, links, operator) has no fairness. In `Measurement` some step of the test is
eventually taken while there is one: the operating system runs its processes and time goes on;
which process gets the lock is left open.

*Findings.* `finished_flow`: the query goes back one second (`visualizer.py:208`) and an edge is kept
for two more (line 219), so a flow of one packet is still drawn at a look half a second
later and for up to three seconds, although `README.md:268` says that a flow without an entry
in 0.1 seconds is finished and its path no longer drawn. `broadcast_loop`: `became_multicast` is set by the only action that sets
`is_multicast`, so the guard at `Egress.p4:38` is dead and a broadcast that the ACL
does not divert goes back and forth, although `README.md:409` says the P4 code
prevents loops. `app_stop`: a set-up task scheduled before
`deactivate()` runs after its clean-up and leaves rules of a stopped application.
`sender_rows`: `num_packets_successefuly_sent` (`send.py:138`) is the number asked for less the
failed ones, also when the time-out came first; result processing then counts
packets as lost that were never sent.

## 4. Proofs

Checked by TLAPS for all values of the constants: every topology, every set of hosts, packets,
devices or commands, and all tables that satisfy the assumptions named. Every property was
checked by TLC on the runs before it was proved.

### The switch and the network, whatever the tables

`SfcNetworkProofs` has one lemma per operator of `P4Switch` for its type, and `CopyKeepsChain`:
nothing after the SFC block of ingress touches the SFC header. It proves, with
`pending` arbitrary, that is while entries are being installed in any order:

* `TypeCorrect`: `Spec => []TypeOK`, one lemma per action.
* `ChainsConsistent`: `Spec => []ChainConsistent`. Inductive together with `TypeOK`: the
  conjunct that frames on source ports are untouched is the strengthening; it
  excludes a second classification and rests on `SourcesAtEdge`. The step reduces to four cases:
  classified or not, served or not.
* `TtlIsAccounted`: `Spec => []TtlAccounts`, inductive together with `TypeOK`.
* `FirewallsHold`: `Spec => []FirewallHolds`. The property is about the
  destination the host gave, the table looks at the present one; the strengthening `DstKnown` says that it is
  that or a multicast address (only a multicaster rewrites it, `CopyKeepsDst`), and
  no firewall lists such an address (`FirewallsListHosts`).
* `InferredLinksExist`: `Spec => []LinksInferredExist`. The strengthening `ProbesAtLinks` says that a
  probe under way is where the link it names ends; `ProbesAreNotForwarded` that a switch that
  does not punt one drops it, which rests on `ProbesStayPut`.

### The network under the rules of its deployment

What a host gets depends on the tables. `DeploymentRules` states what the entries of `config/` and the
links of `topology.json` have in common, as ten named assumptions that TLC evaluates on the
deployed tables in every network run: hosts sit at edge ports that are sources and sinks; a switch offers the
function of its number and reports under it; the telemetry of `MaxTrace` hops fits the shim
(23 hops of 11 words is what its 8-bit length holds); an `sfc_egress` entry leads
to the switch that offers the function; chains name switches, no two in a row the same; a
route leads to its host's port and over no link to a multicaster; a group leads to its members and, from the
multicaster only, to other switches, each by one port and each with a member; only host ports are sinks, and what a
switch monitors is not for a host of its own. The proofs use nothing else of the tables.

Not every entry has to be there before the first packet. `Installed(ts)` says that none of the tables
`ts` is still to come; each theorem has the ones it needs, and all others may arrive in any order:

| theorem (`IntProofs`, `DeliveryProofs`) | property | complete before the first packet |
|---|---|---|
| `ReportsTellPath` | `ReportedPathIsActual` | `tb_int_insert`, `tb_int_inst_0003` |
| `ReportsAreNumbered` | `ReportsNumbered`, while each switch has sent fewer than 2^22 reports | the same |
| `HostsSeeOriginals` | `HostSeesOriginal` | `sf_processing`, `sfc_egress`, `tb_set_sink` |
| `ServedFirst` | `ServedBeforeDelivery` | `sf_processing`, `sfc_egress`, `sfc_classifier`, `tb_set_source` |
| `ReceiversAreRight` | `RightReceiver` | those, `multicaster`, `multicast_dst_addr` |
| `NetworkImplementsService` | `ImplementsService` | the same |
| `ReportedOncePerSink` | `OneReportPerSink` | those, and all tables of telemetry and `groups` |

The last three also need that hosts address no multicast group themselves (`NoneToGroups`): then
the group tables are entered through a multicaster only. `HostsSeeOriginals` gives the safe order of a
roll-out: overlay and sinks first, then classifiers and sources in any order. The bound of `ReportsAreNumbered` is that of
the 22-bit register; it is a condition on the reports sent so far, as the property is false once the register has wrapped.

Each property needs an inductive invariant about frames, since it speaks only of what has arrived. They build on one another:

* `HeaderInv`: what INT has put into a packet (length, original DSCP, shim) is what taking it off
  again needs, and does not overflow (`ShimFits`). `HeadersAgree` proves it for any order of entries.
* `StackInv`: the telemetry stack of a frame is its trace, newest first. `NumberInv`: the register of a
  switch is the number of its reports.
* `OverlayInv`: a frame with an SFC header is at the switch that offers its next function, and
  its chain is well formed; so `sfc_egress` never misses (`SfcGoesOn`) and no host port is on the overlay
  (`HostsAreOffOverlay`).
* `ServiceInv`: a frame past its first switch has the policy of its DSCP, one before it is as the
  host made it. With `ChainConsistent`, leaving the overlay means that all is served (`AllServed`).
* `ReceiverInv`: off the overlay a frame is at no multicaster and has the address of its group if its
  DSCP is one that is turned into multicast, of its destination otherwise (`Readdressed`, `LeadsOn`).
* `OnceInv`: two frames of one packet exist only behind its multicaster and are at different
  switches, and none is where the packet has been delivered. So no host gets a second copy.
* `MonitoredInv`: a frame past its first switch carries telemetry if and only if its flow is
  monitored, and a multicast one is at a switch with members. So sinks and deliveries coincide
  (`ReportedIfDelivered`), and `ReportInv` pairs each delivering switch with one report.

For the refinement, `OwedIsRest` turns what a frame owes into the rest of its policy by position, and
`ForwardCarries` shows that a forwarded frame becomes frames that owe the same or one function less. The
controller's probes are no packets of the service: the mapping leaves them out, and their steps stutter.

### The ONOS application

`OnosAppProofs`, for any switches, links, hosts and commands:

* `AppTypes`: `Spec => []TypeOK`.
* `LinksAreServed`: `Spec => []LinksServedOnceConfigured`. The strengthening (`AppInv`) follows a link
  from the event that adds it: its rule is there, or a task or set-up that will install it is queued,
  whatever losses and clean-ups happen in between.
* `HostsAreLearned`: `Spec => []HostsLearned`, from the same invariant.
* `BroadcastIsComplete`, `CommandsAreKept`: `Spec => [](losses = 0 => BroadcastComplete)` and the same of
  `CommandsKept`; `EveryStartIsClean`: `Spec /\ [](losses = 0) => StartsClean`. They rest on `UndisturbedInv`: as long as
  no switch has been lost, a removal a clean-up has ordered is confirmed before the set-up looks at the store, and
  rules and groups of the running application are not dying.

Assumed are the types of the constants, that commands do not collide with each other or with what the
application installs (`CommandsApart`), at most one link from a device to another (`OneLinkPerNeighbour`), and a clean-up of at least two tries (`RetryTimes`).

The condition `losses = 0` is needed. TLC refutes the three without it: a switch is lost while the removal of its
group is unconfirmed, the application is started again, the switch comes back, set-up's `addGroup` finds the
key and does nothing, and then the removal is confirmed: the broadcast rule leads to no group until the next
reload. The code has no answer to it and no document claims one.

### The pipeliner and the load test

* `DiscoveryAlwaysSurvives` (module `AclPipelinerProofs`): `Spec => []DiscoverySurvives`.
  The strengthening `Owned` says that every objective added and not withdrawn has its
  rule in the name of its issuer, that the group of its switch exists unless
  something was withdrawn there, and that no group belongs to this
  application, whose clean-up would take it. It needs only that no
  objective is issued by this application (`PipelinerTyped`).
* `OneHeaderOnTop`, `IterationsAreSeparate`, `EveryPacketIsSniffed` (module `MeasurementProofs`):
  `Spec => []FileWellFormed`, `[]EndedBeforeNext` and `[]SniffedWhileSent`, for any number of hosts,
  flows and iterations and any times within the margins. All three follow from one
  inductive invariant `IInv`, four parts that need each other:
  `TypeOK`; `OneWriter`, who writes holds the lock; `FileAsFound`, a writer's note that the
  file was new is still true; `InTime`, where every process and packet stands relative to
  the begin of the iteration. `FileWellFormed` needs the first three, because
  "one header" is decided at `Open` and made true at `Close`. For the timing, `InTime` says of each
  process by when it got where it is; `Tick` keeps it because it passes no deadline, and at the
  end of an iteration the bounds leave no process (`Margins`).

* `RowsAreTrue` (same module): `Spec => []RowsTellWhatArrived`. The rows are computed by a thread that is
  behind the sniffer, from metrics it extends packet by packet, and lie in a file that others append
  to; the invariant `RowsInv` says all of that. `ThreadBehind`: the queue is the end of what was heard, and the
  metrics are those of the beginning (`Tells`: each flow has one entry, whose numbers are those of
  its packets in order, which an increasing function `b` lists). `LaterOff`: receivers of later
  iterations are still off. `RowsInPlace`: who is done has its rows in the file in one block, all
  others none. `ListedCounted` gets the counts from `b`, which is a bijection, and
  `OutOfOrderMeans` shows that the running maximum of `terminate` finds the late packets.

* `LossIsOfItsFlow` (same module): `MSpec => []LossOfItsFlow`, for files with any number of rows in any order,
  any flows, receivers and iterations. `set_pkt_loss` and `set_fist_pkt_delay` do not look at whose line
  they are on: a flag passed from line to line tells the second line of a pair, which is right only if every
  sender's line is followed by the receivers' line of the same flow. The argument follows the data:
  * The files. `FileOfTests`, inductive together with `IInv`: below the header each row was written by a sender
    or a receiver, with one address per flow (`GroupsKnown`), so at the menu the file is one of a test
    (`FilesAreOfTests`); `CloseKeepsTools` is the one step that adds rows.
  * What is read of one. `ReadTells`: after any number of rows, each flow seen is there once in its iteration,
    with the sides that have had a row and no others, and numbers that are numbers (`RowRead`, one row;
    `RowsRead`, all). The means need `FracType`, and that `Gcd`, a recursive function, exists and is not 0.
  * What is exported. `Exported`: `FlowsPaired`, each sender's line above its receivers', and
    nothing else looks like a flow (`RawExported`, flow by flow through two levels of `FlattenSeq`).
  * The flag. On such a sheet the second lines are the receivers' (`SecondsAre`); `LossFilled` and `DelayFilled` say what
    the two passes then leave, `AddedBelow` that the blocks put below do not disturb it.
  * `BookInv` says which of these holds at which stage of `main`, one lemma per action of `Results`.

  No theorem says that the counts and means themselves are right (`MergedInAnyOrder`): that needs
  fractions in lowest terms to be equal when their products are, which is nonlinear arithmetic.

Assumptions of these proofs: `WithinMargins` (a process starts within less than the gap
of 5 s; start-up and transit of the last packet together stay below 5 % of the duration, 15 s;
start-up and export below the gaps and 5 % of the time-out, 26 s) and
`EarlierFilesComplete`. These are the conditions under which the sleeps of `interface.py` do
what they are for; `TestParameters` only gives types. For the last theorem also `FilesOfTests` (the files of earlier tests and
of the other algorithm have rows of senders and receivers, one address for a flow in an iteration), `GroupsKnown`
(`multicast_DSCP.json` has the groups that the multicasters rewrite to) and `SheetsTyped`; TLC evaluates
all of them on the files and flows of the run.

### The collector and the visualizer

`TelemetryProofs`, for any interfaces, flows, paths and reports, and any write and drawing times:

* `CtrlCCostsOneReport`: `TSpec => []AtMostOneMore`. `LateOnce` says that a thread with a late report is
  no longer sniffing, so it cannot take a second one.
* `PictureIsRecent`: `TSpec => []ShownIsRecentTraffic`, with the three seconds that the code's constants make. `ColoredByTraffic` ties each coloured edge to the time
  it was last used and to a stored point that used it then, in the colour of its flow. Reports
  still being written do not disturb it: a point replaces another only if series and time
  agree, and `StampsDiffer` says that no two reports have the same timestamp.
* `EveryPathIsShown`: `TSpec => []EveryPathShown`. `SeenOrSoon` says of each edge of each point that a look
  has seen it and it has stayed for two seconds since, or that the next look is early enough to see it.

* `DatabaseTellsReports`: `TSpec => []PointsTellReports`, and `LinkPointsTellTopology`:
  `TSpec => []LinkPointsAreLinks`, for paths of any length that may come by a switch more than once, and
  clocks that differ from switch to switch. Two halves:
  * Of one report (`CollectorProofs`): a value that fits its field comes back from its bytes (`ValueOfBytes`);
    where a part of a flattened sequence begins (`FlattenedAre`), so the fields of a hop are read where the
    deparser put them (`HopRoundTrip`) and hop `i` of the packet is switch `n + 1 - i` of the path
    (`PacketRead`). Of points with one series the last written stays, which by the reversed order is
    the first visit to a switch (`FirstVisitsKept`), one for each switch. The latency
    of the flow is never 0, so `FlowPoints` has its point (`LatencyNotZero`).
  * Of the database: `DbTells`, the inductive invariant. The points at the time of a stored report are
    exactly what its batch leaves in an empty database, every point belongs to a stored report, and no thread writes
    under the timestamp of another report. The last two make a write leave all other points as they are
    (`WrittenApart`).

Assumed are `TelemetryTyped` (finitely many paths per flow, times are numbers), `PromptEnough` (a write
and a turn of the loop together take less than the second a query goes back: the loop sleeps half
a second; only `EveryPathIsShown` needs it), and for the points `AllAsked` (all eight instructions and eleven words a hop, as
`config/INT_Tables` has it), `PathsTravelled` (paths go from a host over switches that differ from hop to hop to one with an
interface) and `StampsFit` (clocks, latencies and occupancies fit the fields of the P4 headers).

`update_graph`, `terminate`, the flag of `set_pkt_loss` and the conversion of a number to bytes are loops, which the
models write as recursive functions or folds. That they exist and what they keep is proved with the least counterexample (`LeastNatural`,
`Reaches`, `RecursionExists`, which follow from the library's theorem that the natural numbers are
well-founded); the library's own induction theorems take an operator and cannot be used.

### Assumptions about the network

Evaluated by TLC on the deployed tables: `ConstantsTyped`, `TablesTyped` (action data
have the widths of the P4 parameters, chains have one to four functions, no port has the number of
"none" or "drop"), `NetworkTyped`, `SourcesAtEdge` (only ports that lead to hosts are INT sources, as
in `config/INT_Tables`), `FirewallsListHosts` (firewalls list no
multicast address and are firewalls from the start), `ProbesStayPut` (hosts send no LLDP; no table
floods or rewrites a probe), and those of `DeploymentRules`.

### Only model-checked

Liveness (`Drains`, `AllDelivered`, `ActivationEnds`, `LinksGetServed`, `TestEnds`), which is out of the prover's reach.
What `Results` and `IntQueries` compute (`MergedInAnyOrder`, `AveragesTellFiles`,
`ComparisonInItsBlock`, `PlotsShowWhatIsAveraged`, `FailsOnlyWithoutData`, `QueriesTellReports`): sums, means and
percentiles are folds and selections over sequences of any length, whose operators take
operators as arguments; the prover has no rules for them.

## 5. Not modelled

Of the controller: several ONOS instances and mastership, hosts that move, select
groups (built by no caller), the configuration factory that `deactivate()` unregisters (the models let
configuration arrive also while the application is stopped), the registration of the pipeconf, `filter` and `next`
objectives (answered UNSUPPORTED), the flood case of packet-out.

Of the data plane: counters, priorities, UDP/TCP lengths and checksums; timing and queues of links;
the roll-out of the INT entries (hosts do get INT headers while sources are active before
sinks); the pseudo-SFC variant of the deployment; what a host does with a packet. Hosts do not
send DSCP 23, which the parser would take for INT.

Of the tools: arrival times and the jitter worked out from them (rows of a simulated test carry none,
those of earlier files fixed ones), packet sizes, the pause between packets, packets without
payload, Mininet's own command line. Of the collector: the dissection of the report's outer headers by scapy;
equal timestamps of two threads. A thread that sniffs takes a report at once, and Ctrl-C comes while reports do
(the program does not end without one more on every interface).

Of result processing: the logs of an SRv6 analyser, which is no part of this repository, the packet
size column, rounding and units, layout, the drawing of plots, the shares and latency plots
derived from the queries; a formula is a cell the spreadsheet fills.

`receive_report.py` prints what it receives; `monitoring.py` is the controller of an earlier program;
`bmv2.py` is Mininet's wrapper that starts switches; containers, dashboards and `p4src/archive` hold no
behaviour of this system.

## 6. Plan

Done, in this order: the data plane, the network, the service, the deployment, the ONOS
application and its pipeliner, the tools and their file, result processing, the collector, the
visualizer and their compositions, and the theorems of section 4.

Left: the roll-out of the INT entries and the pseudo-SFC variant in `SfcNetwork`; arrival times in
`LoadTest`; of the proofs, the averages in `Results`.
