# A TLA+ verification of sle_mesh

sle_mesh joins hikers' or workers' handsets into a team over SparkLink (SLE).
One node is the **leader**: it decides who may join, watches who is still
there and grants some members the right to relay. The others are **members**:
they reach the leader directly or through a relay. The protocol is
`src/src/sle_team_node.c`; the WS63 firmware
(`src/xc/ws63_team_network/src/ws63_team_network_app.c`, "the adapter") gives it
links, a clock, flash, a screen and operators (a web page, a serial console).

This directory holds TLA+ modules for that program, TLC configurations that
check them on small instances, and proofs, checked by TLAPS, that the main
properties hold for every instance.

## 1. Inventory

| Component | State | Operations | Interacts with |
|---|---|---|---|
| Node, leader side (`sle_team_node.c`) | allowlist, pairing window, member table (online, relay grant, last seen), pending table, heartbeat timer | allowlist calls, pairing start / approve / stop, HELLO, reports, LEAVE, tick | members by packets; the operator; `ops` hooks of the adapter |
| Node, member side (`sle_team_node.c`) | network state, joined, upstream parent and its state, relay flags, four time stamps | select leader, leave, ACK, CONFIG, ROUTE_UPDATE, heartbeat, tick, parent switch | the leader by packets; the adapter, which reports links |
| Node, forwarding (`sle_team_node.c`, adapter) | route table, member bound to each downstream connection | learn from a packet, pass it on with TTL, filter of a hidden relay, choose the connection for a unicast | both neighbours |
| Packet codec (`sle_team_packet.c`) | none | encode and decode three layers, with lengths and widths | every node |
| Adapter, upstream side | tracked connections with a provisional id, parent note, stuck-upstream timer | connection up / down, bind source of a packet, autoselect parent, retry, send | member node; link server |
| Adapter, relay grants | relay targets, swap candidate and its clock, CONFIGs to repeat | count, promote, demote, swap, approve by itself, retry | leader node |
| Adapter, routes and failover | route table, connection table, watch list of a lost relay, marks of planned cuts | note and clear routes, mark offline, expire, cut direct links, reconcile | link client, leader node |
| Adapter, hints and scan | route metrics, hint cache, rotation index | measure, hint, filter what a scan finds, rotate connections | link client, members |
| Link client (`sle_uart_client.c`) | connection slots, seek flags | seek, stop, connect, rescan, read signals, drop ghosts | SLE stack, by callbacks |
| Link server (`sle_uart_server.c`, `_adv.c`) | connection slots, count, announcement | connections, bindings, announce again; the adapter's recovery resets it | SLE stack, member side |
| Adapter, role configuration | queued role, flash items, configured flag | request (page, console), serve, restore at boot, leave, factory reset | main loop, web server's thread, flash |
| Console (`sle_team_cli.c`, adapter) | line buffer, queue of lines | receive characters, queue a line, handle a command | main loop, node |
| Screen (adapter, `ws63_st7789_display.c`) | noted members, one event, one status line, dirty flags | note, show, refresh; copy and draw in a task of its own | callbacks, main loop |
| Main loop and threads | order of a tick | tick; SLE callbacks, the web server and the display task run beside it | everything above |
| Web pages and JSON, LED, buzzer, battery, GPS | snapshots | formatting, driving, sampling | read the node |

What is hard here:

* **Partial failure.** Nearly every operation of the leader ends in one or two
  sends that may fail after the table was changed; flash writes may fail; the
  SLE stack may refuse anything.
* **Ordering.** HELLO, CONFIG, ACK and ROUTE_UPDATE are answered and applied in
  any order with operator calls, link changes and timeouts; an ACK is not
  matched with the HELLO it answers. A member's going is reported by up to three
  paths.
* **Lost callbacks.** Seek-stopped, connected and disconnected may come late or
  never; ticks have to notice.
* **Stale state.** Grants, records, routes, bindings and parents outlive, or must
  not outlive, the membership and the connections they belong to.
* **Time stamps with a sentinel.** 0 means "never", so a watchdog whose stamp is
  not set never fires.
* **Liveness by retry.** Joining, rotation, hints, announcements and dialling all
  rest on something being done again.
* **Concurrency.** SLE callbacks, the web server's thread, the display task and
  the main loop share their data mostly without a lock.
* **Restarts.** Only two flash items survive; both threads write them.

What makes each part correct is what section 3 lists, run by run.
`PROJECT.json` lists the hazards with the line where each bites.

## 2. Modules

| Module | Models |
|---|---|
| `TeamTypes` | node ids and application packets, as the handlers see them |
| `TeamLeader`, `TeamMember` | the two sides of `sle_team_node.c`, the second with the adapter's upstream side |
| `RelayPolicy` | how many relays a leader wants: arithmetic |
| `RelayGrants` | who is granted, revoked and swapped, and what members are told |
| `LeaderRoutes` | a leader's connections, routes, failover and planned cuts |
| `RouteHints`, `LeaderScan` | whom it tells to move; whom it connects to and cuts in a pairing window |
| `SleClient`, `SleServer` | the two link drivers with the SLE stack around them |
| `RelayForward` | packets on their way through leader, relays and members |
| `MeshChannel` | abstract: a request and its answer; `RelayForward` implements it |
| `RoleConfig` | role requests, flash, restarts |
| `Cli`, `Display`, `PacketCodec` | console, screen, bytes |
| `*_proofs` | theorems about the module of that name; `Downstream_proofs`: `SleClient` and `RelayForward`; `LeaderEdges_proofs`: `Cli`, `Display`, `LeaderScan`, `RouteHints` and `PacketCodec` |
| `MC*` | instances for TLC |

How they fit: each module leaves open, as a choice, what another one decides.
`RelayGrants` takes members that come, go and fall silent at any time (decided in
`TeamLeader`, `LeaderRoutes`); `LeaderRoutes` lets a rebalance change any grants
(`RelayGrants` has the choice) and `RelayForward` lets links and relay modes
change at any time (`LeaderRoutes`, `SleClient`, `TeamMember`); `TeamLeader` lets
every send fail and any member be spared by the failover; `TeamMember` accepts
any packet of the leader at any time. A property of one module therefore holds
whatever the others do. `RelayGrants` extends `RelayPolicy`; `RelayForward` is
checked against `MeshChannel` by refinement.

### TeamTypes, TeamLeader

`members[]` becomes three sets: `recorded` (a slot), `online`, `relay`, and the
function `silence` (seconds since last seen). `pending_members[]` becomes
`pending` and `waiting`. Both C tables look up a slot by id before they take a
free one, so slots are determined by ids and all that is left of an array is its
capacity, `MaxMembers`. `filter` and `allowed` are the allowlist
(`member_filter_enabled`, `allowed_member_ids`), `pairing` the window, `sent`
the packets `ops.send` accepted in the last step.

One action stands for one call, with everything it calls: the allowlist calls,
`_pairing_start`, `_pairing_approve_with_relay` (and `_pairing_approve`, which
calls it), `_pairing_stop`, the handlers of HELLO (staged, or joined), HEARTBEAT
and POS_REPORT (one action: they treat the tables alike), LEAVE, and the tick,
with `Second` for the clock. An operation that fails without changing anything
is a disabled action. `should_defer_member_timeout`, a hook of the adapter, may
spare any set of members (`Tick(spared)`).

### TeamMember

`node[m]` holds the fields the member's decisions read; the operators on such a
record are the functions on `sle_team_node_t`, and the actions string them
together in the order the adapter calls them. `links[m]` are the upstream
connections: who is really at the other end (`peer`, which the code cannot see),
whom the adapter takes it for (`id`), whether that is settled (`sure`), and
whether the adapter has a track of it (`tracked`): a new configuration forgets
the tracks, while the connections stay. A device starts configured, since it
starts its link server only then, and keeps it when it leaves.
`Tick` runs the five stages of `team_network_tick_role_configured` that touch
this state. `Receive` is `team_server_write_cb`: identify the connection, bind
its peer as the parent, hand the packet to the node, and report the parent when
the packet completed a join. Ages saturate where they stop mattering; `Never` is
the stamp 0.

### RelayPolicy, RelayGrants

`RelayBudget` and `RelayTarget` are `team_leader_relay_budget` and
`team_leader_relay_target_for_member_count`. In `RelayGrants` a member is its
status, grant, whether it has children behind it, signal and silence; signals are
a few numbers and silence is counted in heartbeat timeouts. `Rebalance` is the
whole of `team_leader_rebalance_relays`: stale grants, target, demotion of the
worst, promotion of the best, swap, and telling everyone concerned, each of whom
may fail to be told (`untold`, repeated by `RetryTick`). Two variables are not in
the code: `told`, what each member last heard, and `gapFor`, for how many seconds
each pair of a candidate and a relay, watched or not, has had the signal gap in
every look, the seconds of a pairing window, in which nobody looks, included.
`Worse` and `BestOf` leave open what the code decides by seconds within a heartbeat
timeout, or by the order of the table.

### LeaderRoutes

`conns` holds for every connection who is really there, whether the client has
bound it and whether the leader has cut it; `routes` a connection and next hop
per member; `failover` the lost relay, whom the leader watches and for how long;
`marks` the planned cuts. `LinkDown` is the disconnect callback with everything
it leads to (planned or not, offline, watch list, rebalance); `Dropped` is a link
the client gives up without one. `marks` has places in an order, because the code
renews and consumes the first mark that fits the connection or the member, and a
free place fits connection 0. A ROUTE_UPDATE may name any next hop, since its
body is read from a dead stack frame (see `RelayForward`). Direct places go by
id, as in `team_leader_member_should_stay_direct`, so members are numbers.

### RouteHints, LeaderScan

`RouteHints` has per member where it is routed and where it should be, which
change at any time, the cache of hints, and who was told what in the last step
(`told`). `MetricsTick` measures and hints in the order of the table, whatever that
is; it is due after a second, and at once when a route changed
(`route_metrics_last_s` is zeroed), so there may be several rounds in a second.
`LeaderScan` has per device what the leader knows of it, and the connections.
`Connect` is the seek filter followed by the connection; `Speak` is a HELLO, which
may be staged, admitted or refused, by an open list or for want of a place;
`ReportsIn` is a report, which makes a record past any staging; `Rotate` is
`team_leader_pairing_rotate_connections`. Whether an online member belongs to the
leader is decided in `LeaderRoutes` and open here (`Refusable`).

### SleClient, SleServer

The stack is the variable `radio`: what it does and which callbacks it owes. A
callback may come at any later time, and some may be lost. `Interval` is the
scan restart interval. Two facts of the code that the models rely on: reading the
signal of a link that is gone fails at once, and a relay reads signals only while
it is enabled. The client leaves the exchange that makes a connection ready out,
and with it writes. In the server a unit of time is what passes between two
packets of a member, 3 s; what the reset does to the node is `TeamMember`'s, and
whether the member has a leader comes and goes (`seeks`): without one the
recovery tick leaves it alone.

### RelayForward, MeshChannel

Links are parent-child pairs; `air` has a queue of packets for each direction of
each (within a link packets stay in order and are not lost; they are lost with
it). `Learned` is `team_bind_packet_source` and `team_route_note`; `Conns` is the
choice of a connection for a unicast: the member bound to it, or the route.
A relay that was set up again has no client yet (`"unstarted"`) and refuses what
goes down; until the calm a send may fail (`Lost`).
`Settle` begins the calm: from then on links and relay modes stay, whatever the
tables hold from before. `MeshChannel` says what a member may expect then: it
asks, is answered once, and hears the answer; `stageBar` maps the packets in the
air to that.

### RoleConfig

`nv` is flash: the role's settings and the allowlist, written whole or not at
all. Serving a request is three steps of the main loop (`ServeBegin`, `ServeApply`,
`ServeSave`) and restoring the saved role two (`Restore`, `RestoreApply`), between
which the web server's thread may act when `Overlap`.
`Restart` is a loss of power or the watchdog at any time. `kept` records whether
what was last set was also saved and not written over by a request for the next
boot: not in the code.

### Cli, Display, PacketCodec

`Cli`: a line is a sequence of words with room for `Width` of them; `typed` and
`clean` record what was really received. `asked` is what the last command asks
of the node. `Display`: the noted members, the event and status line with their
dirty flags, and the task that copies under the lock and draws outside of it;
labels, positions and the count of events are left out; records heard in the
same second may be named in either order. `Alerted` is a TIMEOUT alert about a
member, which is noted and shown though its record stays. `PacketCodec`: encoders and decoders
as operators on sequences of bytes, with every check in the order of the code,
applied to a buffer that grows.

## 3. Runs

| Run | Instance | States | Shows |
|---|---|---|---|
| `leader` | 3 nodes, 2 slots, all timeouts 1 s, nodes symmetric | 128 624 | `LeaderTypeOK`, `NoGhosts`, `WithinCapacity`, `FastRejoin`, `ConfigTellsTable`, `PairingSealsKnown`, `PendingUntilTold` |
| `leader_window` | 2 nodes, operator uses only the window | to the violation | a counterexample, see Findings |
| `member` | one device, one other member as relay, all timeouts 1 s | 18 241 | `MemberTypeOK`, `FlagsAgree`, `WatchdogsArmed`, `RejoinsThroughRelay`, `SilenceIsNoticed`, `KeepsAsking` |
| `member_parent` | the same, without fairness | to the violation | a counterexample, see Findings |
| `client` | 2 connection ids, one peer, one member id | 70 656 | `ClientSafety`, `ChosenIsDialled`, `Searches`, `GhostsGoAway` |
| `server` | 2 connection ids, 2 parents, reset after 2 units | 122 168 | `ServerSafety`, `BareIsReset`, `FoundAgain` |
| `grants` | 2 members, table of 5, limits of 1 and 2 direct places | 116 927 | `GrantsSafety`, `GrantsWithinBudget`, `RelaysStay`, `SwapIsPatient` |
| `routes` | 3 members, 2 connections, 1 direct place | 320 102 | `RoutesSafety`, `LostRelayCleared`, `WatchIsKept` |
| `finds` | `LeaderScan` with 2 devices that talk, any number of silent ones and 2 records on 3 connections, 1 of them kept, or `RouteHints` with 2 members, one of them a relay, a hint young for one unit | 78 215 | `ScanSafety`, `TalkersComeIn`, `HintsSafety`, `MisplacedIsTold` |
| `mesh` | leader, 2 relays, a member that roams, TTL 4, 2 packets and their answers | 266 089 | `ForwardSafety`, `MeshImplementsChannel`, `PacketsEnd` |
| `role` | 2 networks, 2 members, failing writes, overlapping threads | 185 951 | `RoleSafety`, `RoleSticks`, `QueueIsFreed` |
| `edges` | `Display` with 2 members, `Cli` with lines of up to 7 words, or `PacketCodec` with buffers of up to 18 bytes | 1 675 863 | `DisplaySafety`, `CliSafety`, `CodecInverse` |

`finds` and `edges` each put modules side by side that share no variable: the
initial state chooses the `part` that runs, the others rest in their initial
state. Every behaviour of each part is a behaviour of the run and no step mixes
them, so a property of one part holds in the run exactly when it holds in the
part; the fairness of a part is assumed only where it runs.

Properties that are a conjunction (`...Safety` and a few more) are made of named
parts in their modules, each with a comment of its own.

**Leader.** `NoGhosts`: every allowlist entry, online flag and grant belongs to a
record. `WithinCapacity`: both tables fit. `FastRejoin`: the HELLO of an approved
member always has a slot and is never staged. `ConfigTellsTable`: a CONFIG tells
the grant and the hiding the tables hold when the step ends.
`PairingSealsKnown`: when the window closes, everyone with a record is in the
allowlist. `PendingUntilTold`: a candidate leaves the pending table only told
with both CONFIG and ACK, or because a new window starts.

**Member.** `FlagsAgree`: joined is ONLINE; an enabled or hidden relay is granted;
a device that left holds nothing. `WatchdogsArmed`: a joined member has the
stamps its watchdogs need. `RejoinsThroughRelay`: a member told to move to a
relay joins only over a connection it takes for a relay's. `SilenceIsNoticed`: a
joined member hears its leader again or stops being joined. `KeepsAsking`: a
member that is out and can reach someone sends a HELLO.

**Grants.** `GrantsSafety`: a member believes of its grant what the table says, or
a retry is due. `GrantsWithinBudget`: a rebalance never grants beyond the budget,
whatever approvals did before. `RelaysStay`: no plan takes the grant of a relay
that holds children, nor, during a failover, that of the last relay.
`SwapIsPatient`: a relay is swapped only for a candidate whose gap to it every look
of the stable time has found, the last one too. The seconds of a pairing window
count, although nobody looks in them; section 6 says what that breaks.

**Routes.** `RoutesSafety`: a failover is on exactly while it watches someone, and
never the lost relay itself. `LostRelayCleared`: outside a pairing window no route
through a lost relay survives the step that takes it offline. `WatchIsKept`:
a duplicate loss does not restart or end the grace, and a watched member counts
as recovered only by a physical connection that bears the route out.

**Finds.** `ScanSafety`: making room never cuts a member that is online.
`TalkersComeIn`: a device that keeps talking is admitted in a window that stays
open and in which rotation has a place to give (`PlaceFor`: members and candidates
leave more than the kept number of connections), and a known one returns while no
relay is online. Without such a place it may stay out for ever (section 6). `HintsSafety`: a cached hint is neither repeated nor
forgotten within the cooldown, unless someone new is told in the same round and
every slot has a hint that young. `MisplacedIsTold`: who stays misplaced and
can be reached is told again and again.

**Client, server.** A chosen peer is dialled or given up; a client without a
connection scans; ghosts are freed; a member has one connection. The table of
the server agrees with its count and its parents with their connections; a member
nobody is connected to is announced again, and starts over in time.

**Mesh.** `ForwardSafety`: a relay answers the way it was spoken to, and no unicast
has two ways. `PacketsEnd`: whatever is sent, even into a circle of parents, dies
out. `MeshImplementsChannel`: after any history, once links and modes stay, every
HELLO is answered and the answer heard.

**Roles.** `RoleSticks`: a device keeps its role until it leaves or restarts.
`RoleSafety`: the role and the admission that would come up after a power cycle
are those the device has, when the last write succeeded and nobody wrote over it.
`QueueIsFreed`: the queue of one role request empties, on whichever path, so that
the next request can be made. Not every request is read before that (section 6).

**Edges.** `DisplaySafety`: a member that went is noted, and what was left for the
display task reaches the screen. `CliSafety`: a good line is executed whole
whatever came before it, and what is asked of the node are member ids.
`CodecInverse`: decoding is the inverse of encoding, in all layers, and within
its buffers.

### Bounds

Ages saturate, so most state spaces are finite without a bound. The bounds there
are:

* `leader`: three nodes for two slots is the smallest instance in which a table
  is full and someone is left out. Nothing in the code compares ids there, so
  nodes are interchangeable (`SYMMETRY`, only with safety properties).
* `member`: one device sees everything another can do to it through packets and
  links; two upstream peers are enough for a current parent and a target. A
  timeout of 1 s gives ages below, at and past it.
* `grants`: two members are a relay and its candidate. `GrantsBound` takes one
  newcomer at a time, one untold member in a failover, and no failover in a
  pairing window. With a signal weak enough for a swap there is one trouble at a
  time: a pairing window or newcomers, a failover, or one unsent CONFIG, each of
  which meets the pair and its clock. The larger limit, with which two members
  need no relay, comes and goes by itself. In any trouble one member at most is
  silent or has children, and neither is when newcomers meet an unsent CONFIG. With `SwapStable` of 1 a pair needs two
  looks, and a window, a failover or a change of candidates fits between them.
* `routes`: `TwoOrThree` lets two members, of whom one may be a relay, do
  everything, and adds a third where two relays and the child of one are needed,
  with pairing, cuts and untold relays left out. Connections are symmetric.
* `mesh`: `Budget` packets besides answers; links {leader-1, 1-2, 2-1, 1-3, 2-3},
  one parent at a time; `OneLess` lets one relay at a time carry less. TTL 4 is
  longer than the longest path and short enough for a circle to use up.
* `edges`: `EdgesBound` cuts the display's second member and the last of its
  clock short once a task draws,
  the words behind a full line down to two, and the bytes behind a header to
  small ones; `MaxNow` bounds the clock and `Budget` the words typed.
* `finds`: two talkers for two records fill the table and compete for it; three
  connections with one kept are the least with which rotation cuts while a member
  holds a connection.
* `client`, `server`, `role`: none besides the constants.

Constraints stop TLC from going on from the states they exclude; those states
are still checked.

### Fairness

The main loop runs and the clock advances: ticks and intervals are weakly
fair. Strong fairness stands for a radio that is not
broken: a transport that can take a packet again and again takes one
(`TeamMember`), a stack that is asked to scan or announce again and again once
does (`SleClient`, `SleServer`), a device that keeps advertising is found
sometimes, and heard over its connections sometimes (`LeaderScan`). In the mesh queued packets are delivered
(weak fairness per link), which ends with the calm's last change. Links, lost
callbacks, packets of others and operators are not fair.

Every property of a passing run has a mutant in `PROJECT.json`: a change that a
plausible bug would make to one definition, under which TLC finds it violated.

## 4. Findings

* **Approving one candidate silences the members that were already there**
  (`leader_window`). With an open team, starting the window keeps the existing
  members heard because the allowlist is still empty. The comment at
  `src/src/sle_team_node.c:766` counts on that until the window stops; but the
  first approval makes the list non-empty, hence enforced, and the others enter
  it only in `pairing_stop`. In between their reports are refused, and they may
  time out.
* **A member behind a relay records the leader as its parent** (`member_parent`).
  A new connection has a provisional id, and the adapter settles it with the
  source of the first packet. Whatever comes down comes from the leader, so the
  relay's connection is taken for the leader's and the leader is bound as the
  parent, against the comment at `src/src/sle_team_node.c:1248`.

## 5. Proofs

All hold for every value of the constants, from the named assumptions of the
modules alone; `MeshIsChannel` is about calms of one shape, which its statement
names. A
theorem is stated here for every invariant and every action property the runs check.

`TeamLeader_proofs`. `LeaderTypeOK` is inductive by itself. `NoGhosts` is
inductive given the type; `FastRejoin` follows from it, because an approved
member has a record and a record is never staged and needs no free slot.
`ConfigTellsTable` is proved from what each action sends (`ConfigForTells`): it
needs only the step, not the past, except for `UNCHANGED`. `PairingSealsKnown`
and `PendingUntilTold` are action properties proved action by action.
`WithinCapacity` is an inductive invariant about cardinalities, by the lemmas
`ShrinkFits` and `AddFits` and, for `PairingStop`, which seats several candidates
at once, by counting a union.

`TeamMember_proofs`. `Sound(n)` says that a node's record is typed, consistent
and armed. `Armed` alone is not inductive: a step that joins needs to know the
type of the stamps, and one that enables a relay needs `Consistent`. Every
operator on nodes preserves `Sound` (one lemma each), each stage of the tick does
and makes nobody join (`Keeps`), hence so does every action (`StepSound`), which
also shows `JoinsRight`, the core of `RejoinsThroughRelay`.

`SleServer_proofs`. `ServerInv` is the table (typed, counted, one connection per
parent), the type of the stack, the types of the ages, and `Patience`: how long
the member has had a leader and no connection, by what its outage clock shows.
`BareIsReset` alone is not inductive, since the clock and the time it measures are
reset by different steps; `Patience` bounds one by the other in each of the
clock's three states. The table's part rests on two lemmas about cardinalities
(`TableGrows`, `TableShrinks`).

`RelayGrants_proofs` begins with the arithmetic of `RelayPolicy`: the plan of
relays never exceeds the places that hold them (`RelaysFit`), does not shrink
when the team grows (`TargetGrowsWithTeam`), and seats everyone when the table
fits what a full set of relays can carry (`SeatsEveryone`), by three lemmas on
rounding division. Then the grants. `GrantsSafety` says that a member believes of
its grant what the table says, or is to be told again; that is not inductive,
because a member that comes back is told nothing of what changed while it was
away. `GrantsInv` adds that a member that is away is sure of nothing
(`AwayIsUnsure`), and that the pair of a swap had its gap in every look since its
clock was set (`PairIsSteady`, which relates the clock to `gapFor`), which
`SwapIsPatient` needs. `gapFor` is computed from the signals alone, for every pair,
while the clock follows one pair through what the code looks at: that the two
agree where the code swaps is what is proved. `Rebalance` is
proved in the order of the code: clearing, demoting to the target, promoting,
swapping and telling each keep the table and the telling in step, and the count
of relays is bounded after the promotion and not raised by the swap. A demotion
loop is a choice among the sets of the worst, so no induction is needed.
`GrantsAssumption` asks for `MaxDirect < MaxMembers`: the code has 8 direct places
(`SLE_TEAM_MAX_DIRECT_CONNECTIONS`) and a table of 30, and with a table no
larger than the direct places no relay is ever planned and a failover would
take the last one.

`LeaderRoutes_proofs`. `RoutesSafety` is inductive as it stands: a failover is on
exactly while it watches someone, and never watches the lost relay. Every way a
packet, a report or a reconciliation comes in ends in `MemberComesBack`, every
loss in `MemberGoes`; `StepOK` collects what every action owes the two action
properties `LostRelayCleared` and `WatchIsKept`.

`Downstream_proofs`. `ForwardSafety`: `OneWay` and `ReplyGoesBack` rest on two facts about stale
tables: no two connections of a node are bound to the same member
(`BindingsUnique`), and the route of the member a relay's connection is bound to
goes over that connection or over none (`RoutesFollow`). The second is what makes
binding by the last source heard harmless for that source: whoever rebinds a
connection also writes the route. `ClientSafety` is inductive with the size of the table
(`TableFits`) and the chosen address (`SomeoneChosen`), which are results of their
own: connections come from three callers, dialling, a late callback and a packet
on a connection that was given up. `MeshIsChannel` is the safety part of the
refinement `MeshImplementsChannel`: if in the calm each node has one parent
(`OneParent`) and each relay with children is connected to the leader
(`RelaysLinked`), `ForwardSpec` implies `ChannelInit` and steps of `ChannelNext`
under `stageBar`, for any number of members and relays, any links and any
`MaxParents`: before the calm members may have held several parents, relays may
have been each other's, and the tables hold what is left of that. It assumes a
TTL above 1 and `NamesKept`: the next hop a ROUTE_UPDATE names is read as it was
sent, or no ROUTE_UPDATE is sent. The code gives neither one parent (its server takes
several, and then a HELLO may go up both ways) nor `NamesKept` (`BodyIsUsed`, section
6): the theorem says what holds when a member has one parent and no body is lost.
The invariant (`TierInv`) says of every member in the calm that nothing of it
is in the air and it waits for nothing, or that it waits and exactly one packet is
its own (`Known`): a request on its first link, or past its relay, whose route then
leads back to it; or the answer on the same way down, with a hop to spare above
(`Placed`). That rests on what relays hear: each of their children speaks for itself
alone (`Uttered`), so no other packet can turn that route away (`Keeps`).

`RoleConfig_proofs`. `RoleSafety` speaks of the main loop at rest. In between, the
web server's thread may act, so `RoleInv` says what each stage of serving a request
knows: what is being taken agrees with the request (`RoleMatches`), whose server is
a leader if the request says so, since only a member can leave (`Serving`), the
list agrees from the moment it is loaded (`ListMatches`), and a booting device has
no role (`Booting`).

`LeaderEdges_proofs`. `CliSafety` needs that the buffer holds what was typed while
that fits (`LineIsTyped`). `DisplaySafety` needs what the drawing task copied is
the last that was shown (`CopiedIsLast`) and that whoever left is noted as such
(`LeftIsNoted`). `ScanSafety` follows from the types: rotation spares
whoever is online and was heard over the connection, whatever the tables hold.
`HintsSafety` is about a round of hints, which
is a recursion over the member table. `RoundExists` shows that the recursion
defines a function, and `RoundEnds` carries `InRound` through it: who was not told
in this round has the hint it had, nobody's hint grows older, and where a young
one went there is a crowd and a newcomer. Both are inductions over sets of
numbers (`UpTo`), by the well-foundedness of the naturals. That the oldest hint
exists is the least number of a set (`Least`). `CodecInverse` is a statement about
three decoders for any buffer, any name, any capacity of the caller and any maximal
number of hashes. A length byte is split into the number of hashes and their size,
two fields of its bits, and put together again by `MakePathLength`; a counter
into two digits of base 256. A decoder that accepts a buffer has found every field inside it, hence the
encoder, given what it found, writes the same bytes (`MeshReencoded`, `AppReencoded`,
with the rules on slices of `SequenceTheorems`). `EveryPacketIsHeard`
goes the other way and is stronger than the property, which probes with a few
packets: any application packet passes the three encoders and comes back.

Three properties were false as they were first stated, which no run showed: the
proofs failed, and the failing step gave the instance. `ReplyGoesBack` (see section 6)
needs three relays of which one moves. `RecoveredIsPhysical` needs an open pairing
window in which a second relay, without children, expires and takes the failover
of the first with it. `HintsRest` once said that no member is told the same
parent twice within the cooldown, which a member that is told p, q and p again, or
a full cache of young hints, breaks. Each now names the case.

Only model-checked:

* everything under fairness, which is out of the prover's reach:
  `SilenceIsNoticed`, `KeepsAsking`, `ChosenIsDialled`, `Searches`, `GhostsGoAway`,
  `FoundAgain`, `TalkersComeIn`, `MisplacedIsTold`, `QueueIsFreed`, `PacketsEnd`;
* of the refinement `MeshImplementsChannel`: that requests are answered and answers
  heard, for the same reason, and everything about relays behind relays in the
  calm, of which the `mesh` run has one. With more members behind a relay's relay it does not hold
  of every instance, as answers get lost in the calm (`NextHopIsUsed` below).

## 6. Where code and documents part

These are stated as properties in the modules, and TLC finds each violated in
the instance named; they are not kept as runs. Paths are under `src/`; "adapter"
is the file of section 1.

| Property (module) | A document says | The code does | Instance |
|---|---|---|---|
| `RelaysFitDirectCap` (`RelayGrants`) | adapter:2728 "Do not create more relay roles than the configured direct-cap can safely host" | an approval whose CONFIG failed is granted and not counted | as `grants` |
| `KnownDemotedFirst` (`RelayGrants`) | adapter:5695 "Unknown RSSI must be treated as weakest so known links are demoted first" | the unknown one goes first: it is the weakest | as `grants` |
| `SecondsHaveGap` (`RelayGrants`) | versions/v4.4.94/VERSION.md:19, the same pair must satisfy the gap for 30 seconds | a pairing window stops the looks (adapter:5930) and not the clock: a gap that was gone in the window is not noticed, and the first look after it may swap | as `grants` |
| `CutIsConfirmed` (`LeaderRoutes`) | versions/v4.4.76/VERSION.md:39, pruning requires logical and physical confirmation | the hint is sent and the link is cut at once | as `routes` |
| `LostRelayAlwaysCleared` (`LeaderRoutes`) | versions/v4.4.130/VERSION.md:18, stale routes through the lost relay are cleared | not while a pairing window is open | as `routes` |
| `ChildrenAreWatched` (`LeaderRoutes`) | versions/v4.4.67/VERSION.md:83, the children of a lost relay are recorded | not those it got between two losses within six seconds | as `routes` |
| `UnknownMakeRoom` (`LeaderScan`) | docs/v2/networking-goal.md:43, connections of nobody known are rotated out | while those are four or fewer they stay for ever (adapter:5452), and with members on the other places no candidate gets in | as `finds` |
| `AllowlistSaved` (`RoleConfig`) | versions/v4.4.4/VERSION.md:17, the list is saved after pairing stop | the console's `pairing stop` answers with words that save nothing | as `role` |
| `FactoryResetSticks` (`RoleConfig`) | versions/v1.2.6/VERSION.md:13, a reset comes up without a role | a request queued before saves its role in the 800 ms before the restart | as `role` |
| `LeaveForgets` (`RoleConfig`) | versions/v1.2.9/MANIFEST.md:14, the settings are cleared after leave | the request that is still being served saves them again | as `role` |
| `RequestIsRead` (`RoleConfig`) | versions/v1.2.7/VERSION.md:11, a role set on the page is queued and carried out by the main loop | one queued after a leave, while the request before is still being served, is erased unread at the end of that (adapter:8590) | as `role` |
| `NextHopIsUsed` (`RelayForward`) | docs/v1/protocol.md:15-16, a unicast with a next hop goes there | with two members behind a relay, its connection is bound to the one heard last | links {0-1, 1-2, 2-3, 2-4} |
| `BodyIsUsed` (`RelayForward`) | versions/v4.4.88/VERSION.md:39, direct ROUTE_UPDATEs use their body's next hop | adapter:8226 reads it from the stack frame of a function that returned (adapter:7927): undefined | `BodyKept = FALSE` |
| `MuteIsReset` (`SleServer`) | versions/v4.4.137/VERSION.md:16, 8 s without a usable upstream link reset the member | any connection in the table, a dead one too, clears the clock every second | as `server` |
| `TimeoutNamesSilent` (`Display`) | versions/v4.4.53/VERSION.md:25, TIMEOUT names who fell silent | it names the offline record heard last, whoever went | as `edges` |
| `ReturnIsRejoin` (`Display`) | versions/v4.4.53/VERSION.md:27, a return is shown as REJOIN | of several that expired together one is noted; the others return unseen | as `edges` |
| `NoSpam` (`Display`) | versions/v4.4.53/VERSION.md:17, repeated HELLOs show nothing | a member without a slot in the screen's table is a JOIN every time | as `edges` |
| `LongLinesDropped` (`Cli`) | adapter:7904 "cli line too long, dropped" | the rest of the line is executed | as `edges` |
| `AllowTakesAll` (`Cli`) | src/sle_team_cli.c:335 "usage: allow only <id...>" | twelve words of a line are looked at: ten ids | `MaxArgs = 3` |
| `LeaveClears` (`Cli`) | versions/v4.4.47/VERSION.md:25, leave clears the saved settings | not if anything follows the word | as `edges` |

`ReplyGoesBack`, a part of `ForwardSafety`, excepts a next hop that was itself heard
on another connection. With links 1-2, 2-3, 1-3 and 3-4, relay 3 moves from
under 2 to directly under 1; a packet of 3 that was still on its way through 2
then binds the connection 1-2 to 3 (adapter:8260). The route of 4, whose next
hop is 3, now resolves to that connection, though 4 was last heard on 1-3.

`MeshImplementsChannel` is checked with one parent per node and one member behind a
relay that is itself behind a relay, and proved for calms without such relays,
because of `NextHopIsUsed`; and with bodies kept because of `BodyIsUsed`. It says what
holds when neither bites.

`HintsRest`, a part of `HintsSafety`, excepts two ways in which a member is told the
same parent again within the cooldown, though versions/v2.0.0-alpha8/MANIFEST.md:19
has such a hint skipped: the cache keeps one parent per member, so one that is
told p, then q, then p is told p again at once; and with more members coming and
going than slots, a young hint is evicted when all are young (adapter:4356-4416).

Behaviours that no document speaks of, modelled and left without a property:
removing the last allowed member leaves an enforced, empty list that admits
everyone (`sle_team_node.c:618`); a report of a node without a record makes one,
past the staging of the window (`sle_team_node.c:1167`); an approved candidate's
record takes over the age of its first HELLO (`sle_team_node.c:850`); a LEAVE has
no sequence, so a late one takes a member offline that is back (adapter:6149);
marks of planned cuts are found by connection or member id, so an old one may
pass a real loss for a planned one (adapter:4108).

## 7. Not modelled

* **Atomicity.** Handlers on the node itself are atomic: SLE callbacks, the web
  server's thread and the main loop really interleave inside them, unlocked.
  `RoleConfig` splits the serving of a role request and the web server's longer
  requests, `Display` the drawing task, `RelayForward` the mesh; elsewhere a
  callback meets the main loop between its handlers.
* **`ServeApply`** loads and sets the list in one step, and so does `RestoreApply`;
  a flash write is one step, what is half-written is not looked at. The two writes
  of `cfg clear` may fail one by one, but the web server's thread and a loss of
  power do not come between them.
* **A member's heartbeat timeout in a CONFIG** (`sle_team_node.c:1117`): leaders and
  members are built with the same `CONFIG_SLE_TEAM_HEARTBEAT_TIMEOUT_S`, so a CONFIG
  carries the timeout the member has; `TeamMember` takes it for a constant.
* **Seconds within a heartbeat timeout** in `RelayGrants`: silence is none, some or
  too much, and where the code compares seconds any order is possible.
* **The tier of a packet by its ids** (`team_route_bucket_from_ids`, adapter:8096) in
  `RelayForward`: packets are the leader's or for the leader, for which the
  comparison gives down and up.
* **SLE exchange and writes of the client** (readiness is one flag for all
  connections, `sle_uart_client.c:711`), recovered connections without an address
  (`:863`), `g_sle_uart_remote_addr` that is never cleared (adapter:4754): they
  need the stack's own behaviour, which is not in the repository.
* **The whole team in one model.** Each module is open to what its neighbours may
  do; one model of leader, members and links together is past TLC's reach at the
  detail of the parts.
* **Output and input without protocol state**: HTTP pages, JSON, the panel's
  driver and fonts, LED, buzzer, battery, GPS.
* **Not what runs on the device**: demo programs, the Python simulator, build and
  test tooling, drawings, released snapshots. They were read as tests and docs.
