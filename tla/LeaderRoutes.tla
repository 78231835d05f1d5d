---------------------------- MODULE LeaderRoutes ----------------------------
(***************************************************************************)
(* How the WS63 adapter of a leader keeps track of where its members are:  *)
(* connections and who is at their other end, a route per member, the      *)
(* failover that watches the children of a lost relay, and the direct      *)
(* links it cuts to move members under relays.                             *)
(*                                                                         *)
(* Every member here has a record.  Which grants a rebalance changes is    *)
(* left open: RelayGrants has the choice.                                  *)
(***************************************************************************)
EXTENDS Naturals, FiniteSets, Functions

CONSTANTS
    Member,       \* ids, a set of numbers: direct places go by id
    Conn,         \* connection ids
    Cap,          \* team_leader_direct_capacity
    Grace,        \* SLE_TEAM_RELAY_FAILOVER_GRACE_S
    Fit           \* the members whose signal lets them be promoted

ASSUME RoutesAssumption ==
    /\ Member \subseteq Nat \ {0} /\ IsFiniteSet(Member)
    /\ IsFiniteSet(Conn)
    /\ Cap \in Nat \ {0} /\ Grace \in Nat \ {0}
    /\ Fit \subseteq Member

Leader == 0
Nobody == 0

VARIABLES
    roster,       \* online, relay_allowed, relay_config_pending
    conns,        \* the link client's table and the track of each connection
    routes,       \* g_team_routes, by member
    failover,     \* relay_failover_lost_id, _member_ids, and seconds since
    marks,        \* direct_prune_conn_ids, direct_prune_member_ids, by place
    pairing       \* cfg.pairing_enabled

routeVars == <<roster, conns, routes, failover, marks, pairing>>

(* peer: who is there (Nobody: no slot); bound: a packet came over it and   *)
(* no other connection has its peer since; cut: its disconnect was accepted *)
(* and has not happened.                                                    *)
Link == [peer : Member \cup {Nobody}, bound : BOOLEAN, cut : BOOLEAN]
NoLink == [peer |-> Nobody, bound |-> FALSE, cut |-> FALSE]

(* As many places as connections: SLE_TEAM_MAX_DIRECT_CONNECTIONS.          *)
Place == 1 .. Cardinality(Conn)
Mark == [conn : Conn, member : Member]

NoFailover == [lost |-> Nobody, watched |-> {}, age |-> 0]

RoutesTypeOK ==
    /\ roster \in [online : SUBSET Member, relays : SUBSET Member, untold : SUBSET Member]
    /\ conns \in [Conn -> Link]
    /\ DOMAIN routes \subseteq Member
    /\ \A m \in DOMAIN routes : routes[m] \in [conn : Conn, hop : Member \cup {Leader}]
    /\ failover \in [lost : Member \cup {Nobody}, watched : SUBSET Member, age : 0 .. Grace + 1]
    /\ DOMAIN marks \subseteq Place
    /\ \A i \in DOMAIN marks : marks[i] \in Mark
    /\ pairing \in BOOLEAN

RoutesInit ==
    /\ roster = [online |-> {}, relays |-> {}, untold |-> {}]
    /\ conns = [k \in Conn |-> NoLink]
    /\ routes = [m \in {} |-> NoLink]
    /\ failover = NoFailover
    /\ marks = [i \in {} |-> NoLink]
    /\ pairing = FALSE
-----------------------------------------------------------------------------
(* Connections and routes.  ro, cs, rts and f are values of the variables.  *)

Held(cs, k) == cs[k].peer # Nobody
ConnsOf(cs, m) == {k \in Conn : Held(cs, k) /\ cs[k].bound /\ cs[k].peer = m}
OnlineRelays(ro) == ro.online \cap ro.relays

(* team_leader_member_has_downstream_children *)
Kids(rts, cs, m) ==
    {c \in DOMAIN rts \ {m} : rts[c].hop = m /\ Held(cs, rts[c].conn)}

(* sle_uart_client_bind_member_conn *)
Bound(cs, k) ==
    [j \in Conn |-> IF j = k THEN [cs[j] EXCEPT !.bound = TRUE]
                    ELSE IF cs[j].peer = cs[k].peer THEN [cs[j] EXCEPT !.bound = FALSE]
                    ELSE cs[j]]

(* team_leader_relay_parent_is_ready, of a relay *)
Ready(ro, cs, p) == p \in OnlineRelays(ro) \ ro.untold /\ ConnsOf(cs, p) # {}

ClearConn(rts, k) == Restrict(rts, {m \in DOMAIN rts : rts[m].conn # k})
ClearHops(rts, ps) == Restrict(rts, {m \in DOMAIN rts : rts[m].hop \notin ps})
-----------------------------------------------------------------------------
(* The failover.                                                            *)

Window(f) == f.lost # Nobody /\ f.age =< Grace

UnwatchedOnly(f, m) == [f EXCEPT !.watched = @ \ {m}]

Unwatched(f, m) ==
    IF f.watched \subseteq {m} THEN NoFailover ELSE [f EXCEPT !.watched = @ \ {m}]

(* team_leader_route_physical_parent_matches *)
Physical(cs, m, k, hop) == cs[k].bound /\ cs[k].peer = (IF hop = Leader THEN m ELSE hop)

RecoveredLogically(ro, cs, f, m, k, hop) ==
    hop \in {m, Leader} \/ (hop # f.lost /\ Ready(ro, cs, hop))

(* team_leader_failover_note_route_recovered *)
Recovered(ro, cs, f, m, k, hop) ==
    /\ hop \in {m, Leader} \/ (hop # f.lost /\ Ready(ro, cs, hop))
    /\ Physical(cs, m, k, hop)

(* team_route_note *)
Noted(rts, m, k, hop) ==
    [c \in DOMAIN rts \cup {m} |-> IF c = m THEN [conn |-> k, hop |-> hop] ELSE rts[c]]
WatchAfter(ro, cs, f, m, k, hop) ==
    IF Window(f) /\ m \in f.watched /\ Recovered(ro, cs, f, m, k, hop)
    THEN Unwatched(f, m) ELSE f

(* team_leader_failover_begin: the same relay does not begin its own window *)
(* again, another one ends it.                                              *)
Begin(f, rts, m) ==
    LET children == {c \in DOMAIN rts \ {m} : rts[c].hop = m}
    IN  IF f.lost = m /\ Window(f) THEN f
        ELSE IF children = {} THEN NoFailover
        ELSE [lost |-> m, watched |-> children, age |-> 0]
-----------------------------------------------------------------------------
(* Grants.                                                                  *)

RebalanceKeepsRoutes(ro, rts) ==
    \E down \in SUBSET OnlineRelays(ro), up, failed \in SUBSET ro.online :
        LET gone == ro.relays \ ro.online
        IN  /\ up \subseteq Fit \ ro.relays /\ failed \subseteq up \cup down
            /\ roster' = [online |-> ro.online, relays |-> ((ro.relays \ gone) \ down) \cup up,
                          untold |-> (ro.untold \ (gone \cup up \cup down)) \cup failed]
            /\ routes' = ClearHops(rts, down)

(* team_leader_rebalance_relays: grants of members that are offline go, and *)
(* any others that the plan changes; some of those cannot be told at once.  *)
Rebalance(ro, rts) ==
    \E down \in SUBSET OnlineRelays(ro), up, failed \in SUBSET ro.online :
        LET gone == ro.relays \ ro.online
        IN  /\ up \subseteq Fit \ ro.relays /\ failed \subseteq up \cup down
            /\ roster' = [online |-> ro.online, relays |-> ((ro.relays \ gone) \ down) \cup up,
                          untold |-> (ro.untold \ (gone \cup up \cup down)) \cup failed]
            /\ routes' = ClearHops(rts, gone \cup down)

(* It waits for the end of a pairing window.                                *)
RebalanceOrWait(ro, rts) ==
    IF pairing THEN roster' = ro /\ routes' = rts ELSE Rebalance(ro, rts)

RebalanceTick ==
    /\ ~pairing
    /\ Rebalance(roster, routes)
    /\ UNCHANGED <<conns, failover, marks, pairing>>

(* team_leader_relay_config_retry_tick, while the links take it             *)
RetryTick ==
    \E reached \in SUBSET roster.untold :
        /\ roster' = [roster EXCEPT !.untold = (@ \cap roster.online) \ reached]
        /\ UNCHANGED <<conns, routes, failover, marks, pairing>>
-----------------------------------------------------------------------------
(* Members go.                                                              *)

(* team_leader_mark_member_offline of a member that is online, and what is  *)
(* left of the routes when its caller is done.                              *)
MarkOffline(m, f, before, left) ==
    LET ro == [roster EXCEPT !.online = @ \ {m}, !.relays = @ \ {m}]
    IN  IF m \in roster.relays
        THEN failover' = Begin(f, before, m) /\ RebalanceOrWait(ro, ClearHops(left, {m}))
        ELSE failover' = f /\ roster' = ro /\ routes' = ClearHops(left, {m})

(* An alert with reason LEAVE over connection k.                            *)
Leave(k, m) ==
    LET cs == Bound(conns, k)
        rts == Noted(routes, m, k, cs[k].peer)
    IN  /\ Held(conns, k) /\ m \in roster.online
        /\ m # conns[k].peer => conns[k].peer \in Fit
        /\ conns' = cs
        /\ MarkOffline(m, WatchAfter(roster, cs, failover, m, k, cs[k].peer), rts, rts)
        /\ UNCHANGED <<marks, pairing>>

(* sle_team_prune_stale_members: the grant of an expired relay is left to   *)
(* the rebalance.                                                           *)
Expire(m) ==
    LET ro == [roster EXCEPT !.online = @ \ {m}]
    IN  /\ m \in roster.online
        /\ ~(Window(failover) /\ m \in failover.watched)
        /\ IF m \in roster.relays
           THEN failover' = Begin(failover, routes, m) /\ RebalanceOrWait(ro, routes)
           ELSE roster' = ro /\ UNCHANGED <<routes, failover>>
        /\ UNCHANGED <<conns, marks, pairing>>

(* A disconnected member that was offline already, unless it had left, and  *)
(* then nothing but the routes over the connection is touched.              *)
LostAgain(m, k) ==
    /\ roster' = [roster EXCEPT !.relays = @ \ {m}]
    /\ routes' = ClearHops(ClearConn(routes, k), {m})

(* The marks of planned disconnects that fit connection k or member m.  The *)
(* first of them is renewed (team_leader_direct_prune_mark) or, without     *)
(* one, the first free place taken; a free place counts as that of          *)
(* connection 0.  team_leader_direct_prune_consume drops the first.         *)
Fitting(k, m) == {i \in DOMAIN marks : marks[i].conn = k \/ marks[i].member = m}
First(places) == {i \in places : \A j \in places : i =< j}
Unmarked(ms, places) == Restrict(ms, DOMAIN ms \ places)

MarkedAt(k, m) ==
    LET free == Place \ DOMAIN marks
        fit == Fitting(k, m)
    IN  {First(IF fit # {} THEN fit ELSE free), First(fit \cup free)}
Marked(at, k, m) ==
    [i \in DOMAIN marks \cup at |-> IF i \in at THEN [conn |-> k, member |-> m] ELSE marks[i]]

(* team_connection_state_changed_cbk: a disconnect the leader planned for   *)
(* this connection or this member is not a loss.                            *)
LinkDown(k) ==
    LET m == conns[k].peer
        planned == Fitting(k, m)
    IN  /\ Held(conns, k)
        /\ conns' = [conns EXCEPT ![k] = NoLink]
        /\ marks' = Unmarked(marks, First(planned))
        /\ IF planned = {} /\ m \in roster.online
           THEN MarkOffline(m, failover, routes, ClearConn(routes, k))
           ELSE /\ \/ UNCHANGED roster /\ routes' = ClearConn(routes, k)
                   \/ planned = {} /\ LostAgain(m, k)
                /\ UNCHANGED failover
        /\ UNCHANGED pairing

(* The link client drops a connection whose signal it cannot read; nobody   *)
(* calls back.                                                              *)
Dropped(k) ==
    /\ Held(conns, k)
    /\ conns' = [conns EXCEPT ![k] = NoLink]
    /\ UNCHANGED <<roster, routes, failover, marks, pairing>>
-----------------------------------------------------------------------------
(* Members come, and say where they are.                                    *)

LinkUp(k, m) ==
    /\ ~Held(conns, k)
    /\ conns' = [conns EXCEPT ![k] = [peer |-> m, bound |-> FALSE, cut |-> FALSE]]
    /\ UNCHANGED <<roster, routes, failover, marks, pairing>>

(* team_bind_packet_source: the next hop of a packet is whoever is at the   *)
(* other end, but a peer's own route update says another, any other: its    *)
(* body is read from the stack of a function that returned (RelayForward).  *)
(* A member that was never a relay passes nothing on.                       *)
Packet(k, m, hop) ==
    LET cs == Bound(conns, k)
    IN  /\ Held(conns, k)
        /\ m # conns[k].peer => conns[k].peer \in Fit
        /\ conns' = cs
        /\ routes' = Noted(routes, m, k, hop)
        /\ failover' = WatchAfter(roster, cs, failover, m, k, hop)
        /\ UNCHANGED <<marks, pairing>>

Report(k, m) ==
    /\ Packet(k, m, conns[k].peer)
    /\ roster' = [roster EXCEPT !.online = @ \cup {m}]

RouteUpdate(k, m, hop) ==
    /\ hop # conns[k].peer => m = conns[k].peer
    /\ Packet(k, m, hop)
    /\ UNCHANGED roster

PairingWindow == pairing' = ~pairing /\ UNCHANGED <<roster, conns, routes, failover, marks>>

Second ==
    /\ Window(failover)
    /\ failover' = [failover EXCEPT !.age = @ + 1]
    /\ UNCHANGED <<roster, conns, routes, marks, pairing>>

(* team_leader_failover_window_active, once the grace is over               *)
WindowEnds ==
    /\ failover.lost # Nobody /\ failover.age > Grace
    /\ failover' = NoFailover
    /\ UNCHANGED <<roster, conns, routes, marks, pairing>>
-----------------------------------------------------------------------------
(* Where members should be.                                                 *)

(* team_leader_member_should_stay_direct *)
StayDirect(m) ==
    LET leaves == roster.online \ roster.relays
        count == Cardinality(OnlineRelays(roster))
    IN  \/ m \in roster.relays
        \/ Kids(routes, conns, m) # {}
        \/ count < Cap /\ Cardinality({c \in leaves : c =< m}) =< Cap - count

(* team_leader_select_relay_parent: the relay its route goes through, or    *)
(* one that its id and the order of the table select.                       *)
Parents(m) ==
    LET relays == OnlineRelays(roster) \ {m}
    IN  IF m \in DOMAIN routes /\ routes[m].hop \in relays THEN {routes[m].hop} ELSE relays

(* team_leader_desired_parent_for_member *)
Desired(m) == IF StayDirect(m) \/ Parents(m) = {} THEN {Leader} ELSE Parents(m)

(* team_leader_reconcile_online_routes, one member: a route is put where it *)
(* should be if there is none over a connection that is up.                 *)
Reconcile(m) ==
    /\ m \in roster.online
    /\ m \in DOMAIN routes => ~Held(conns, routes[m].conn)
    /\ \E p \in Desired(m) :
         /\ p # Leader => Ready(roster, conns, p)
         /\ \E k \in ConnsOf(conns, IF p = Leader THEN m ELSE p) :
              /\ routes' = Noted(routes, m, k, p)
              /\ failover' = WatchAfter(roster, conns, failover, m, k, p)
    /\ UNCHANGED <<roster, conns, marks, pairing>>

(* team_leader_route_parent_matches *)
AtParent(m, p) ==
    /\ m \in DOMAIN routes /\ routes[m].hop = p
    /\ Physical(conns, m, routes[m].conn, p)

(* team_leader_enforce_direct_capacity, one connection of its loop: a member *)
(* that should be under a relay and is not there is told to go there, and   *)
(* its link is cut.                                                         *)
Enforce(k) ==
    LET m == conns[k].peer
    IN  /\ ~pairing
        /\ Cardinality({j \in Conn : Held(conns, j)}) > Cap
        /\ Held(conns, k) /\ conns[k].bound /\ m \in roster.online
        /\ \E p \in Desired(m) :
             /\ p # Leader
             /\ Window(failover) /\ m \in failover.watched => Ready(roster, conns, p)
        /\ \E accepted \in BOOLEAN, at \in MarkedAt(k, m) :
             IF accepted
             THEN /\ marks' = Marked(at, k, m)
                  /\ conns' = [conns EXCEPT ![k].cut = TRUE]
                  /\ routes' = ClearConn(routes, k)
             ELSE marks' = Unmarked(marks, at) /\ UNCHANGED <<conns, routes>>
        /\ UNCHANGED <<roster, failover, pairing>>
-----------------------------------------------------------------------------
MemberSpeaks(k, m) == \/ Report(k, m) \/ Leave(k, m)
                      \/ \E hop \in Member \cup {Leader} : RouteUpdate(k, m, hop)

RoutesNext ==
    \/ RebalanceTick \/ RetryTick \/ PairingWindow \/ Second \/ WindowEnds
    \/ \E k \in Conn : LinkDown(k) \/ Dropped(k) \/ Enforce(k)
    \/ \E m \in Member : Expire(m) \/ Reconcile(m)
    \/ \E k \in Conn, m \in Member : LinkUp(k, m) \/ MemberSpeaks(k, m)

RoutesSpec == RoutesInit /\ [][RoutesNext]_routeVars
-----------------------------------------------------------------------------
(* A failover is on exactly while it has someone to watch, and never        *)
(* watches the relay that was lost.                                         *)
FailoverAgrees ==
    /\ failover.lost = Nobody <=> failover.watched = {}
    /\ failover.lost \notin failover.watched

(* What holds of roster, routes, connections and failover in every state.   *)
RoutesSafety == RoutesTypeOK /\ FailoverAgrees

(* "clearing stale routes through the lost relay instead of preserving dead *)
(* next-hop routes" (versions/v4.4.130/VERSION.md:18): with the loss of a   *)
(* relay go the routes through it, whichever way the leader learns of it.   *)
LostRelayCleared ==
    [][\A m \in OnlineRelays(roster) :
          m \notin roster'.online /\ ~pairing => \A c \in DOMAIN routes' : routes'[c].hop # m]_routeVars

(* "duplicate offline callbacks do not restart the grace window"            *)
(* (versions/v4.4.130/VERSION.md:19), however often the relay is lost.      *)
DuplicateKeepsGrace ==
    [][Window(failover) /\ failover'.lost = failover.lost => failover'.age >= failover.age]_routeVars

(* "Relay failover recovery also waits for the physical parent check before *)
(* clearing the failover watch" (versions/v4.4.76/VERSION.md:43): within    *)
(* the grace of a loss, and until another relay goes, a member that stays   *)
(* is watched until it has a route whose connection is held by the next hop *)
(* the route names.                                                         *)
RecoveredIsPhysical ==
    [][\A m \in failover.watched \ failover'.watched :
          \/ ~Window(failover) \/ OnlineRelays(roster) \ roster'.online # {}
          \/ m \notin roster'.online
          \/ m \in DOMAIN routes' /\ Physical(conns', m, routes'[m].conn, routes'[m].hop)]_routeVars

(* A watch is neither renewed nor given up for anything but what happens to *)
(* the relay it is for and to the member it watches.                        *)
WatchIsKept == DuplicateKeepsGrace /\ RecoveredIsPhysical

-----------------------------------------------------------------------------
(* The same, while a pairing window is open.                                *)
LostRelayAlwaysCleared ==
    [][\A m \in OnlineRelays(roster) :
          m \notin roster'.online => \A c \in DOMAIN routes' \ {m} : routes'[c].hop # m]_routeVars

(* "When a relay goes offline, team_leader_failover_begin() records         *)
(* children that were routed through the lost relay"                        *)
(* (versions/v4.4.67/VERSION.md:83).                                        *)
ChildrenAreWatched ==
    [][\A m \in OnlineRelays(roster), c \in Member :
          m \notin roster'.online /\ c # m /\ c \in DOMAIN routes /\ routes[c].hop = m
          => c \in failover'.watched]_routeVars

(* "Leader direct-cap pruning now requires both logical and physical        *)
(* confirmation: the route must match the desired parent and the packet     *)
(* must arrive through the desired relay connection"                        *)
(* (versions/v4.4.76/VERSION.md:39).                                        *)
CutIsConfirmed ==
    [][\A k \in Conn : ~conns[k].cut /\ conns'[k].cut =>
          \E p \in OnlineRelays(roster) : AtParent(conns[k].peer, p)]_routeVars
=============================================================================
