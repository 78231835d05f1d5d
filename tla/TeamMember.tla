---------------------------- MODULE TeamMember -----------------------------
(***************************************************************************)
(* The member side of src/sle_team_node.c, driven by the upstream links of *)
(* the WS63 adapter (xc/ws63_team_network/src/ws63_team_network_app.c):     *)
(* how a member selects a leader, joins, notices a silent leader or parent,*)
(* moves to another parent, leaves, and when it may act as a relay.        *)
(*                                                                         *)
(* node[m] is the part of sle_team_node_t these decisions read, and the    *)
(* operators on it are the functions on that struct.  links[m] are the     *)
(* connections to m's SLE server, its physical upstream, as team_conn_track*)
(* sees them: id is the peer m takes the connection for.                   *)
(***************************************************************************)
EXTENDS TeamTypes, Integers

CONSTANTS
    Device,             \* the members modelled here; the others are just peers
    LeaderTimeout,      \* cfg.heartbeat_timeout_s of a member, 0: never
    ParentTimeout,      \* cfg.parent_timeout_s, 0: never
    HelloInterval,      \* the 3 s between two HELLOs of a node not joined
    BeatInterval        \* cfg.heartbeat_interval_s of a member

ASSUME MemberAssumption ==
    /\ Device \subseteq Member
    /\ LeaderTimeout \in Nat
    /\ ParentTimeout \in Nat
    /\ HelloInterval \in Nat \ {0}
    /\ BeatInterval \in Nat \ {0}

VARIABLES
    node,               \* [Device -> MemberState]
    links,              \* [Device -> SUBSET Track]
    out                 \* the packets the transport accepted in the last step

memberVars == <<node, links, out>>

(* The timers: seconds since a time stamp, saturating where they no longer  *)
(* matter.  A time stamp of 0 says "never"; one that gates a transmission   *)
(* is then due.                                                             *)
Never == -1
SilenceAge == Never .. LeaderTimeout + 1
ParentAge == Never .. ParentTimeout + 1

Ageing(age, last) == IF age \in {Never, last} THEN age ELSE age + 1

MemberState ==
    [net : {"IDLE", "DISCOVERING", "JOINING", "ONLINE"},      \* state
     leader : {Leader, NoNode},                               \* cfg.leader_id
     joined : BOOLEAN,
     parent : Node \cup {NoNode},                             \* upstream_parent_id
     link : {"IDLE", "DISCOVERING", "CONNECTED", "RESELECTING"},
     reselect : BOOLEAN,                                      \* ..._reselect_pending
     granted : BOOLEAN,                                       \* cfg.relay_allowed
     enabled : BOOLEAN,                                       \* cfg.relay_enabled
     hidden : BOOLEAN,                                        \* cfg.relay_discovery_only
     heard : SilenceAge,                                      \* now - last_leader_seen_s
     parentAge : ParentAge,                                   \* now - last_parent_seen_s
     helloAge : 0 .. HelloInterval,                           \* now - last_hello_s
     beatAge : 0 .. BeatInterval]                             \* now - last_heartbeat_s

(* The zeroed node of a device that left: it has no role.                   *)
Unconfigured ==
    [net |-> "IDLE", leader |-> NoNode, joined |-> FALSE, parent |-> NoNode,
     link |-> "IDLE", reselect |-> FALSE, granted |-> FALSE, enabled |-> FALSE,
     hidden |-> FALSE, heard |-> Never, parentAge |-> Never,
     helloAge |-> HelloInterval, beatAge |-> BeatInterval]

(* An upstream connection: who the peer is, whom m takes it for, whether    *)
(* that is settled (not provisional, and the server's slot is bound to it), *)
(* and whether a team_conn_track_t still says so.                           *)
Track == [peer : Node, id : Node, sure : BOOLEAN, tracked : BOOLEAN]

MemberTypeOK ==
    /\ node \in [Device -> MemberState]
    /\ links \in [Device -> SUBSET Track]
    /\ out \subseteq ToLeader

(* The state sle_team_node_member_select_leader leaves.                     *)
Selected ==
    [Unconfigured EXCEPT !.net = "DISCOVERING", !.leader = Leader, !.link = "DISCOVERING"]

(* A device starts its SLE server when it is first configured, as a member  *)
(* (team_sle_start), and keeps it running.                                  *)
Configured == [Selected EXCEPT !.heard = 0]

MemberInit ==
    /\ node = [m \in Device |-> Configured]
    /\ links = [m \in Device |-> {}]
    /\ out = {}
-----------------------------------------------------------------------------
(* Operations on a node.                                                    *)

IsRelay(p) == p \notin {NoNode, Leader}

(* sle_team_node_set_parent_state *)
SetParent(n, p, state, pending) ==
    [n EXCEPT !.parent = p, !.link = state, !.reselect = pending,
              !.parentAge = IF p = NoNode THEN Never
                            ELSE IF state = "CONNECTED" /\ ~pending THEN 0 ELSE @]

(* sle_team_member_has_reselect_target: told to move to a relay, and not    *)
(* there yet.                                                               *)
HasTarget(n) == n.link = "RESELECTING" /\ n.reselect /\ IsRelay(n.parent)

(* last_hello_s, last_heartbeat_s and last_parent_seen_s set to 0.          *)
TimersCleared(n) ==
    [n EXCEPT !.parentAge = Never, !.helloAge = HelloInterval, !.beatAge = BeatInterval]

(* sle_team_member_recover_link of a node that has a leader: leave the team *)
(* for a rejoin; the relay stops but keeps its permission.                  *)
RecoverStillOnline(n) ==
    [TimersCleared(SetParent(n, n.parent, "RESELECTING", TRUE)) EXCEPT
        !.joined = FALSE, !.enabled = FALSE, !.heard = Never]

Recover(n) ==
    [TimersCleared(SetParent(n, n.parent, "RESELECTING", TRUE)) EXCEPT
        !.joined = FALSE, !.net = "DISCOVERING", !.enabled = FALSE, !.heard = Never]

(* sle_team_node_try_parent_switch; told says whether its HELLO was sent.   *)
CanSwitch(n) == n.joined /\ IsRelay(n.parent)

SwitchParent(n, told) ==
    LET asking == SetParent(n, n.parent, "RESELECTING", TRUE)
    IN  IF told THEN [asking EXCEPT !.parent = NoNode, !.parentAge = Never] ELSE asking

(* team_upstream_parent_note: the physical upstream is p.                   *)
NoteParent(n, p) ==
    [n EXCEPT !.parent = p, !.link = "CONNECTED", !.reselect = FALSE, !.parentAge = 0]

(* team_upstream_parent_reset *)
ResetParent(n) == [n EXCEPT !.link = "RESELECTING", !.reselect = TRUE]

(* team_member_upstream_prepare_retry, once the upstream was missing for    *)
(* SLE_TEAM_MEMBER_UPSTREAM_STUCK_S.                                        *)
PrepareRetry(n) ==
    LET fresh == IF n.joined THEN n
                 ELSE [n EXCEPT !.net = "DISCOVERING", !.helloAge = HelloInterval]
    IN  IF n.parent # NoNode THEN ResetParent(fresh)
        ELSE [fresh EXCEPT !.link = "DISCOVERING", !.reselect = FALSE]

(* team_sle_send of a packet to the leader: it needs an upstream            *)
(* connection, and while a target is pending it must be the target's.       *)
CanReach(n, tracks) ==
    /\ tracks # {}
    /\ HasTarget(n) => \E t \in tracks : t.sure /\ t.id = n.parent

(* The node after it tried to send: a transport that has been failing for   *)
(* long (team_member_upstream_recover_after_tx_fail) also resets the link.  *)
AfterSend(n, tracks, accepted) ==
    IF accepted \/ (tracks # {} /\ ~CanReach(n, tracks)) THEN {n} ELSE {n, PrepareRetry(n)}

(* Whether a send is accepted: not surely, even where it can be.            *)
Accepted(n, tracks) == IF CanReach(n, tracks) THEN BOOLEAN ELSE {FALSE}

When(cond, packet) == IF cond THEN {packet} ELSE {}

(* The outcomes of sending packet to the leader.                            *)
Unmoved(n) == [node |-> n, out |-> {}]

Attempt(n, tracks, packet) ==
    UNION {{[node |-> tried, out |-> When(accepted, packet)] :
                tried \in AfterSend(n, tracks, accepted)} : accepted \in Accepted(n, tracks)}
-----------------------------------------------------------------------------
(* The packet handlers on a node.                                           *)

(* sle_team_handle_config.  relay_enabled follows the grant only once the   *)
(* member has joined.  The time-out a CONFIG carries is the leader's own,   *)
(* built from the same CONFIG_SLE_TEAM_HEARTBEAT_TIMEOUT_S.                 *)
OnConfig(n, p) ==
    LET told == [n EXCEPT !.granted = p.grant, !.hidden = p.hidden,
                          !.enabled = n.joined /\ p.grant, !.heard = 0]
        parent == IF n.parent = NoNode THEN Leader ELSE n.parent
    IN  IF HasTarget(n) THEN told
        ELSE [SetParent(told, parent, "CONNECTED", FALSE) EXCEPT !.parentAge = 0]

(* sle_team_handle_ack up to on_joined.                                     *)
AckUnheard(n) ==
    LET parent == IF n.parent = NoNode THEN Leader ELSE n.parent
    IN  [SetParent(n, parent, "CONNECTED", FALSE) EXCEPT
            !.joined = TRUE, !.net = "ONLINE", !.enabled = n.granted, !.parentAge = 0]

AckUnguarded(n) ==
    LET parent == IF n.parent = NoNode THEN Leader ELSE n.parent
    IN  [SetParent(n, parent, "CONNECTED", FALSE) EXCEPT
            !.joined = TRUE, !.net = "ONLINE", !.enabled = n.granted,
            !.heard = 0, !.parentAge = 0]

OnAck(n) ==
    IF HasTarget(n) THEN [n EXCEPT !.heard = 0] ELSE AckUnguarded(n)

(* sle_team_handle_route_update *)
OnRouteUpdate(n, p) ==
    LET heard == [n EXCEPT !.heard = 0, !.enabled = n.granted]
    IN  IF p.reselect /\ IsRelay(p.parent)
        THEN [TimersCleared(SetParent(heard, p.parent, "RESELECTING", TRUE)) EXCEPT
                !.joined = FALSE, !.net = "DISCOVERING"]
        ELSE IF n.parent \in {Leader, NoNode} THEN NoteParent(heard, Leader)
        ELSE heard

(* sle_team_node_on_packet: what reaches a handler.  A relay in discovery-  *)
(* only mode does not listen to broadcasts other than control packets.      *)
Heeds(m, n, p) ==
    \/ p.dst = m
    \/ p.dst = Broadcast /\ ~n.hidden

Handle(n, p) ==
    CASE p.type = "ACK" -> OnAck(n)
      [] p.type = "CONFIG" -> OnConfig(n, p)
      [] p.type = "ROUTE_UPDATE" -> OnRouteUpdate(n, p)
      [] p.type = "HEARTBEAT" -> [n EXCEPT !.heard = 0]
      [] p.type = "ALERT" -> n

(* team_conn_track_note_packet on a connection whose id is provisional:     *)
(* every packet that comes down has the leader as its source, so the peer   *)
(* is taken for the leader, or for the target the member waits for.  A      *)
(* track made only now is not provisional, and the leader's.                *)
IdentifyAsParent(n, t) ==
    IF t.sure /\ t.tracked THEN t
    ELSE [t EXCEPT !.sure = TRUE, !.tracked = TRUE, !.id = n.parent]

Identify(n, t) ==
    IF t.sure /\ t.tracked THEN t
    ELSE [t EXCEPT !.sure = TRUE, !.tracked = TRUE,
                   !.id = IF t.tracked /\ HasTarget(n) THEN n.parent ELSE Leader]

(* team_bind_packet_source: the peer of the connection a packet came in on  *)
(* becomes the parent, unless it is the leader and a target is pending.     *)
Bind(n, t) == IF t.id = Leader /\ HasTarget(n) THEN n ELSE NoteParent(n, t.id)
-----------------------------------------------------------------------------
(* The operator of the device.                                              *)

(* team_configure_role of a device without a role: team_node_init also      *)
(* forgets the tracks of the connections, which the server keeps.           *)
Configure(m) ==
    /\ node[m].net = "IDLE"
    /\ node' = [node EXCEPT ![m] = Configured]
    /\ links' = [links EXCEPT ![m] = {[t EXCEPT !.tracked = FALSE] : t \in @}]
    /\ out' = {}

(* /api/member/select *)
Select(m) ==
    /\ node[m].net # "IDLE"
    /\ \E o \in Attempt(Selected, links[m], Hello(m, Leader)) :
          node' = [node EXCEPT ![m] = o.node] /\ out' = o.out
    /\ UNCHANGED links

(* /api/member/leave and the CLI's leave: sle_team_node_member_leave, then  *)
(* team_member_reset_after_leave zeroes the node.  Connections stay.        *)
Leave(m) ==
    /\ node[m].net # "IDLE"
    /\ \E accepted \in Accepted(node[m], links[m]) :
          out' = When(node[m].joined /\ accepted, Alert(m, Leader, m, "LEAVE"))
    /\ node' = [node EXCEPT ![m] = Unconfigured]
    /\ UNCHANGED links
-----------------------------------------------------------------------------
(* The upstream connections (team_connection_state_changed_cbk).            *)

LinkUp(m, p) ==
    /\ p # m
    /\ \A t \in links[m] : t.peer # p
    /\ links' = [links EXCEPT ![m] = @ \cup {[peer |-> p, id |-> p, sure |-> FALSE, tracked |-> TRUE]}]
    /\ node' = [node EXCEPT ![m] = NoteParent(@, p)]
    /\ out' = {}

(* A joined member whose parent's connection goes asks for a new parent or, *)
(* when it cannot, starts over.  (team_upstream_parent_reset, which follows,*)
(* finds the reselection already pending.)  A connection without a track is *)
(* that of its address's id.                                                *)
LinkDown(m, t) ==
    LET n == node[m]
        rest == links[m] \ {t}
        asking == SwitchParent(n, FALSE)
        id == IF t.tracked THEN t.id ELSE t.peer
    IN  /\ t \in links[m]
        /\ links' = [links EXCEPT ![m] = rest]
        /\ IF ~n.joined \/ n.parent \notin {id, NoNode}
           THEN node' = node /\ out' = {}
           ELSE IF ~CanSwitch(n)
           THEN node' = [node EXCEPT ![m] = ResetParent(Recover(n))] /\ out' = {}
           ELSE \E accepted \in Accepted(asking, rest) :
                  /\ out' = When(accepted, Hello(m, Leader))
                  /\ node' = [node EXCEPT ![m] =
                        ResetParent(IF accepted THEN SwitchParent(n, TRUE) ELSE Recover(asking))]

(* team_server_write_cb: packet p comes in on connection t of a configured  *)
(* member (another drops it by its team id).  An ACK that completes the join*)
(* makes on_joined report the parent to the leader.                         *)
Receive(m, t, p) ==
    LET known == Identify(node[m], t)
        bound == Bind(node[m], known)
        tracks == (links[m] \ {t}) \cup {known}
        heeded == Heeds(m, bound, p)
        next == IF heeded THEN Handle(bound, p) ELSE bound
        joins == heeded /\ p.type = "ACK" /\ ~HasTarget(bound)
    IN  /\ t \in links[m]
        /\ node[m].net # "IDLE"
        /\ links' = [links EXCEPT ![m] = tracks]
        /\ IF joins
           THEN \E o \in Attempt(next, tracks, RouteReport(m, next.parent)) :
                  node' = [node EXCEPT ![m] = o.node] /\ out' = o.out
           ELSE node' = [node EXCEPT ![m] = next] /\ out' = {}
-----------------------------------------------------------------------------
(* The main loop of a configured member, in the order of                    *)
(* team_network_tick_role_configured.                                       *)

(* team_member_upstream_recover_tick: without any upstream for long enough. *)
Recovering(n, tracks) == IF tracks = {} THEN {n, PrepareRetry(n)} ELSE {n}

(* team_member_autoselect_parent: the best heard connection becomes the     *)
(* parent when it is much better than the current one, and a joined member  *)
(* reports it.                                                              *)
Autoselect(m, n, tracks) ==
    LET others == {t \in tracks : t.tracked /\ t.id \notin {m, n.parent}}
        again == {t \in tracks : t.tracked /\ t.id = n.parent /\ (n.link # "CONNECTED" \/ n.reselect)}
        Move(p) == IF n.joined THEN Attempt(NoteParent(n, p), tracks, RouteReport(m, p))
                               ELSE {Unmoved(NoteParent(n, p))}
    IN  {Unmoved(n)}
        \cup {Unmoved(NoteParent(n, t.id)) : t \in again}
        \cup UNION {Move(t.id) : t \in others}

(* sle_team_node_tick.                                                      *)
LeaderLostDirect(n) ==
    n.joined /\ ~IsRelay(n.parent) /\ LeaderTimeout # 0 /\ n.heard > LeaderTimeout

LeaderLost(n) ==
    n.joined /\ LeaderTimeout # 0 /\ n.heard > LeaderTimeout

ParentLost(n) ==
    CanSwitch(n) /\ ParentTimeout # 0 /\ n.parentAge > ParentTimeout

Watch(n) == IF LeaderLost(n) THEN Recover(n) ELSE n

SwitchIfLost(m, n, tracks) ==
    IF ~ParentLost(n) THEN {Unmoved(n)}
    ELSE {[node |-> SwitchParent(n, accepted), out |-> When(accepted, Hello(m, Leader))] :
            accepted \in Accepted(SwitchParent(n, FALSE), tracks)}

SayHelloOnce(m, n, tracks) ==
    IF n.net = "JOINING" THEN {Unmoved(n)}
    ELSE {[o EXCEPT !.node.net = "JOINING"] : o \in Attempt(n, tracks, Hello(m, Leader))}

SayHello(m, n, tracks) ==
    IF n.helloAge < HelloInterval THEN {Unmoved(n)}
    ELSE {[o EXCEPT !.node.helloAge = 0, !.node.net = "JOINING"] :
            o \in Attempt(n, tracks, Hello(m, Leader))}

SayHeartbeat(m, n, tracks) ==
    IF n.beatAge < BeatInterval THEN {Unmoved(n)}
    ELSE {[o EXCEPT !.node.beatAge = 0] : o \in Attempt(n, tracks, Heartbeat(m, Leader))}

Speak(m, n, tracks) ==
    IF n.joined THEN SayHeartbeat(m, n, tracks) ELSE SayHello(m, n, tracks)

Tick(m) ==
    /\ node[m].net # "IDLE"
    /\ \E recovered \in Recovering(node[m], links[m]) :
       \E selected \in Autoselect(m, recovered, links[m]) :
       \E switched \in SwitchIfLost(m, Watch(selected.node), links[m]) :
       \E spoken \in Speak(m, switched.node, links[m]) :
          /\ node' = [node EXCEPT ![m] = spoken.node]
          /\ out' = selected.out \cup switched.out \cup spoken.out
    /\ UNCHANGED links

(* One second of m's clock.                                                 *)
Second(m) ==
    /\ node[m].net # "IDLE"
    /\ node' = [node EXCEPT
          ![m].heard = Ageing(@, LeaderTimeout + 1),
          ![m].parentAge = Ageing(@, ParentTimeout + 1),
          ![m].helloAge = Ageing(@, HelloInterval),
          ![m].beatAge = Ageing(@, BeatInterval)]
    /\ out' = {}
    /\ UNCHANGED links
-----------------------------------------------------------------------------
(* What can come down to a member: whatever a leader sends, directly or     *)
(* forwarded by a relay, also what is meant for others.  A leader never     *)
(* tells m to be its own parent, and hides only relays that hold a grant.   *)
Downward ==
    {p \in ToMember :
        /\ p.type = "CONFIG" => (p.hidden => p.grant)
        /\ p.type = "ROUTE_UPDATE" => p.parent # p.dst}

Upstream(m) ==
    \/ \E p \in Node : LinkUp(m, p)
    \/ \E t \in links[m] : LinkDown(m, t)
    \/ \E t \in links[m], p \in Downward : Receive(m, t, p)

Operator(m) == Configure(m) \/ Select(m) \/ Leave(m)

MemberNext == \E m \in Device : Operator(m) \/ Upstream(m) \/ Tick(m) \/ Second(m)

MemberSpec == MemberInit /\ [][MemberNext]_memberVars

(* The main loop and the clock run; once the transport can take a packet    *)
(* again and again, it does.                                                *)
MemberFairness ==
    \A m \in Device :
        /\ WF_memberVars(Tick(m))
        /\ WF_memberVars(Second(m))
        /\ SF_memberVars(Tick(m) /\ out' # {})

FairMemberSpec == MemberSpec /\ MemberFairness
-----------------------------------------------------------------------------
(* A device's network state, its joined flag and its permissions never      *)
(* contradict each other: joined is ONLINE, a relay that is switched on or  *)
(* hidden holds a grant, and a device that left holds nothing.              *)
Consistent(n) ==
    /\ n.joined <=> n.net = "ONLINE"
    /\ n.enabled \/ n.hidden => n.granted
    /\ n.net = "IDLE" => n.leader = NoNode /\ ~n.granted

FlagsAgree == \A m \in Device : Consistent(node[m])

(* A joined member always watches its leader, and a relay it hangs on: no   *)
(* time stamp it needs for that is unset, in which case sle_team_node_tick  *)
(* would never expire it.                                                   *)
Armed(n) ==
    n.joined => /\ n.heard # Never
                /\ IsRelay(n.parent) => n.parentAge # Never

WatchdogsArmed == \A m \in Device : Armed(node[m])

(* src/sle_team_node.c:1074: a member told to move to a relay joins only    *)
(* over a connection it takes for a relay's; an ACK the leader still sends  *)
(* directly is deferred.                                                    *)
RejoinsThroughRelay ==
    [][\A m \in Device :
          HasTarget(node[m]) /\ ~node[m].joined /\ node'[m].joined
            => /\ IsRelay(node'[m].parent)
               /\ \E t \in links'[m] : t.sure /\ t.id = node'[m].parent]_memberVars

(* A leader that fell silent is noticed: a member does not stay joined      *)
(* forever without hearing from its leader again.                           *)
SilenceIsNoticed ==
    \A m \in Device : node[m].joined ~> (~node[m].joined \/ node[m].heard = 0)

(* A member that is out asks to be let in as long as it can reach anyone,   *)
(* whatever interrupted its last attempt.                                   *)
KeepsAsking ==
    \A m \in Device :
        (node[m].net \in {"DISCOVERING", "JOINING"} /\ CanReach(node[m], links[m]))
          ~> \/ Hello(m, Leader) \in out
             \/ node[m].net \in {"IDLE", "ONLINE"}
             \/ ~CanReach(node[m], links[m])
=============================================================================
