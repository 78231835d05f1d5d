----------------------------- MODULE TeamTypes -----------------------------
(***************************************************************************)
(* What the modules of a team share: the identities of its nodes and the   *)
(* application packets of include/sle_team_packet.h, reduced to the fields *)
(* a receiver decides on.  Sequence numbers, positions, battery levels and *)
(* the wire layout are left out: no handler of src/sle_team_node.c         *)
(* branches on them.                                                       *)
(***************************************************************************)
EXTENDS Naturals

CONSTANTS
    Member,     \* the nodes that may be members of the team
    Leader,     \* the node in the leader role
    NoNode      \* id 0: no node

ASSUME NodesAssumption ==
    /\ Leader \notin Member
    /\ NoNode \notin Member
    /\ Leader # NoNode

Node == Member \cup {Leader}

(* sle_team_app_packet_t, one shape per message type.  A packet whose dst   *)
(* is Broadcast goes to every node (SLE_TEAM_BROADCAST_ID).                *)
Broadcast == "broadcast"

Hello(src, dst) == [type |-> "HELLO", src |-> src, dst |-> dst]

Heartbeat(src, dst) == [type |-> "HEARTBEAT", src |-> src, dst |-> dst]

Position(src, dst) == [type |-> "POS_REPORT", src |-> src, dst |-> dst]

HelloAck(dst) == [type |-> "ACK", src |-> Leader, dst |-> dst]

(* grant is relay_allowed; hidden is RELAY_DISCOVERY_ONLY in reserved.      *)
Config(dst, grant, hidden) ==
    [type |-> "CONFIG", src |-> Leader, dst |-> dst,
     grant |-> grant, hidden |-> hidden]

Alert(src, dst, lost, reason) ==
    [type |-> "ALERT", src |-> src, dst |-> dst, lost |-> lost, reason |-> reason]

(* The leader asks dst to take parent as its upstream node.  reselect says  *)
(* that parent_state is SLE_TEAM_PARENT_RESELECTING; every update a leader  *)
(* sends with a parent_state carries the relay grant flag.                  *)
RouteUpdate(dst, parent, reselect) ==
    [type |-> "ROUTE_UPDATE", src |-> Leader, dst |-> dst,
     parent |-> parent, reselect |-> reselect]

(* What a member reports upward when it settles on a parent: the next hop   *)
(* of its traffic (parent_id is always the leader's).                       *)
RouteReport(src, hop) ==
    [type |-> "ROUTE_UPDATE", src |-> src, dst |-> Leader, hop |-> hop]

(* What a node on the leader's side can receive, and on a member's side.    *)
ToLeader ==
    {Hello(m, Leader) : m \in Member}
    \cup {Heartbeat(m, Leader) : m \in Member}
    \cup {Position(m, Leader) : m \in Member}
    \cup {Alert(m, Leader, m, "LEAVE") : m \in Member}
    \cup {RouteReport(m, h) : m \in Member, h \in Node}

ToMember ==
    {HelloAck(m) : m \in Member}
    \cup {Config(m, g, h) : m \in Member, g \in BOOLEAN, h \in BOOLEAN}
    \cup {RouteUpdate(m, p, r) : m \in Member, p \in Node, r \in BOOLEAN}
    \cup {Heartbeat(Leader, Broadcast)}
    \cup {Alert(Leader, Broadcast, m, "TIMEOUT") : m \in Member}

Packet == ToLeader \cup ToMember
=============================================================================
