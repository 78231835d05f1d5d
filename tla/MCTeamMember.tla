---------------------------- MODULE MCTeamMember ----------------------------
(***************************************************************************)
(* One device of TeamMember between a leader and a possible relay, and what *)
(* a comment says of the parent it settles on.                              *)
(***************************************************************************)
EXTENDS TeamMember

(* src/sle_team_node.c:1248: "The real upstream parent is the physical      *)
(* first-hop connection, which the WS63 adapter records from connection     *)
(* tracking and packet ingress."  For a member that hangs on a relay it is  *)
(* not: the first packet that comes down through the relay has the leader   *)
(* as its source, and settles the provisional id of the connection with it. *)
ParentIsPhysical ==
    \A m \in Device :
        node[m].joined /\ node[m].link = "CONNECTED"
            => \E t \in links[m] : t.peer = node[m].parent
=============================================================================
