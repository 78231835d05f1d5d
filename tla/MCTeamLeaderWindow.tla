------------------------- MODULE MCTeamLeaderWindow -------------------------
(***************************************************************************)
(* One pairing window of a leader whose operator uses nothing but the      *)
(* window: start, approve, stop.  before remembers, for the property only, *)
(* who was online and heard when the window opened and has neither left    *)
(* nor timed out since.                                                    *)
(***************************************************************************)
EXTENDS TeamLeader

VARIABLE before

WindowInit == LeaderInit /\ before = {}

WindowOperator ==
    \/ PairingStart
    \/ PairingStop
    \/ \E m \in Member, grant \in BOOLEAN : Approve(m, grant)

WindowNext ==
    /\ \/ WindowOperator
       \/ Receive
       \/ \E spared \in SUBSET Member : Tick(spared)
       \/ Second
    /\ before' = IF ~pairing /\ pairing'
                 THEN {m \in online : IsMemberAllowed(m)}
                 ELSE before \cap online'

WindowSpec == WindowInit /\ [][WindowNext]_<<leaderVars, before>>

(* src/sle_team_node.c:766: members that were online before the window      *)
(* opened can keep sending traffic while it is open.  They cannot once one  *)
(* candidate is approved: the allowlist stops being empty, so it is         *)
(* enforced, and they enter it only when the window closes.                *)
WindowKeepsExisting == pairing => \A m \in before : IsMemberAllowed(m)
=============================================================================
