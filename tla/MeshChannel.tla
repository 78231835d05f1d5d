---------------------------- MODULE MeshChannel -----------------------------
(***************************************************************************)
(* What a member may expect of the mesh while nothing in it moves: its     *)
(* request reaches the leader once, and the leader's answer comes back.    *)
(* RelayForward implements it hop by hop.                                  *)
(***************************************************************************)
CONSTANT Member

VARIABLE stage      \* per member, where its request or the answer to it is

ChannelTypeOK == stage \in [Member -> {"idle", "asked", "answered"}]

ChannelInit == stage = [m \in Member |-> "idle"]

Step(m, from, to) == stage[m] = from /\ stage' = [stage EXCEPT ![m] = to]

Ask(m) == Step(m, "idle", "asked")
Answer(m) == Step(m, "asked", "answered")
Hear(m) == Step(m, "answered", "idle")

ChannelNext == \E m \in Member : Ask(m) \/ Answer(m) \/ Hear(m)

ChannelSpec ==
    /\ ChannelInit /\ [][ChannelNext]_stage
    /\ \A m \in Member : WF_stage(Answer(m)) /\ WF_stage(Hear(m))
=============================================================================
