---------------------------- MODULE MCTeamLeader ----------------------------
(* TeamLeader with more candidates than slots, so that both tables fill.    *)
EXTENDS TeamLeader, TLC

Symmetric == Permutations(Member)
=============================================================================
