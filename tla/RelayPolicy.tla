---------------------------- MODULE RelayPolicy ----------------------------
(***************************************************************************)
(* How many relays a leader wants (team_leader_relay_budget and            *)
(* team_leader_relay_target_for_member_count of ws63_team_network_app.c):  *)
(* pure arithmetic on the number of members and on how many of them the    *)
(* leader may hold directly.                                               *)
(***************************************************************************)
EXTENDS Naturals

CONSTANTS
    MaxMembers,   \* SLE_TEAM_MAX_MEMBERS
    MaxDirect,    \* SLE_TEAM_MAX_DIRECT_CONNECTIONS, also what a relay holds
    RamRelays,    \* SLE_TEAM_RELAY_MGMT_RAM_BUDGET_BYTES / .._EST_BYTES_PER_RELAY
    DenseMin      \* SLE_TEAM_RELAY_DENSE_MIN

ASSUME PolicyAssumption ==
    /\ MaxMembers \in Nat \ {0}
    /\ MaxDirect \in Nat \ {0}
    /\ RamRelays \in Nat \ {0}
    /\ DenseMin \in Nat

Least(a, b) == IF a < b THEN a ELSE b

CeilDiv(a, b) == (a + b - 1) \div b

(* cfg.max_downstream as the leader's own limit; 0 or too much is no limit. *)
DirectCapacity(setting) == IF setting \in 1 .. MaxDirect THEN setting ELSE MaxDirect

(* Relays are held directly: there are no more of them than direct places.  *)
RelayBudget(cap) ==
    IF MaxMembers =< cap THEN 0
    ELSE Least(Least(CeilDiv(MaxMembers - cap, MaxDirect), Least(RamRelays, MaxMembers)),
               Least(MaxDirect, cap))

(* A leader that may hold all it can wants at least DenseMin, if any.       *)
DenseTarget(cap, wanted) ==
    IF cap >= MaxDirect /\ wanted < DenseMin /\ RelayBudget(cap) >= DenseMin
    THEN DenseMin ELSE wanted

RelayTarget(count, cap) ==
    IF count =< cap THEN 0
    ELSE Least(DenseTarget(cap, CeilDiv(count - cap, MaxDirect)), RelayBudget(cap))
=============================================================================
