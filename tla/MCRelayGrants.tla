--------------------------- MODULE MCRelayGrants ---------------------------
(* An instance of RelayGrants for TLC.                                      *)
EXTENDS RelayGrants

Approving == team.pairing \/ team.waiting # {}

(* One newcomer at a time, one member untold in a failover, and no failover *)
(* in a pairing window.                                                     *)
OneByOne ==
    /\ Cardinality(team.waiting) =< 1
    /\ team.window => Cardinality(untold) =< 1
    /\ ~(team.window /\ team.pairing)

(* The signals of relays matter to swaps: a pair that might be swapped      *)
(* meets a pairing window, newcomers, a failover or one CONFIG that could   *)
(* not be sent, but no two of them at once.                                 *)
OneTrouble ==
    (\E m \in Member : roster[m].rssi = 1) =>
        /\ Cardinality(untold) =< 1
        /\ ~(Approving /\ team.window) /\ ~(Approving /\ untold # {})
        /\ ~(team.window /\ untold # {})

(* With room for both, no relay is wanted: the larger limit comes and goes  *)
(* in a team where nothing else is going on.                                *)
LargeLimitAlone ==
    team.setting = 2 =>
        ~Approving /\ ~team.window /\ untold = {} /\ \A m \in Member : roster[m].rssi # 1

Idle(m) == roster[m].silence = 0 /\ ~roster[m].kids

(* In any trouble, one member at most is silent or has children; none is    *)
(* when a pairing window or a newcomer meets a CONFIG that could not be     *)
(* sent.                                                                    *)
OneActive ==
    /\ Approving \/ team.window \/ untold # {} =>
           \E m \in Member : \A x \in Member \ {m} : Idle(x)
    /\ Approving /\ untold # {} => \A m \in Member : Idle(m)

GrantsBound == OneByOne /\ OneTrouble /\ LargeLimitAlone /\ OneActive
=============================================================================
