--------------------------- MODULE MCRelayForward ---------------------------
(***************************************************************************)
(* An instance of RelayForward for TLC: relays 1 and 2 may be each other's *)
(* parents, member 3 roams between both of them.                           *)
(***************************************************************************)
EXTENDS RelayForward

Roaming == {<<0, 1>>, <<1, 2>>, <<2, 1>>, <<1, 3>>, <<2, 3>>}

(* Relay 1, above or below the other, may carry less than everything.       *)
OneLess == mode[2] = "relay"
=============================================================================
