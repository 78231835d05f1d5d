--------------------------- MODULE MCLeaderRoutes ---------------------------
(* An instance of LeaderRoutes for TLC.                                     *)
EXTENDS LeaderRoutes, TLC

ConnSymmetry == Permutations(Conn)

(* Two members of whom one may be a relay do everything.  Where a third is  *)
(* needed, two relays and the child of one, only the child's routes vary,   *)
(* it has a link of its own only while it is watched, windows stay closed,  *)
(* relays are told and no link is cut.                                      *)
Third ==
    \/ 3 \in roster.online \cup DOMAIN routes \cup failover.watched
    \/ \E m \in DOMAIN routes : routes[m].hop = 3

OneChild ==
    /\ ~pairing /\ roster.untold = {} /\ DOMAIN marks = {} /\ \A k \in Conn : ~conns[k].cut
    /\ \A m \in Fit \cap DOMAIN routes : routes[m].hop = m

ItsOwn == 3 \notin failover.watched /\ \E k \in Conn : conns[k].peer = 3

OneRelay ==
    /\ 2 \notin roster.relays
    /\ \A m \in DOMAIN routes : routes[m].hop # 2
    /\ 1 \in DOMAIN routes => conns[routes[1].conn].peer # 2

TwoOrThree == ~ItsOwn /\ IF Third THEN OneChild ELSE OneRelay
=============================================================================
