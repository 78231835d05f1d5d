------------------------- MODULE LeaderRoutes_proofs -------------------------
(***************************************************************************)
(* What LeaderRoutes guarantees for any members and connections, any limit *)
(* of direct links and any grace, whichever grants a rebalance changes and *)
(* whatever a ROUTE_UPDATE names.                                          *)
(***************************************************************************)
EXTENDS LeaderRoutes, TLAPS

Roster == [online : SUBSET Member, relays : SUBSET Member, untold : SUBSET Member]
Route == [conn : Conn, hop : Member \cup {Leader}]
Failover == [lost : Member \cup {Nobody}, watched : SUBSET Member, age : 0 .. Grace + 1]

(* The invariant, of any routes and any failover.                           *)
RoutesOK(rts) == DOMAIN rts \subseteq Member /\ \A m \in DOMAIN rts : rts[m] \in Route
MarksOK(ms) == DOMAIN ms \subseteq Place /\ \A i \in DOMAIN ms : ms[i] \in Mark
FailoverOK(f) == f \in Failover /\ (f.lost = Nobody <=> f.watched = {}) /\ f.lost \notin f.watched

(* Nothing is in the later table that was not in the earlier one.           *)
NoneNew(rts, later) == \A c \in DOMAIN later : c \in DOMAIN rts /\ later[c] = rts[c]
Free(rts, ps) == \A c \in DOMAIN rts : rts[c].hop \notin ps

LEMMA InvParts ==
    RoutesSafety <=> /\ roster \in Roster /\ conns \in [Conn -> Link] /\ RoutesOK(routes)
                     /\ FailoverOK(failover) /\ MarksOK(marks)
                     /\ pairing \in BOOLEAN
  BY DEF RoutesSafety, RoutesTypeOK, FailoverAgrees, RoutesOK, FailoverOK, MarksOK, Roster, Route,
         Failover

LEMMA InvNext ==
    ASSUME roster' \in Roster, conns' \in [Conn -> Link], RoutesOK(routes'), FailoverOK(failover'),
           MarksOK(marks'), pairing' \in BOOLEAN
    PROVE  RoutesSafety'
  BY DEF RoutesSafety, RoutesTypeOK, FailoverAgrees, RoutesOK, FailoverOK, MarksOK, Roster, Route,
         Failover

(* Marking and dropping marks keeps the places.                             *)
LEMMA MarkingFacts ==
    ASSUME MarksOK(marks), NEW at
    PROVE  /\ MarksOK(Unmarked(marks, at))
           /\ \A k \in Conn, m \in Member : at \subseteq Place => MarksOK(Marked(at, k, m))
  BY DEF MarksOK, Unmarked, Marked, Mark, Restrict

LEMMA MarkedAtFacts ==
    ASSUME MarksOK(marks), NEW k, NEW m
    PROVE  MarkedAt(k, m) \subseteq SUBSET Place
  BY DEF MarksOK, MarkedAt, First, Fitting

LEMMA NobodyIsMember == Nobody \notin Member /\ Leader \notin Member
  BY RoutesAssumption DEF Nobody, Leader
-----------------------------------------------------------------------------
(* Routes and connections.                                                  *)

LEMMA RestrictFacts ==
    ASSUME NEW rts, RoutesOK(rts), NEW S \in SUBSET DOMAIN rts
    PROVE  RoutesOK(Restrict(rts, S)) /\ NoneNew(rts, Restrict(rts, S)) /\ DOMAIN Restrict(rts, S) = S
  BY DEF RoutesOK, NoneNew, Restrict

LEMMA ClearHopsFacts ==
    ASSUME NEW rts, RoutesOK(rts), NEW ps
    PROVE  RoutesOK(ClearHops(rts, ps)) /\ NoneNew(rts, ClearHops(rts, ps)) /\ Free(ClearHops(rts, ps), ps)
  <1> DEFINE S == {m \in DOMAIN rts : rts[m].hop \notin ps}
             later == Restrict(rts, S)
  <1>1. RoutesOK(later) /\ NoneNew(rts, later) /\ DOMAIN later = S
    BY RestrictFacts
  <1>2. later = ClearHops(rts, ps)
    BY DEF ClearHops
  <1> HIDE DEF later
  <1>3. Free(later, ps)
    BY <1>1 DEF NoneNew, Free
  <1> QED
    BY <1>1, <1>2, <1>3

LEMMA ClearConnFacts ==
    ASSUME NEW rts, RoutesOK(rts), NEW k
    PROVE  RoutesOK(ClearConn(rts, k)) /\ NoneNew(rts, ClearConn(rts, k))
  BY RestrictFacts DEF ClearConn

LEMMA NotedFacts ==
    ASSUME NEW rts, RoutesOK(rts), NEW m \in Member, NEW k \in Conn, NEW hop \in Member \cup {Leader}
    PROVE  /\ RoutesOK(Noted(rts, m, k, hop))
           /\ m \in DOMAIN Noted(rts, m, k, hop)
           /\ Noted(rts, m, k, hop)[m] = [conn |-> k, hop |-> hop]
  <1> DEFINE later == Noted(rts, m, k, hop)
  <1>1. later = [c \in DOMAIN rts \cup {m} |-> IF c = m THEN [conn |-> k, hop |-> hop] ELSE rts[c]]
    BY DEF Noted
  <1> HIDE DEF later
  <1>2. RoutesOK(later) /\ m \in DOMAIN later /\ later[m] = [conn |-> k, hop |-> hop]
    BY <1>1 DEF RoutesOK, Route
  <1> QED
    BY <1>2 DEF later

LEMMA BoundFacts ==
    ASSUME NEW cs \in [Conn -> Link], NEW k \in Conn
    PROVE  Bound(cs, k) \in [Conn -> Link] /\ Bound(cs, k)[k].peer = cs[k].peer
  <1>1. \A j \in Conn : cs[j] \in Link
    OBVIOUS
  <1>2. \A j \in Conn : /\ [cs[j] EXCEPT !.bound = TRUE] \in Link /\ [cs[j] EXCEPT !.bound = FALSE] \in Link
                        /\ [cs[j] EXCEPT !.bound = TRUE].peer = cs[j].peer
    BY <1>1 DEF Link
  <1> QED
    BY <1>1, <1>2 DEF Bound

LEMMA HeldPeer ==
    ASSUME NEW cs \in [Conn -> Link], NEW k \in Conn, Held(cs, k)
    PROVE  cs[k].peer \in Member
  BY DEF Held, Link

LEMMA NewLink ==
    ASSUME NEW m \in Member \cup {Nobody}
    PROVE  [peer |-> m, bound |-> FALSE, cut |-> FALSE] \in Link
  BY DEF Link
-----------------------------------------------------------------------------
(* The failover.                                                            *)

LEMMA NoFailoverOK == FailoverOK(NoFailover) /\ NoFailover.lost = Nobody /\ NoFailover.watched = {}
  BY RoutesAssumption DEF FailoverOK, NoFailover, Failover

(* What a member that shows up leaves of a failover: as much of the grace   *)
(* as there was, if anyone is watched still.                                *)
LEMMA UnwatchedFacts ==
    ASSUME NEW f, FailoverOK(f), NEW m
    PROVE  /\ FailoverOK(Unwatched(f, m))
           /\ Unwatched(f, m).watched = f.watched \ {m}
           /\ Unwatched(f, m).lost \in {f.lost, Nobody}
           /\ Unwatched(f, m).lost = f.lost => Unwatched(f, m).age = f.age \/ f.lost = Nobody
  <1>1. CASE f.watched \subseteq {m}
    BY <1>1, NoFailoverOK DEF Unwatched
  <1>2. CASE ~(f.watched \subseteq {m})
    <2> DEFINE g == [f EXCEPT !.watched = f.watched \ {m}]
    <2>1. /\ g \in Failover /\ g.lost = f.lost /\ g.age = f.age
          /\ g.watched = f.watched \ {m}
      BY DEF FailoverOK, Failover
    <2>2. Unwatched(f, m) = g
      BY <1>2 DEF Unwatched
    <2> HIDE DEF g
    <2>3. FailoverOK(g)
      BY <1>2, <2>1 DEF FailoverOK
    <2> QED
      BY <2>1, <2>2, <2>3
  <1> QED
    BY <1>1, <1>2

LEMMA WatchAfterFacts ==
    ASSUME NEW ro, NEW cs, NEW f, FailoverOK(f), NEW m, NEW k, NEW hop
    PROVE  /\ FailoverOK(WatchAfter(ro, cs, f, m, k, hop))
           /\ \/ WatchAfter(ro, cs, f, m, k, hop) = f
              \/ /\ WatchAfter(ro, cs, f, m, k, hop) = Unwatched(f, m)
                 /\ m \in f.watched /\ Physical(cs, m, k, hop)
  BY UnwatchedFacts DEF WatchAfter, Recovered

LEMMA BeginFacts ==
    ASSUME NEW f, FailoverOK(f), NEW rts, RoutesOK(rts), NEW m \in Member
    PROVE  /\ FailoverOK(Begin(f, rts, m))
           /\ \/ Begin(f, rts, m) = f
              \/ Begin(f, rts, m).lost = Nobody
              \/ Begin(f, rts, m).lost = m /\ ~(f.lost = m /\ Window(f))
  <1> DEFINE children == {c \in DOMAIN rts \ {m} : rts[c].hop = m}
             g == [lost |-> m, watched |-> children, age |-> 0]
  <1>1. CASE f.lost = m /\ Window(f)
    BY <1>1 DEF Begin
  <1>2. CASE ~(f.lost = m /\ Window(f)) /\ children = {}
    BY <1>2, NoFailoverOK DEF Begin
  <1>3. CASE ~(f.lost = m /\ Window(f)) /\ children # {}
    <2>1. Begin(f, rts, m) = g
      BY <1>3 DEF Begin
    <2>2. children \subseteq Member /\ m \notin children
      BY DEF RoutesOK
    <2> HIDE DEF children
    <2>3. g \in Failover
      BY <2>2, RoutesAssumption DEF Failover
    <2>4. FailoverOK(g)
      BY <1>3, <2>2, <2>3, NobodyIsMember DEF FailoverOK
    <2> QED
      BY <1>3, <2>1, <2>4
  <1> QED
    BY <1>1, <1>2, <1>3
-----------------------------------------------------------------------------
(* Grants, and members that go.                                             *)

LEMMA RebalanceFacts ==
    ASSUME NEW ro \in Roster, NEW rts, RoutesOK(rts), Rebalance(ro, rts)
    PROVE  /\ roster' \in Roster /\ roster'.online = ro.online
           /\ RoutesOK(routes') /\ NoneNew(rts, routes')
           /\ Free(routes', ro.relays \ ro.online)
  <1>1. PICK down \in SUBSET OnlineRelays(ro), up \in SUBSET ro.online, failed \in SUBSET ro.online :
          /\ roster' = [online |-> ro.online,
                        relays |-> ((ro.relays \ (ro.relays \ ro.online)) \ down) \cup up,
                        untold |-> (ro.untold \ ((ro.relays \ ro.online) \cup up \cup down)) \cup failed]
          /\ routes' = ClearHops(rts, (ro.relays \ ro.online) \cup down)
    BY DEF Rebalance
  <1>2. roster' \in Roster /\ roster'.online = ro.online
    BY <1>1 DEF Roster, OnlineRelays
  <1>3. /\ RoutesOK(routes') /\ NoneNew(rts, routes')
        /\ Free(routes', (ro.relays \ ro.online) \cup down)
    BY <1>1, ClearHopsFacts
  <1> QED
    BY <1>2, <1>3 DEF Free

LEMMA RebalanceOrWaitFacts ==
    ASSUME NEW ro \in Roster, NEW rts, RoutesOK(rts), RebalanceOrWait(ro, rts)
    PROVE  /\ roster' \in Roster /\ roster'.online = ro.online
           /\ RoutesOK(routes') /\ NoneNew(rts, routes')
           /\ ~pairing => Free(routes', ro.relays \ ro.online)
  <1>1. CASE pairing
    BY <1>1 DEF RebalanceOrWait, NoneNew
  <1>2. CASE ~pairing
    BY <1>2, RebalanceFacts DEF RebalanceOrWait
  <1> QED
    BY <1>1, <1>2

LEMMA MarkOfflineFacts ==
    ASSUME roster \in Roster, NEW m \in Member, m \in roster.online,
           NEW f, FailoverOK(f), NEW before, RoutesOK(before), NEW left, RoutesOK(left),
           MarkOffline(m, f, before, left)
    PROVE  /\ roster' \in Roster /\ roster'.online = roster.online \ {m}
           /\ RoutesOK(routes') /\ Free(routes', {m})
           /\ \/ m \in roster.relays /\ failover' = Begin(f, before, m)
              \/ m \notin roster.relays /\ failover' = f
  <1> DEFINE ro == [roster EXCEPT !.online = @ \ {m}, !.relays = @ \ {m}]
             rts == ClearHops(left, {m})
  <1>1. ro \in Roster /\ ro.online = roster.online \ {m}
    BY DEF Roster
  <1>2. RoutesOK(rts) /\ Free(rts, {m})
    BY ClearHopsFacts
  <1>3. IF m \in roster.relays
        THEN failover' = Begin(f, before, m) /\ RebalanceOrWait(ro, rts)
        ELSE failover' = f /\ roster' = ro /\ routes' = rts
    BY DEF MarkOffline
  <1> HIDE DEF ro, rts
  <1>4. CASE m \in roster.relays
    <2>1. /\ roster' \in Roster /\ roster'.online = ro.online
          /\ RoutesOK(routes') /\ NoneNew(rts, routes')
      BY <1>1, <1>2, <1>3, <1>4, RebalanceOrWaitFacts
    <2> QED
      BY <1>1, <1>2, <1>3, <1>4, <2>1 DEF Free, NoneNew
  <1>5. CASE m \notin roster.relays
    BY <1>1, <1>2, <1>3, <1>5
  <1> QED
    BY <1>4, <1>5
-----------------------------------------------------------------------------
(* What the properties of a step say, one by one.                           *)
StepClearsLost ==
    \A m \in OnlineRelays(roster) :
          m \notin roster'.online /\ ~pairing => \A c \in DOMAIN routes' : routes'[c].hop # m
StepKeepsGrace == Window(failover) /\ failover'.lost = failover.lost => failover'.age >= failover.age
StepIsPhysical ==
    \A m \in failover.watched \ failover'.watched :
          \/ ~Window(failover) \/ OnlineRelays(roster) \ roster'.online # {}
          \/ m \notin roster'.online
          \/ m \in DOMAIN routes' /\ Physical(conns', m, routes'[m].conn, routes'[m].hop)
StepOK == StepClearsLost /\ StepKeepsGrace /\ StepIsPhysical

(* A step after which no one is offline who was online, and the failover    *)
(* is the same.                                                             *)
LEMMA NobodyGoes ==
    ASSUME RoutesSafety, roster.online \subseteq roster'.online, failover' = failover
    PROVE  StepOK
  <1>1. failover \in Failover
    BY InvParts DEF FailoverOK
  <1>2. StepClearsLost
    BY DEF StepClearsLost, OnlineRelays
  <1>3. StepKeepsGrace
    BY <1>1, RoutesAssumption DEF StepKeepsGrace, Failover
  <1>4. StepIsPhysical
    BY DEF StepIsPhysical
  <1> QED
    BY <1>2, <1>3, <1>4 DEF StepOK

(* A member may leave the watch, by a route it has then.                    *)
LEMMA MemberComesBack ==
    ASSUME RoutesSafety, NEW m, NEW k, NEW hop, NEW ro,
           roster.online \subseteq roster'.online,
           failover' = WatchAfter(ro, conns', failover, m, k, hop),
           m \in DOMAIN routes', routes'[m] = [conn |-> k, hop |-> hop]
    PROVE  FailoverOK(failover') /\ StepOK
  <1>1. FailoverOK(failover)
    BY InvParts
  <1>2. /\ FailoverOK(failover')
        /\ \/ failover' = failover
           \/ /\ failover' = Unwatched(failover, m)
              /\ Physical(conns', m, k, hop)
    BY <1>1, WatchAfterFacts
  <1>3. CASE failover' = failover
    BY <1>2, <1>3, NobodyGoes
  <1>4. CASE failover' = Unwatched(failover, m) /\ Physical(conns', m, k, hop)
    <2>1. /\ failover'.watched = failover.watched \ {m}
          /\ failover'.lost = failover.lost => failover'.age = failover.age \/ failover.lost = Nobody
      BY <1>1, <1>4, UnwatchedFacts
    <2>2. failover.age \in Nat
      BY <1>1, RoutesAssumption DEF FailoverOK, Failover
    <2>3. StepClearsLost
      BY DEF StepClearsLost, OnlineRelays
    <2>4. StepKeepsGrace
      BY <2>1, <2>2 DEF StepKeepsGrace, Window
    <2>5. StepIsPhysical
      BY <1>4, <2>1 DEF StepIsPhysical
    <2> QED
      BY <1>2, <2>3, <2>4, <2>5 DEF StepOK
  <1> QED
    BY <1>2, <1>3, <1>4

(* A member goes, with a failover of its own if it was a relay.             *)
LEMMA MemberGoes ==
    ASSUME RoutesSafety, NEW m \in Member, m \in roster.online,
           roster'.online = roster.online \ {m},
           ~pairing /\ m \in roster.relays => Free(routes', {m}),
           NEW f, FailoverOK(f), NEW before, RoutesOK(before),
           \/ f = failover
           \/ f = Unwatched(failover, m) /\ m \in failover.watched,
           \/ m \in roster.relays /\ failover' = Begin(f, before, m)
           \/ m \notin roster.relays /\ failover' = f
    PROVE  FailoverOK(failover') /\ StepOK
  <1>1. FailoverOK(failover) /\ FailoverOK(failover')
    BY InvParts, BeginFacts
  <1>2. /\ f.watched \in {failover.watched, failover.watched \ {m}}
        /\ f.lost \in {failover.lost, Nobody}
        /\ f.lost = failover.lost => f.age = failover.age \/ failover.lost = Nobody
        /\ f = failover \/ failover.lost # m
    BY <1>1, UnwatchedFacts DEF FailoverOK
  <1>3. failover.age \in Nat
    BY <1>1, RoutesAssumption DEF FailoverOK, Failover
  <1>4. StepClearsLost
    BY DEF StepClearsLost, OnlineRelays, Free
  <1>5. CASE failover' = f
    <2>1. StepKeepsGrace
      BY <1>2, <1>3, <1>5 DEF StepKeepsGrace, Window
    <2>2. StepIsPhysical
      BY <1>2, <1>5 DEF StepIsPhysical
    <2> QED
      BY <1>1, <1>4, <2>1, <2>2 DEF StepOK
  <1>6. CASE m \in roster.relays /\ failover' = Begin(f, before, m)
    <2>1. \/ failover' = f
          \/ failover'.lost = Nobody
          \/ failover'.lost = m /\ ~(f.lost = m /\ Window(f))
      BY <1>6, BeginFacts
    <2>2. StepKeepsGrace
      BY <1>2, <1>3, <2>1 DEF StepKeepsGrace, Window
    <2>3. StepIsPhysical
      BY <1>6 DEF StepIsPhysical, OnlineRelays
    <2> QED
      BY <1>1, <1>4, <2>2, <2>3 DEF StepOK
  <1> QED
    BY <1>5, <1>6
-----------------------------------------------------------------------------
(* The steps.                                                               *)

LEMMA RebalanceTickOK ==
    ASSUME RoutesSafety, RebalanceTick
    PROVE  RoutesSafety' /\ StepOK
  <1>1. /\ roster' \in Roster /\ roster'.online = roster.online /\ RoutesOK(routes')
    BY InvParts, RebalanceFacts DEF RebalanceTick
  <1>2. UNCHANGED <<conns, failover, marks, pairing>>
    BY DEF RebalanceTick
  <1> QED
    BY <1>1, <1>2, InvParts, InvNext, NobodyGoes

LEMMA RetryTickOK ==
    ASSUME RoutesSafety, RetryTick
    PROVE  RoutesSafety' /\ StepOK
  <1>1. roster' \in Roster /\ roster'.online = roster.online
    BY InvParts DEF RetryTick, Roster
  <1>2. UNCHANGED <<conns, routes, failover, marks, pairing>>
    BY DEF RetryTick
  <1> QED
    BY <1>1, <1>2, InvParts, InvNext, NobodyGoes

LEMMA PairingWindowOK ==
    ASSUME RoutesSafety, PairingWindow
    PROVE  RoutesSafety' /\ StepOK
  BY InvParts, InvNext, NobodyGoes DEF PairingWindow

LEMMA SecondOK ==
    ASSUME RoutesSafety, Second
    PROVE  RoutesSafety' /\ StepOK
  <1>1. FailoverOK(failover) /\ UNCHANGED <<roster, conns, routes, marks, pairing>>
    BY InvParts DEF Second
  <1>2. failover.age \in 0 .. Grace /\ failover' = [failover EXCEPT !.age = failover.age + 1]
    BY <1>1, RoutesAssumption DEF Second, Window, FailoverOK, Failover
  <1>3. /\ FailoverOK(failover') /\ failover'.watched = failover.watched
        /\ failover'.age >= failover.age
    BY <1>1, <1>2, RoutesAssumption DEF FailoverOK, Failover
  <1>4. StepOK
    BY <1>1, <1>3 DEF StepOK, StepClearsLost, StepKeepsGrace, StepIsPhysical, OnlineRelays
  <1> QED
    BY <1>1, <1>3, <1>4, InvParts, InvNext

LEMMA WindowEndsOK ==
    ASSUME RoutesSafety, WindowEnds
    PROVE  RoutesSafety' /\ StepOK
  <1>1. /\ failover' = NoFailover /\ failover.age > Grace
        /\ UNCHANGED <<roster, conns, routes, marks, pairing>> /\ FailoverOK(failover)
    BY InvParts DEF WindowEnds
  <1>2. ~Window(failover)
    BY <1>1, RoutesAssumption DEF Window, FailoverOK, Failover
  <1>3. StepOK
    BY <1>1, <1>2 DEF StepOK, StepClearsLost, StepKeepsGrace, StepIsPhysical, OnlineRelays
  <1> QED
    BY <1>1, <1>3, NoFailoverOK, InvParts, InvNext

LEMMA LeaveOK ==
    ASSUME RoutesSafety, NEW k \in Conn, NEW m \in Member, Leave(k, m)
    PROVE  RoutesSafety' /\ StepOK
  <1> DEFINE cs == Bound(conns, k)
             hop == cs[k].peer
             rts == Noted(routes, m, k, hop)
             f == WatchAfter(roster, cs, failover, m, k, hop)
  <1>1. /\ roster \in Roster /\ conns \in [Conn -> Link] /\ RoutesOK(routes) /\ FailoverOK(failover)
        /\ MarksOK(marks) /\ pairing \in BOOLEAN
    BY InvParts
  <1>2. /\ Held(conns, k) /\ m \in roster.online /\ conns' = cs
        /\ MarkOffline(m, f, rts, rts) /\ UNCHANGED <<marks, pairing>>
    BY DEF Leave
  <1>3. cs \in [Conn -> Link] /\ hop \in Member
    BY <1>1, <1>2, BoundFacts, HeldPeer
  <1> HIDE DEF cs, hop
  <1>4. RoutesOK(rts)
    BY <1>1, <1>3, NotedFacts
  <1>5. FailoverOK(f) /\ (f = failover \/ (f = Unwatched(failover, m) /\ m \in failover.watched))
    BY <1>1, WatchAfterFacts
  <1> HIDE DEF rts, f
  <1>6. /\ roster' \in Roster /\ roster'.online = roster.online \ {m}
        /\ RoutesOK(routes') /\ Free(routes', {m})
        /\ \/ m \in roster.relays /\ failover' = Begin(f, rts, m)
           \/ m \notin roster.relays /\ failover' = f
    BY <1>1, <1>2, <1>4, <1>5, MarkOfflineFacts
  <1>7. FailoverOK(failover') /\ StepOK
    BY <1>2, <1>4, <1>5, <1>6, MemberGoes
  <1> QED
    BY <1>1, <1>2, <1>3, <1>6, <1>7, InvNext

LEMMA ExpireOK ==
    ASSUME RoutesSafety, NEW m \in Member, Expire(m)
    PROVE  RoutesSafety' /\ StepOK
  <1> DEFINE ro == [roster EXCEPT !.online = @ \ {m}]
  <1>1. /\ roster \in Roster /\ conns \in [Conn -> Link] /\ RoutesOK(routes) /\ FailoverOK(failover)
        /\ MarksOK(marks) /\ pairing \in BOOLEAN
    BY InvParts
  <1>2. /\ m \in roster.online /\ UNCHANGED <<conns, marks, pairing>>
        /\ IF m \in roster.relays
           THEN failover' = Begin(failover, routes, m) /\ RebalanceOrWait(ro, routes)
           ELSE roster' = ro /\ UNCHANGED <<routes, failover>>
    BY DEF Expire
  <1>3. ro \in Roster /\ ro.online = roster.online \ {m} /\ ro.relays = roster.relays
    BY <1>1 DEF Roster
  <1> HIDE DEF ro
  <1>4. CASE m \in roster.relays
    <2>1. /\ roster' \in Roster /\ roster'.online = roster.online \ {m}
          /\ RoutesOK(routes') /\ (~pairing => Free(routes', ro.relays \ ro.online))
      BY <1>1, <1>2, <1>3, <1>4, RebalanceOrWaitFacts
    <2>2. ~pairing => Free(routes', {m})
      BY <1>3, <1>4, <2>1 DEF Free
    <2>3. FailoverOK(failover') /\ StepOK
      BY <1>1, <1>2, <1>4, <2>1, <2>2, MemberGoes
    <2> QED
      BY <1>1, <1>2, <2>1, <2>3, InvNext
  <1>5. CASE m \notin roster.relays
    <2>1. FailoverOK(failover') /\ StepOK
      BY <1>1, <1>2, <1>3, <1>5, MemberGoes
    <2> QED
      BY <1>1, <1>2, <1>3, <1>5, <2>1, InvNext
  <1> QED
    BY <1>4, <1>5

LEMMA LinkDownOK ==
    ASSUME RoutesSafety, NEW k \in Conn, LinkDown(k)
    PROVE  RoutesSafety' /\ StepOK
  <1> DEFINE m == conns[k].peer
  <1>1. /\ roster \in Roster /\ conns \in [Conn -> Link] /\ RoutesOK(routes) /\ FailoverOK(failover)
        /\ MarksOK(marks) /\ pairing \in BOOLEAN
    BY InvParts
  <1>2. /\ Held(conns, k) /\ conns' = [conns EXCEPT ![k] = NoLink] /\ UNCHANGED pairing
        /\ marks' = Unmarked(marks, First(Fitting(k, m)))
        /\ \/ m \in roster.online /\ MarkOffline(m, failover, routes, ClearConn(routes, k))
           \/ /\ UNCHANGED failover
              /\ (UNCHANGED roster /\ routes' = ClearConn(routes, k)) \/ LostAgain(m, k)
    BY DEF LinkDown
  <1>3. m \in Member
    BY <1>1, <1>2, HeldPeer
  <1>4. conns' \in [Conn -> Link] /\ MarksOK(marks')
    <2>1. MarksOK(marks')
      BY <1>1, <1>2, MarkingFacts
    <2> QED
      BY <1>1, <1>2, <2>1, NewLink DEF NoLink
  <1>5. RoutesOK(ClearConn(routes, k))
    BY <1>1, ClearConnFacts
  <1> HIDE DEF m
  <1>6. CASE m \in roster.online /\ MarkOffline(m, failover, routes, ClearConn(routes, k))
    <2>1. /\ roster' \in Roster /\ roster'.online = roster.online \ {m}
          /\ RoutesOK(routes') /\ Free(routes', {m})
          /\ \/ m \in roster.relays /\ failover' = Begin(failover, routes, m)
             \/ m \notin roster.relays /\ failover' = failover
      BY <1>1, <1>3, <1>5, <1>6, MarkOfflineFacts
    <2>2. FailoverOK(failover') /\ StepOK
      BY <1>1, <1>3, <1>6, <2>1, MemberGoes
    <2> QED
      BY <1>1, <1>2, <1>4, <2>1, <2>2, InvNext
  <1>7. CASE UNCHANGED failover /\ UNCHANGED roster /\ routes' = ClearConn(routes, k)
    BY <1>1, <1>2, <1>4, <1>5, <1>7, InvNext, NobodyGoes
  <1>8. CASE UNCHANGED failover /\ LostAgain(m, k)
    <2>1. roster' \in Roster /\ roster'.online = roster.online
      BY <1>1, <1>8 DEF LostAgain, Roster
    <2>2. RoutesOK(routes')
      BY <1>5, <1>8, ClearHopsFacts DEF LostAgain
    <2> QED
      BY <1>1, <1>2, <1>4, <1>8, <2>1, <2>2, InvNext, NobodyGoes
  <1> QED
    BY <1>2, <1>6, <1>7, <1>8

LEMMA DroppedOK ==
    ASSUME RoutesSafety, NEW k \in Conn, Dropped(k)
    PROVE  RoutesSafety' /\ StepOK
  <1>1. conns' \in [Conn -> Link]
    BY InvParts, NewLink DEF Dropped, NoLink
  <1> QED
    BY <1>1, InvParts, InvNext, NobodyGoes DEF Dropped

LEMMA LinkUpOK ==
    ASSUME RoutesSafety, NEW k \in Conn, NEW m \in Member, LinkUp(k, m)
    PROVE  RoutesSafety' /\ StepOK
  <1>1. conns' \in [Conn -> Link]
    BY InvParts, NewLink DEF LinkUp
  <1> QED
    BY <1>1, InvParts, InvNext, NobodyGoes DEF LinkUp

LEMMA PacketOK ==
    ASSUME RoutesSafety, NEW k \in Conn, NEW m \in Member, NEW hop \in Member \cup {Leader},
           Packet(k, m, hop), roster' \in Roster, roster.online \subseteq roster'.online
    PROVE  RoutesSafety' /\ StepOK
  <1> DEFINE cs == Bound(conns, k)
  <1>1. conns \in [Conn -> Link] /\ RoutesOK(routes)
    BY InvParts
  <1>2. /\ conns' = cs /\ routes' = Noted(routes, m, k, hop)
        /\ failover' = WatchAfter(roster, cs, failover, m, k, hop)
        /\ UNCHANGED <<marks, pairing>>
    BY DEF Packet
  <1>3. conns' \in [Conn -> Link]
    BY <1>1, <1>2, BoundFacts
  <1> HIDE DEF cs
  <1>4. /\ RoutesOK(routes') /\ m \in DOMAIN routes' /\ routes'[m] = [conn |-> k, hop |-> hop]
    BY <1>1, <1>2, NotedFacts
  <1>5. FailoverOK(failover') /\ StepOK
    BY <1>2, <1>4, MemberComesBack
  <1> QED
    BY <1>2, <1>3, <1>4, <1>5, InvParts, InvNext

LEMMA ReportOK ==
    ASSUME RoutesSafety, NEW k \in Conn, NEW m \in Member, Report(k, m)
    PROVE  RoutesSafety' /\ StepOK
  <1>1. conns[k].peer \in Member
    BY InvParts, HeldPeer DEF Report, Packet
  <1>2. roster' \in Roster /\ roster.online \subseteq roster'.online
    BY InvParts DEF Report, Roster
  <1> QED
    BY <1>1, <1>2, PacketOK DEF Report

LEMMA RouteUpdateOK ==
    ASSUME RoutesSafety, NEW k \in Conn, NEW m \in Member, NEW hop \in Member \cup {Leader},
           RouteUpdate(k, m, hop)
    PROVE  RoutesSafety' /\ StepOK
  BY InvParts, PacketOK DEF RouteUpdate

LEMMA ReconcileOK ==
    ASSUME RoutesSafety, NEW m \in Member, Reconcile(m)
    PROVE  RoutesSafety' /\ StepOK
  <1>1. RoutesOK(routes) /\ UNCHANGED <<roster, conns, marks, pairing>>
    BY InvParts DEF Reconcile
  <1>2. PICK p \in Desired(m), k \in Conn :
          routes' = Noted(routes, m, k, p) /\ failover' = WatchAfter(roster, conns, failover, m, k, p)
    BY DEF Reconcile, ConnsOf
  <1>3. p \in Member \cup {Leader}
    <2>1. Parents(m) \subseteq Member
      BY InvParts DEF Parents, OnlineRelays, Roster
    <2> QED
      BY <2>1 DEF Desired
  <1>4. RoutesOK(routes') /\ m \in DOMAIN routes' /\ routes'[m] = [conn |-> k, hop |-> p]
    BY <1>1, <1>2, <1>3, NotedFacts
  <1>5. failover' = WatchAfter(roster, conns', failover, m, k, p)
    BY <1>1, <1>2
  <1>6. FailoverOK(failover') /\ StepOK
    BY <1>1, <1>4, <1>5, MemberComesBack
  <1> QED
    BY <1>1, <1>4, <1>6, InvParts, InvNext

LEMMA EnforceOK ==
    ASSUME RoutesSafety, NEW k \in Conn, Enforce(k)
    PROVE  RoutesSafety' /\ StepOK
  <1> DEFINE m == conns[k].peer
  <1>1. /\ conns \in [Conn -> Link] /\ RoutesOK(routes) /\ MarksOK(marks)
    BY InvParts
  <1>2. /\ Held(conns, k) /\ UNCHANGED <<roster, failover, pairing>>
        /\ \E at \in MarkedAt(k, m) :
             \/ /\ marks' = Marked(at, k, m)
                /\ conns' = [conns EXCEPT ![k].cut = TRUE]
                /\ routes' = ClearConn(routes, k)
             \/ marks' = Unmarked(marks, at) /\ UNCHANGED <<conns, routes>>
    BY DEF Enforce
  <1>3. m \in Member
    BY <1>1, <1>2, HeldPeer
  <1>4. MarksOK(marks')
    <2>1. PICK at \in MarkedAt(k, m) : marks' \in {Marked(at, k, m), Unmarked(marks, at)}
      BY <1>2
    <2>2. MarkedAt(k, m) \subseteq SUBSET Place
      BY <1>1, MarkedAtFacts
    <2> QED
      BY <1>1, <1>3, <2>1, <2>2, MarkingFacts
  <1>5. [conns EXCEPT ![k].cut = TRUE] \in [Conn -> Link]
    <2>1. [conns[k] EXCEPT !.cut = TRUE] \in Link
      BY <1>1 DEF Link
    <2> QED
      BY <1>1, <2>1
  <1>6. conns' \in [Conn -> Link]
    BY <1>1, <1>2, <1>5
  <1>7. RoutesOK(ClearConn(routes, k))
    BY <1>1, ClearConnFacts
  <1>8. RoutesOK(routes')
    <2>1. routes' = ClearConn(routes, k) \/ routes' = routes
      BY <1>2
    <2> QED
      BY <1>1, <1>7, <2>1
  <1> QED
    BY <1>2, <1>4, <1>6, <1>8, InvParts, InvNext, NobodyGoes

LEMMA RoutesStart == RoutesInit => RoutesSafety
  <1> SUFFICES ASSUME RoutesInit PROVE RoutesSafety
    OBVIOUS
  <1>1. roster \in Roster /\ MarksOK(marks) /\ pairing \in BOOLEAN
    BY DEF RoutesInit, Roster, MarksOK
  <1>2. conns \in [Conn -> Link]
    BY NewLink DEF RoutesInit, NoLink
  <1>3. RoutesOK(routes)
    BY DEF RoutesInit, RoutesOK
  <1>4. FailoverOK(failover)
    BY NoFailoverOK DEF RoutesInit
  <1> QED
    BY <1>1, <1>2, <1>3, <1>4, InvParts

LEMMA RoutesSteps ==
    ASSUME RoutesSafety, RoutesNext
    PROVE  RoutesSafety' /\ StepOK
  <1>1. CASE RebalanceTick \/ RetryTick \/ PairingWindow \/ Second \/ WindowEnds
    BY <1>1, RebalanceTickOK, RetryTickOK, PairingWindowOK, SecondOK, WindowEndsOK
  <1>2. CASE \E k \in Conn : LinkDown(k) \/ Dropped(k) \/ Enforce(k)
    BY <1>2, LinkDownOK, DroppedOK, EnforceOK
  <1>3. CASE \E m \in Member : Expire(m) \/ Reconcile(m)
    BY <1>3, ExpireOK, ReconcileOK
  <1>4. ASSUME NEW k \in Conn, NEW m \in Member, LinkUp(k, m) \/ MemberSpeaks(k, m)
        PROVE  RoutesSafety' /\ StepOK
    BY <1>4, LinkUpOK, ReportOK, LeaveOK, RouteUpdateOK DEF MemberSpeaks
  <1> QED
    BY <1>1, <1>2, <1>3, <1>4 DEF RoutesNext

LEMMA RoutesStutter ==
    ASSUME RoutesSafety, UNCHANGED routeVars
    PROVE  RoutesSafety'
  BY InvParts, InvNext DEF routeVars
-----------------------------------------------------------------------------
(* Whatever members, connections and plans do: a failover is on exactly     *)
(* while it has someone to watch, and never watches the relay that went.    *)
THEOREM FailoverWatches == RoutesSpec => []RoutesSafety
  <1>1. RoutesSafety /\ [RoutesNext]_routeVars => RoutesSafety'
    BY RoutesSteps, RoutesStutter
  <1> QED
    BY <1>1, RoutesStart, PTL DEF RoutesSpec

(* With a relay that goes offline go all routes through it, unless a        *)
(* pairing window is open, whichever way the leader learns of it.           *)
THEOREM RoutesGoWithRelay == RoutesSpec => LostRelayCleared
  <1>1. RoutesSafety /\ [RoutesNext]_routeVars => [StepClearsLost]_routeVars
    BY RoutesSteps DEF StepOK
  <1> QED
    BY <1>1, FailoverWatches, PTL DEF RoutesSpec, LostRelayCleared, StepClearsLost

(* No second loss of the same relay gives its children more time; and only  *)
(* a route whose connection its next hop holds, the loss of another relay   *)
(* or the end of the grace ends the watch of a member that stays.           *)
THEOREM WatchIsSound == RoutesSpec => WatchIsKept
  <1>1. RoutesSafety /\ [RoutesNext]_routeVars
          => [StepKeepsGrace]_routeVars /\ [StepIsPhysical]_routeVars
    BY RoutesSteps DEF StepOK
  <1>2. RoutesSpec => DuplicateKeepsGrace
    BY <1>1, FailoverWatches, PTL DEF RoutesSpec, DuplicateKeepsGrace, StepKeepsGrace
  <1>3. RoutesSpec => RecoveredIsPhysical
    BY <1>1, FailoverWatches, PTL DEF RoutesSpec, RecoveredIsPhysical, StepIsPhysical
  <1> QED
    BY <1>2, <1>3 DEF WatchIsKept
=============================================================================
