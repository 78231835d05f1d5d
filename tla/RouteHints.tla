----------------------------- MODULE RouteHints -----------------------------
(***************************************************************************)
(* The route metrics of a leader, and the hints it sends to members that   *)
(* should be elsewhere.  Where the members are and should be is left open: *)
(* LeaderRoutes has it.                                                    *)
(***************************************************************************)
EXTENDS Naturals, FiniteSets, SequencesExt

CONSTANTS
    Member, Relay,  \* ids of members, and of those that are relays
    Slots,          \* SLE_TEAM_MAX_MEMBERS: member records and cached hints
    Cooldown        \* SLE_TEAM_ROUTE_HINT_COOLDOWN_S

ASSUME HintsAssumption ==
    /\ IsFiniteSet(Member) /\ Relay \subseteq Member /\ 0 \notin Member
    /\ Slots \in Nat \ {0} /\ Cooldown \in Nat \ {0}

Leader == 0
Parent == Relay \cup {Leader}
None == 255

VARIABLES
    places,     \* per member: its desired parent, if online, and its route
    hints,      \* route_hint_member_ids, _parent_ids, _last_sent_s
    metrics,    \* route_metrics_*
    due,        \* whether a second passed since route_metrics_last_s, or it is 0
    told        \* not in the code: the hints of the last step, member and parent

hintVars == <<places, hints, metrics, due, told>>

(* A route is sound when its connection is that of its next hop; moved, when *)
(* that connection is down and the relay has another; unbound, when it is up *)
(* and the relay has none.  Without a connection of its next hop a route    *)
(* leads nowhere (team_route_find).                                         *)
Links == {"sound", "elsewhere", "silent", "unbound", "moved", "down"}
LeadsOn(route) == route.link \notin {"unbound", "down"}
Route == [hop : Parent \cup {None}, link : Links]
NoRoute == [hop |-> None, link |-> "down"]
Place == [want : Parent \cup {None}, route : Route]
Metrics == [active : Nat, relayed : Nat, stale : Nat, unreachable : Nat, converged : BOOLEAN]

Known(ps) == {m \in Member : ps[m].want # None}

HintsTypeOK ==
    /\ places \in [Member -> Place] /\ Cardinality(Known(places)) =< Slots
    /\ DOMAIN hints \subseteq Member /\ Cardinality(DOMAIN hints) =< Slots
    /\ \A m \in DOMAIN hints : hints[m] \in [parent : Parent, age : 0 .. Cooldown]
    /\ metrics \in Metrics
    /\ due \in BOOLEAN
    /\ told \subseteq Member \X Parent

HintsInit ==
    /\ places = [m \in Member |-> [want |-> None, route |-> NoRoute]]
    /\ hints = [m \in {} |-> 0]
    /\ metrics = [active |-> 0, relayed |-> 0, stale |-> 0, unreachable |-> 0, converged |-> FALSE]
    /\ due = TRUE
    /\ told = {}
-----------------------------------------------------------------------------
(* A member comes or goes, is planned elsewhere or heard; the member table  *)
(* holds Slots.  The metrics are due at once when the route is another; so   *)
(* they may be when its connection is, a failover begins or one is cut.     *)
Move(m) ==
    /\ \E p \in Place :
         /\ m \notin {p.want, p.route.hop}
         /\ p.want = places[m].want \/ p.route = places[m].route
         /\ p.want # None => Cardinality(Known(places) \cup {m}) =< Slots
         /\ p.route.hop = None => p.route = NoRoute
         /\ p.route.link \in {"unbound", "moved"} => p.route.hop \in Relay
         /\ places' = [places EXCEPT ![m] = p]
    /\ due' \in {due, TRUE}
    /\ places'[m].route.hop # places[m].route.hop => due'
    /\ told' = {}
    /\ UNCHANGED <<hints, metrics>>

Older(n) == IF n < Cooldown THEN n + 1 ELSE n

Second ==
    /\ due' = TRUE
    /\ hints' = [m \in DOMAIN hints |-> [hints[m] EXCEPT !.age = Older(@)]]
    /\ told' = {}
    /\ UNCHANGED <<places, metrics>>
-----------------------------------------------------------------------------
AgeRested(age) == age + 1 >= Cooldown
Rested(age) == age >= Cooldown

(* team_route_hint_should_send                                              *)
ShouldSend(hs, m, p) == m \in DOMAIN hs /\ hs[m].parent = p => Rested(hs[m].age)

Oldest(hs) == CHOOSE c \in DOMAIN hs : \A d \in DOMAIN hs : hs[c].age >= hs[d].age

(* team_route_hint_cache_acquire: a member without a slot takes a free one, *)
(* or that of one of the oldest hints.                                      *)
Evicted(hs, m) ==
    IF m \notin DOMAIN hs /\ Cardinality(DOMAIN hs) = Slots THEN {Oldest(hs)} ELSE {}

(* team_route_hint_mark_sent                                                *)
MarkSent(hs, m, p) ==
    [c \in (DOMAIN hs \ Evicted(hs, m)) \cup {m} |->
        IF c = m THEN [parent |-> p, age |-> 0] ELSE hs[c]]

(* team_leader_route_convergence_hint: every online member whose route is   *)
(* up is told its parent, wherever it is; told or not, the hint is cached.  *)
Hint(s, m) ==
    LET p == places[m].want
    IN  IF LeadsOn(places[m].route) /\ ShouldSend(s.hints, m, p)
        THEN [hints |-> MarkSent(s.hints, m, p), told |-> s.told \cup {<<m, p>>}]
        ELSE s

(* A round of hints, in the order of the member table.                      *)
Round(order) ==
    LET after[n \in 0 .. Len(order)] ==
            IF n = 0 THEN [hints |-> hints, told |-> {}] ELSE Hint(after[n - 1], order[n])
    IN  after[Len(order)]

Routed == {m \in Member : places[m].route.hop # None}
Misplaced(m) ==
    /\ None \notin {places[m].want, places[m].route.hop}
    /\ places[m].route.hop # places[m].want \/ places[m].route.link \in {"elsewhere", "unbound", "moved", "down"}

(* team_leader_route_metrics_update                                         *)
Measured ==
    LET In(links) == Cardinality({m \in Routed : places[m].route.link \in links})
        unreachable == In({"moved", "down"})
        stale == In({"silent"})
    IN  [active |-> Cardinality(Routed),
         relayed |-> Cardinality({m \in Routed : places[m].route.hop # Leader}),
         stale |-> stale, unreachable |-> unreachable,
         converged |-> /\ Routed # {} \/ Known(places) \cap Relay = {}
                       /\ unreachable = 0 /\ stale = 0
                       /\ \A m \in Member : ~Misplaced(m)]

TellsOnChange(new) == new # metrics

(* There are hints when the metrics changed or a member is misplaced, but a *)
(* change of counts alone gives none.                                       *)
Tells(new) ==
    \/ \E m \in Member : Misplaced(m)
    \/ /\ new # metrics
       /\ new.converged # metrics.converged \/ new.stale # 0 \/ new.unreachable # 0

MetricsTick ==
    /\ due
    /\ due' = FALSE
    /\ metrics' = Measured
    /\ IF Tells(Measured)
       THEN \E done \in {Round(order) : order \in SetToSeqs(Known(places))} :
                hints' = done.hints /\ told' = done.told
       ELSE hints' = hints /\ told' = {}
    /\ UNCHANGED places
-----------------------------------------------------------------------------
HintsNext == MetricsTick \/ Second \/ \E m \in Member : Move(m)

(* The main loop runs and time passes.                                      *)
HintsFairness == WF_hintVars(MetricsTick) /\ WF_hintVars(Second)

HintsSpec == HintsInit /\ [][HintsNext]_hintVars
HintsFairSpec == HintsSpec /\ HintsFairness
-----------------------------------------------------------------------------
Fresh(hs, m) == hs[m].age < Cooldown
Crowded(hs) == Cardinality(DOMAIN hs) = Slots /\ \A m \in DOMAIN hs : Fresh(hs, m)

(* A hint that is cached is neither repeated nor forgotten within the       *)
(* cooldown (versions/v2.0.0-alpha8/MANIFEST.md:19), unless a member that   *)
(* is not cached is told in the same round and there is a hint that young   *)
(* in every slot.  A hint to another parent replaces the cached one.        *)
HintsRest ==
    [][\A m \in DOMAIN hints :
          /\ Fresh(hints, m)
          /\ <<m, hints[m].parent>> \in told' \/ m \notin DOMAIN hints'
          => Crowded(hints') /\ \E t \in told' : t[1] \notin DOMAIN hints]_hintVars

(* What every step keeps. *)
HintsSafety == []HintsTypeOK /\ HintsRest

(* A member that stays where it should not be, and can be reached, is told  *)
(* again and again.                                                         *)
MisplacedIsTold ==
    \A m \in Member, p \in Parent :
        <>[](places[m].want = p /\ Misplaced(m) /\ LeadsOn(places[m].route))
        => []<>(<<m, p>> \in told)
=============================================================================
