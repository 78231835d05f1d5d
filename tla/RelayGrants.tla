---------------------------- MODULE RelayGrants ----------------------------
(***************************************************************************)
(* How the WS63 adapter of a leader grants and revokes the relay role      *)
(* (team_leader_rebalance_relays and what it calls): it counts the team,   *)
(* demotes or promotes until the target is met, swaps a weak relay for a   *)
(* candidate that has been stronger for a while, and tells each member,    *)
(* again if the first CONFIG could not be sent.                            *)
(*                                                                         *)
(* Signals are small numbers, silence is counted in heartbeat timeouts.    *)
(* Routes are reduced to whether a member has children behind it.          *)
(***************************************************************************)
EXTENDS RelayPolicy, FiniteSets

CONSTANTS
    Member,       \* ids, a set of numbers: ties are broken by id
    Rssi,         \* the signals a report may carry
    Unknown,      \* SLE_TEAM_RSSI_UNKNOWN
    MinRssi,      \* SLE_TEAM_RELAY_CANDIDATE_MIN_RSSI
    Hysteresis,   \* SLE_TEAM_RELAY_SWAP_RSSI_HYST_DBM
    SwapStable,   \* SLE_TEAM_RELAY_SWAP_STABLE_S
    Settings,     \* the limits the operator gives with cfg direct
    NoMember

ASSUME GrantsAssumption ==
    /\ Member \subseteq Nat \ {0} /\ IsFiniteSet(Member)
    /\ Cardinality(Member) =< MaxMembers /\ MaxDirect < MaxMembers
    /\ Rssi \subseteq Nat \ {0} /\ Unknown \notin Rssi
    /\ MinRssi \in Nat /\ Hysteresis \in Nat /\ SwapStable \in Nat \ {0}
    /\ Settings \subseteq Nat /\ Settings # {}
    /\ NoMember \notin Member

VARIABLES
    roster,       \* g_team_node.members, and who has children behind him
    team,         \* what else a plan depends on
    untold,       \* relay_config_pending_member_ids
    swap,         \* relay_swap_candidate_id, _victim_id, seconds since
    told,         \* what a member was last told of its grant, "unsure" if it
                  \* was away since or an approval could not reach it
    gapFor        \* for each pair: 0 if the last look found no gap between the
                  \* two, else 1 + the seconds since the first look of those in
                  \* a row that found one.  No part of the program: it is what
                  \* SwapIsPatient measures swaps by.

grantVars == <<roster, team, untold, swap, told, gapFor>>

Entry == [status : {"unknown", "offline", "online"}, relay : BOOLEAN, kids : BOOLEAN,
          rssi : Rssi \cup {Unknown}, silence : 0 .. 2]

(* cfg.max_downstream, cfg.pairing_enabled, the ids in pending_members,     *)
(* and the failover: team_leader_failover_window_active, its watch list and *)
(* relay_failover_lost_id.                                                  *)
Team == [setting : Settings, pairing : BOOLEAN, waiting : SUBSET Member,
         window : BOOLEAN, watched : SUBSET Member, lost : Member \cup {NoMember}]
Pair == Member \X Member

NoSwap == [candidate |-> NoMember, victim |-> NoMember, since |-> 0]
Telling == {"granted", "revoked", "unsure"}
AsTold(grant) == IF grant THEN "granted" ELSE "revoked"

GrantsTypeOK ==
    /\ roster \in [Member -> Entry]
    /\ team \in Team
    /\ untold \subseteq Member
    /\ swap \in [candidate : Member \cup {NoMember}, victim : Member \cup {NoMember},
                 since : 0 .. SwapStable]
    /\ told \in [Member -> Telling]
    /\ gapFor \in [Pair -> 0 .. SwapStable + 1]

GrantsInit ==
    /\ roster = [m \in Member |-> [status |-> "unknown", relay |-> FALSE, kids |-> FALSE,
                                   rssi |-> Unknown, silence |-> 0]]
    /\ team \in [setting : Settings, pairing : {FALSE}, waiting : {{}},
                 window : {FALSE}, watched : {{}}, lost : {NoMember}]
    /\ untold = {} /\ swap = NoSwap /\ gapFor = [cv \in Pair |-> 0]
    /\ told = [m \in Member |-> "unsure"]
-----------------------------------------------------------------------------
(* r is a table of members, e the rest of what a plan depends on.           *)

Known(r) == {m \in Member : r[m].status # "unknown"}
Online(r) == {m \in Member : r[m].status = "online"}
Relays(r) == {m \in Online(r) : r[m].relay}

(* Members that a plan has to seat: those with a record, those watched in a *)
(* failover (a child may have no record yet) and those waiting.  The        *)
(* allowlist holds no id without a record.                                  *)
Counted(r, e) == Known(r) \cup e.watched
Newcomers(r, e) == e.waiting \ Known(r)
Demand(r, e) == Least(Cardinality(Counted(r, e)) + Cardinality(Newcomers(r, e)), MaxMembers)

Capacity(e) == DirectCapacity(e.setting)

PlainTarget(r, e) == RelayTarget(Demand(r, e), Capacity(e))

(* team_leader_relay_target_with_failover, within the budget                *)
Target(r, e) ==
    LET plain == RelayTarget(Demand(r, e), Capacity(e))
    IN  Least(IF plain = 0 /\ Relays(r) # {} /\ e.window THEN 1 ELSE plain,
              RelayBudget(Capacity(e)))

Level(r, m) == IF r[m].rssi = Unknown THEN 0 ELSE r[m].rssi

(* team_leader_relay_is_candidate *)
Candidates(r, e) ==
    {m \in Online(r) : /\ ~r[m].relay
                       /\ \/ e.window /\ m \in e.watched
                          \/ r[m].silence = 0 /\ (r[m].rssi = Unknown \/ r[m].rssi >= MinRssi)}

Victims(r) == {m \in Relays(r) : r[m].silence < 2 /\ ~r[m].kids}

(* The order of team_leader_pick_worst_active_relay: signal, then age.  It  *)
(* counts age in seconds, so any of those equal here may be the one it      *)
(* picks.                                                                   *)
Worse(r, a, b) ==
    \/ Level(r, a) < Level(r, b)
    \/ Level(r, a) = Level(r, b) /\ r[a].silence >= r[b].silence

(* What the loops of a rebalance pick: the worst victims, the candidates    *)
(* with the best signal (among equals, those first in the table).           *)
WorstOf(r, number) ==
    {ms \in SUBSET Victims(r) : /\ Cardinality(ms) = Least(number, Cardinality(Victims(r)))
                                /\ \A a \in ms, b \in Victims(r) \ ms : Worse(r, a, b)}
BestOfOneMore(r, e, number) ==
    {ms \in SUBSET Candidates(r, e) :
        /\ Cardinality(ms) = Least(number + 1, Cardinality(Candidates(r, e)))
        /\ \A a \in ms, b \in Candidates(r, e) \ ms : Level(r, a) >= Level(r, b)}

BestOf(r, e, number) ==
    {ms \in SUBSET Candidates(r, e) :
        /\ Cardinality(ms) = Least(number, Cardinality(Candidates(r, e)))
        /\ \A a \in ms, b \in Candidates(r, e) \ ms : Level(r, a) >= Level(r, b)}

(* A revoked grant takes the routes through its holder with it.             *)
Granted(r, ms, grant) ==
    [m \in Member |-> IF m \in ms THEN [r[m] EXCEPT !.relay = grant, !.kids = @ /\ grant] ELSE r[m]]

(* A member without the grant heard better than one with it, by the         *)
(* hysteresis and both signals known.                                       *)
Gap(r, c, v) ==
    /\ c \in Online(r) \ Relays(r) /\ v \in Relays(r)
    /\ r[c].rssi # Unknown /\ r[v].rssi # Unknown
    /\ r[c].rssi >= r[v].rssi + Hysteresis

(* The pairs a look would swap: nothing else is amiss, and the best         *)
(* candidate has the gap to the worst victim.                               *)
SwapPairs(r, e) ==
    IF Cardinality(Relays(r)) # Target(r, e) \/ Target(r, e) = 0 \/ e.window
       \/ Newcomers(r, e) # {} \/ Counted(r, e) # Online(r)
    THEN {}
    ELSE {cv \in Candidates(r, e) \X Victims(r) :
             /\ \A m \in Candidates(r, e) : Level(r, m) =< Level(r, cv[1])
             /\ \A m \in Victims(r) : Worse(r, cv[2], m)
             /\ Gap(r, cv[1], cv[2])}

WatchStubborn(clock, pairs) ==
    IF pairs = {} THEN {clock}
    ELSE {IF cv = <<clock.candidate, clock.victim>> THEN clock
          ELSE [candidate |-> cv[1], victim |-> cv[2], since |-> 0] : cv \in pairs}

(* What team_leader_relay_swap_tick goes on watching after a look: a look   *)
(* without a gap forgets the pair.                                          *)
Watch(clock, pairs) ==
    IF pairs = {} THEN {NoSwap}
    ELSE {IF cv = <<clock.candidate, clock.victim>> THEN clock
          ELSE [candidate |-> cv[1], victim |-> cv[2], since |-> 0] : cv \in pairs}

(* The ghost of a look at table r.                                          *)
Looked(r, before) ==
    [cv \in Pair |-> IF ~Gap(r, cv[1], cv[2]) THEN 0 ELSE IF before[cv] = 0 THEN 1 ELSE before[cv]]

TellOnce(r, ms, gone, before) ==
    \E failed \in SUBSET ms :
        /\ untold' = untold \ (ms \cup gone)
        /\ told' = [m \in Member |-> IF m \in ms \ failed THEN AsTold(r[m].relay) ELSE before[m]]

(* team_leader_set_member_relay_allowed: a CONFIG that cannot be sent is    *)
(* kept for a retry, one that need not be sent is dropped.                  *)
Tell(r, ms, gone, before) ==
    \E failed \in SUBSET ms :
        /\ untold' = (untold \ (ms \cup gone)) \cup failed
        /\ told' = [m \in Member |-> IF m \in ms \ failed THEN AsTold(r[m].relay) ELSE before[m]]

(* team_leader_rebalance_relays on a table, a team and a telling, with the  *)
(* clock of the swap and of the gaps.  In a pairing window it does nothing, *)
(* and the clocks run on.                                                   *)
Rebalance(r, e, before, clock, gaps) ==
    LET gone == {m \in Member : r[m].relay /\ r[m].status # "online"}
        stale == {m \in Relays(r) : r[m].silence = 2}
        fit == Granted(r, gone \cup stale, FALSE)
        count == Cardinality(Relays(fit))
        wanted == Target(fit, e)
    IN  IF e.pairing
        THEN roster' = r /\ told' = before /\ swap' = clock /\ gapFor' = gaps /\ UNCHANGED untold
        ELSE \E down \in WorstOf(fit, IF count > wanted THEN count - wanted ELSE 0),
                up \in BestOf(fit, e, IF count < wanted THEN wanted - count ELSE 0) :
               LET met == Granted(Granted(fit, down, FALSE), up, TRUE)
                   changed == stale \cup down \cup up
                   pairs == SwapPairs(met, e)
               IN  /\ gapFor' = Looked(met, gaps)
                   /\ \E next \in Watch(clock, pairs) :
                         LET c == next.candidate
                             v == next.victim
                         IN  IF <<c, v>> \in pairs /\ next.since >= SwapStable
                             THEN /\ roster' = Granted(Granted(met, {c}, TRUE), {v}, FALSE)
                                  /\ Tell(roster', changed \cup {c, v}, gone, before)
                                  /\ swap' = NoSwap
                             ELSE /\ roster' = met
                                  /\ Tell(met, changed, gone, before)
                                  /\ swap' = next

(* A second passes, and the main loop looks: once a second at least, for    *)
(* the interval of its rebalances is a second.                              *)
OlderSwap == IF swap = NoSwap THEN swap ELSE [swap EXCEPT !.since = Least(@ + 1, SwapStable)]
OlderGaps == [cv \in Pair |-> IF gapFor[cv] = 0 THEN 0 ELSE Least(gapFor[cv] + 1, SwapStable + 1)]

RebalanceTick == Rebalance(roster, team, told, OlderSwap, OlderGaps) /\ UNCHANGED team

(* cfg direct applies the new limit at once.                                *)
SetCapacity(s) ==
    /\ s # team.setting
    /\ team' = [team EXCEPT !.setting = s]
    /\ Rebalance(roster, team', told, swap, gapFor)

(* team_leader_relay_config_retry_tick; an entry of an absent member goes.  *)
RetryTick ==
    \E reached \in SUBSET (untold \cap Online(roster)) :
        /\ untold' = (untold \cap Online(roster)) \ reached
        /\ told' = [m \in Member |-> IF m \in reached THEN AsTold(roster[m].relay) ELSE told[m]]
        /\ UNCHANGED <<roster, team, swap, gapFor>>
-----------------------------------------------------------------------------
(* Members come, report and go.                                             *)

(* A heartbeat or position report.                                          *)
Heard(m, rssi) ==
    /\ roster' = [roster EXCEPT ![m].status = "online", ![m].silence = 0, ![m].rssi = rssi]
    /\ UNCHANGED <<team, untold, swap, told, gapFor>>

(* The HELLO of a member is answered with a CONFIG, which is not retried.   *)
HelloKnown(m, sent) ==
    /\ m \in Known(roster)
    /\ roster' = [roster EXCEPT ![m].status = "online", ![m].silence = 0]
    /\ told' = IF sent THEN [told EXCEPT ![m] = AsTold(roster[m].relay)] ELSE told
    /\ UNCHANGED <<team, untold, swap, gapFor>>

Silent(m) ==
    /\ roster[m].status = "online" /\ roster[m].silence < 2
    /\ roster' = [roster EXCEPT ![m].silence = @ + 1]
    /\ UNCHANGED <<team, untold, swap, told, gapFor>>

(* Routes through a relay come and go with the packets of its children.     *)
Children(m, kids) ==
    /\ m \in Relays(roster)
    /\ roster' = [roster EXCEPT ![m].kids = kids]
    /\ UNCHANGED <<team, untold, swap, told, gapFor>>

(* A member goes; nothing asks for how long it has been silent until it is  *)
(* heard again.  An expired one keeps its grant until a rebalance, one      *)
(* that left or lost its link does not.  When it was a relay the leader     *)
(* watches whom it held (some of the others) and rebalances; a relay lost   *)
(* twice within one window changes nothing of it.                           *)
GoOffline(m, expired, held) ==
    LET r == [roster EXCEPT ![m].status = "offline", ![m].kids = FALSE,
                            ![m].relay = @ /\ expired, ![m].silence = 0]
        away == [told EXCEPT ![m] = "unsure"]
    IN  /\ roster[m].status = "online"
        /\ expired => roster[m].silence >= 1 /\ ~(team.window /\ m \in team.watched)
        /\ held # {} => roster[m].relay /\ roster[m].kids /\ m \notin held
        /\ IF roster[m].relay
           THEN /\ team' = IF team.window /\ team.lost = m THEN team
                           ELSE [team EXCEPT !.window = held # {}, !.watched = held,
                                             !.lost = IF held # {} THEN m ELSE NoMember]
                /\ Rebalance(r, team', away, swap, gapFor)
           ELSE /\ roster' = r /\ told' = away
                /\ UNCHANGED <<team, untold, swap, gapFor>>

(* Watched members are back, or the grace is over for all of them; with     *)
(* nobody left to watch the window ends.                                    *)
WindowShrinks ==
    \E left \in SUBSET team.watched :
        /\ team.window /\ left # team.watched
        /\ team' = [team EXCEPT !.watched = left, !.window = left # {},
                                !.lost = IF left # {} THEN @ ELSE NoMember]
        /\ UNCHANGED <<roster, untold, swap, told, gapFor>>
-----------------------------------------------------------------------------
(* The pairing window.                                                      *)

PairingStart ==
    /\ team' = [team EXCEPT !.pairing = TRUE, !.waiting = {}]
    /\ UNCHANGED <<roster, untold, swap, told, gapFor>>

Knock(m) ==
    /\ team.pairing /\ roster[m].status = "unknown"
    /\ team' = [team EXCEPT !.waiting = @ \cup {m}]
    /\ UNCHANGED <<roster, untold, swap, told, gapFor>>

(* Members let in, the grants of some, and who of them could not be told.   *)
LetIn(admitted, granted, failed) ==
    /\ roster' = [m \in Member |->
                     IF m \notin admitted THEN roster[m]
                     ELSE [roster[m] EXCEPT !.status = "online", !.relay = m \in granted]]
    /\ told' = [m \in Member |-> IF m \notin admitted THEN told[m]
                                 ELSE IF m \in failed THEN "unsure" ELSE AsTold(m \in granted)]
    /\ UNCHANGED <<untold, swap, gapFor>>

PairingStop ==
    \E failed \in SUBSET team.waiting :
        /\ LetIn(team.waiting, {}, failed)
        /\ team' = [team EXCEPT !.pairing = FALSE, !.waiting = failed]

(* team_leader_auto_approve_pending: grants as long as the quota, which     *)
(* counts the relays that are online and the approvals that could be sent.  *)
AutoApprove ==
    LET budget == RelayBudget(Capacity(team))
        online == Cardinality(Relays(roster))
        quota == IF online < budget THEN budget - online ELSE 0
    IN  \E failed, granted \in SUBSET team.waiting :
          /\ IF quota = 0 THEN granted = {}
             ELSE IF granted = team.waiting THEN Cardinality(granted \ failed) =< quota
             ELSE Cardinality(granted \ failed) = quota
          /\ LetIn(team.waiting, granted, failed)
          /\ team' = [team EXCEPT !.waiting = failed]
-----------------------------------------------------------------------------
Pairing == PairingStart \/ PairingStop \/ AutoApprove \/ \E m \in Member : Knock(m)

Coming(m) ==
    \/ \E rssi \in Rssi \cup {Unknown} : Heard(m, rssi)
    \/ \E sent \in BOOLEAN : HelloKnown(m, sent)
    \/ \E kids \in BOOLEAN : Children(m, kids)

Going(m) ==
    \/ Silent(m)
    \/ \E expired \in BOOLEAN, held \in SUBSET Member : GoOffline(m, expired, held)

GrantsNext ==
    \/ RebalanceTick
    \/ \E s \in Settings : SetCapacity(s)
    \/ RetryTick
    \/ Pairing
    \/ \E m \in Member : Coming(m) \/ Going(m)
    \/ WindowShrinks

GrantsSpec == GrantsInit /\ [][GrantsNext]_grantVars
-----------------------------------------------------------------------------
(* A member that has not been away since it was last told of its grant      *)
(* believes what the leader's table says, or a retry is due ("Relay         *)
(* promotion no longer rolls back on temporary CONFIG notify failure",      *)
(* versions/v4.4.62/VERSION.md:41).                                         *)
ToldOrUntold ==
    \A m \in Online(roster) : told[m] # "unsure" => told[m] = AsTold(roster[m].relay) \/ m \in untold

(* What holds of the roster and of what its members were told.              *)
GrantsSafety == GrantsTypeOK /\ ToldOrUntold

(* No grant outlives the approvals it came from: a rebalance grants within  *)
(* the budget, whatever was granted, revoked or lost before.                *)
GrantsWithinBudget ==
    [][\A m \in Member : ~roster[m].relay /\ roster'[m].relay /\ m \notin team.waiting =>
          Cardinality(Relays(roster')) =< RelayBudget(Capacity(team'))]_grantVars

(* Only silence, its own departure and its approval as a newcomer take the  *)
(* grant from a relay that holds children, however often the plan changes   *)
(* above it.                                                                *)
ParentsStay ==
    [][\A m \in Relays(roster) : roster[m].kids /\ roster[m].silence < 2
          /\ m \in Online(roster') \ team.waiting => roster'[m].relay]_grantVars

(* versions/v4.4.67/VERSION.md:86: during the grace of a lost relay the     *)
(* leader "keeps at least one promoted relay alive", as small as the team   *)
(* may look meanwhile.                                                      *)
FailoverKeepsRelay ==
    [][team'.window /\ Relays(roster) # {} /\ Relays(roster') = {} =>
          \A m \in Relays(roster) : \/ m \notin Online(roster') \/ m \in team.waiting
                                      \/ roster[m].silence = 2]_grantVars

(* What no plan takes away: the relay of others, and the last one.          *)
RelaysStay == ParentsStay /\ FailoverKeepsRelay

(* versions/v4.4.94/VERSION.md:19: "the same candidate/victim pair must     *)
(* satisfy that gap for 30 seconds".  A plan that takes one relay's grant   *)
(* and gives another's in one go does so for a pair whose gap every look of *)
(* the stable time has found, this one too: whoever came, went, reported or *)
(* was approved meanwhile.  There is a look in every second but those of a  *)
(* pairing window, which count although nobody looks.                       *)
Taken == {m \in Relays(roster) \ team.waiting : roster[m].silence < 2 /\ m \in Online(roster') /\ ~roster'[m].relay}
Given == {m \in Member \ team.waiting : ~roster[m].relay /\ roster'[m].relay}

SwapIsPatient ==
    [][Taken # {} /\ Given # {} =>
          \E c, v \in Member : /\ ~roster[c].relay /\ roster'[c].relay
                              /\ roster[v].relay /\ ~roster'[v].relay
                              /\ gapFor'[<<c, v>>] > SwapStable]_grantVars
-----------------------------------------------------------------------------
(* versions/v4.4.94/VERSION.md:19 in full: a second counts for a pair only  *)
(* if the pair has the gap.  Those of a pairing window count without it.    *)
SecondsHaveGap ==
    [][swap'.since > swap.since => Gap(roster, swap.candidate, swap.victim)]_grantVars

(* "Do not create more relay roles than the configured direct-cap can       *)
(* safely host" (ws63_team_network_app.c:2729).                             *)
RelaysFitDirectCap == Cardinality(Relays(roster)) =< RelayBudget(Capacity(team))

(* "Unknown RSSI must be treated as weakest so known links are demoted      *)
(* first" (ws63_team_network_app.c:5695): no relay of unknown signal is     *)
(* demoted while one of known signal could be.                              *)
KnownDemotedFirst ==
    [][\A u, k \in Victims(roster) \ team.waiting :
          roster[u].rssi = Unknown /\ roster[k].rssi # Unknown /\ roster'[k].relay
          /\ u \in Online(roster') => roster'[u].relay]_grantVars
=============================================================================
