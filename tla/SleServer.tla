----------------------------- MODULE SleServer ------------------------------
(***************************************************************************)
(* The SLE link server of a member (sle_uart_server.c, _adv.c): it         *)
(* advertises, and keeps the table of the connections that its parents     *)
(* made.  With it, the adapter's recovery of a member that cannot send     *)
(* upstream: it advertises again, and drops what is stuck.                 *)
(***************************************************************************)
EXTENDS Naturals, FiniteSets

CONSTANTS
    Conn,       \* the connection ids the stack hands out
    Id,         \* the ids of possible parents
    NoId,
    MaxConns,   \* SLE_UART_SERVER_MAX_CONNECTIONS
    Pause,      \* SLE_TEAM_MEMBER_UPSTREAM_RECOVER_INTERVAL_S, in units
    Stuck,      \* SLE_TEAM_MEMBER_UPSTREAM_STUCK_S, in units
    MayLose     \* whether callbacks of the stack may be lost

ASSUME ServerAssumption ==
    /\ IsFiniteSet(Conn) /\ NoId \notin Id
    /\ {MaxConns, Pause, Stuck} \subseteq Nat \ {0} /\ Pause =< Stuck
    /\ MayLose \in BOOLEAN

VARIABLES
    table,      \* g_sle_conns, by connection id
    count,      \* g_sle_conn_count
    radio,      \* the stack: its links, what it owes, whether it advertises
    clock,      \* member_upstream_not_ready_since_s, _recover_last_s: ages
    outage,     \* not in the code: units without a connection, or without a
                \* packet sent, since either or since the last reset
    spoken,     \* whether the member's loop ran in this unit of time
    seeks       \* whether it is started, has a leader, and is not idle

serverVars == <<table, count, radio, clock, outage, spoken, seeks>>

(* A unit of time is what passes between two packets of a member, 3 s.      *)
Unset == Stuck + 1
Slot == [up : BOOLEAN, id : Id \cup {NoId}, addressed : BOOLEAN]
Free == [up |-> FALSE, id |-> NoId, addressed |-> FALSE]
Up == {k \in Conn : table[k].up}

(* link: new until its callback came; closed until that callback came.      *)
Radio == [link : [Conn -> {"none", "new", "open", "closed"}], asked : SUBSET Conn, announces : BOOLEAN]
Quiet == [since |-> Unset, last |-> Unset]

Linked(k) == radio.link[k] \in {"new", "open"}

Worst == Stuck + Pause + 1
ServerTypeOK ==
    /\ table \in [Conn -> Slot]
    /\ count = Cardinality(Up) /\ count =< MaxConns
    /\ radio \in Radio
    /\ clock \in [since : 0 .. Unset, last : (0 .. Pause) \cup {Unset}]
    /\ outage \in [bare : 0 .. Worst, mute : 0 .. Worst]
    /\ spoken \in BOOLEAN /\ seeks \in BOOLEAN

ServerInit ==
    /\ table = [k \in Conn |-> Free] /\ count = 0
    /\ radio = [link |-> [k \in Conn |-> "none"], asked |-> {}, announces |-> TRUE]
    /\ clock = [since |-> Unset, last |-> Unset]
    /\ outage = [bare |-> 0, mute |-> 0]
    /\ spoken = TRUE /\ seeks \in BOOLEAN
-----------------------------------------------------------------------------
(* The table.                                                               *)
CanHold(k) == table[k].up \/ count < MaxConns
Held(k) == IF table[k].up THEN table[k] ELSE [Free EXCEPT !.up = TRUE]
Hold(k, slot) ==
    /\ table' = [table EXCEPT ![k] = slot]
    /\ count' = IF table[k].up THEN count ELSE count + 1
Remove(k) ==
    IF table[k].up
      THEN table' = [table EXCEPT ![k] = Free] /\ count' = IF count > 0 THEN count - 1 ELSE 0
      ELSE UNCHANGED <<table, count>>

Asked(ks) == [radio EXCEPT !.asked = @ \cup {k \in ks : Linked(k)}]

(* The stack tells of a connection, or of its pairing; one that finds the   *)
(* table full is dropped again.                                             *)
Opened(k, addressed) ==
    IF CanHold(k)
      THEN /\ Hold(k, [Held(k) EXCEPT !.addressed = @ \/ addressed])
           /\ radio' = [radio EXCEPT !.link[k] = IF addressed THEN "open" ELSE @]
      ELSE /\ radio' = [Asked({k}) EXCEPT !.link[k] = IF addressed THEN "open" ELSE @]
           /\ UNCHANGED <<table, count>>

Connected(k) == radio.link[k] = "new" /\ Opened(k, TRUE) /\ UNCHANGED <<clock, outage, spoken, seeks>>
Paired(k) == Linked(k) /\ Opened(k, FALSE) /\ UNCHANGED <<clock, outage, spoken, seeks>>

(* A packet binds its connection to the parent it came from, and no other   *)
(* connection stays bound to it; one the table misses is taken over.  The   *)
(* one that makes it a member clears the clock as well (team_joined).       *)
BindOnly(k, id) == table' = [table EXCEPT ![k] = [Held(k) EXCEPT !.id = id]]
Bound(k, id) ==
    table' = [j \in Conn |-> IF j = k THEN [Held(k) EXCEPT !.id = id]
                             ELSE IF table[j].id = id THEN [table[j] EXCEPT !.id = NoId]
                             ELSE table[j]]
Packet(k, id) ==
    /\ Linked(k) /\ CanHold(k)
    /\ Bound(k, id)
    /\ count' = IF table[k].up THEN count ELSE count + 1
    /\ clock' \in {clock, Quiet}
    /\ outage' = [outage EXCEPT !.bare = 0]
    /\ UNCHANGED <<radio, spoken, seeks>>

(* sle_uart_server_adv_restart stops and starts: when the start is refused, *)
(* the member is not advertised any more.                                   *)
Announced(r, accepted) == [r EXCEPT !.announces = accepted]

Disconnected(k, accepted) ==
    /\ radio.link[k] = "closed"
    /\ Remove(k)
    /\ radio' = Announced([radio EXCEPT !.link[k] = "none"], accepted)
    /\ UNCHANGED <<clock, outage, spoken, seeks>>
-----------------------------------------------------------------------------
(* The stack and the peers.                                                 *)
Dials(k) ==
    /\ radio.announces /\ radio.link[k] = "none"
    /\ radio' = [radio EXCEPT !.link[k] = "new"]
    /\ UNCHANGED <<table, count, clock, outage, spoken, seeks>>

Closes(k) ==
    /\ Linked(k)
    /\ radio' = [radio EXCEPT !.link[k] = "closed", !.asked = @ \ {k}]
    /\ UNCHANGED <<table, count, clock, outage, spoken, seeks>>

CallbackLost(k) ==
    /\ MayLose /\ radio.link[k] \in {"new", "closed"}
    /\ radio' = [radio EXCEPT !.link[k] = IF @ = "new" THEN "open" ELSE "none"]
    /\ UNCHANGED <<table, count, clock, outage, spoken, seeks>>

AnnouncementEnds ==
    /\ radio' = [radio EXCEPT !.announces = FALSE]
    /\ UNCHANGED <<table, count, clock, outage, spoken, seeks>>
-----------------------------------------------------------------------------
(* team_member_upstream_recover_after_tx_fail: what a failure makes of the  *)
(* clock, whether it advertises again, and whether it resets.               *)
FailedStartsOver(c) ==
    LET due == c.last = Unset \/ c.last >= Pause
    IN  [clock |-> IF due THEN [since |-> 0, last |-> 0] ELSE c,
         restart |-> due, reset |-> due /\ c.since \in Stuck .. Unset - 1]
FailedOnce(c) ==
    LET since == IF c.since = Unset THEN 0 ELSE c.since
        due == c.last = Unset
    IN  [clock |-> [since |-> since, last |-> IF due THEN 0 ELSE c.last],
         restart |-> due, reset |-> due /\ since >= Stuck]
Failed(c) ==
    LET since == IF c.since = Unset THEN 0 ELSE c.since
        due == c.last = Unset \/ c.last >= Pause
    IN  [clock |-> [since |-> since, last |-> IF due THEN 0 ELSE c.last],
         restart |-> due, reset |-> due /\ since >= Stuck]
Fine(c) == [clock |-> c, restart |-> FALSE, reset |-> FALSE]

(* A round of the main loop of a member: the recovery tick, which takes any *)
(* slot for a connection and leaves a member without a leader alone, and a  *)
(* packet: sent over a slot, failed, or not tried (no route, no packet).    *)
Recovered ==
    CASE ~seeks          -> Fine(clock)
      [] seeks /\ Up = {} -> Failed(clock)
      [] seeks /\ Up # {} -> Fine(Quiet)

Sent(way, c) ==
    CASE way = "sent"   -> Fine(Quiet)
      [] way = "failed" -> Failed(c)
      [] way = "none"   -> Fine(c)

Loop(accepted) ==
    \E way \in {"sent", "failed", "none"} :
      /\ way = "sent" => \E k \in Up : Linked(k)
      /\ LET tick == Recovered
             send == Sent(way, tick.clock)
             reset == tick.reset \/ send.reset
         IN  /\ clock' = send.clock
             /\ radio' = LET r == IF reset THEN Asked({k \in Up : table[k].addressed}) ELSE radio
                         IN  IF tick.restart \/ send.restart THEN Announced(r, accepted) ELSE r
             /\ outage' = [bare |-> IF Up # {} \/ ~seeks \/ reset THEN 0 ELSE outage.bare,
                           mute |-> IF way = "sent" \/ ~seeks \/ reset THEN 0 ELSE outage.mute]
      /\ spoken' = TRUE
      /\ UNCHANGED <<table, count, seeks>>

(* sle_team_node_member_leave makes it idle; a join line, a CONFIG or a     *)
(* configuration gives it a leader again.  The clock stays as it was.       *)
SeeksOrNot ==
    /\ seeks' = ~seeks
    /\ outage' = [bare |-> 0, mute |-> 0]
    /\ UNCHANGED <<table, count, radio, clock, spoken>>

(* team_member_parent_reselect_disconnect_tick: a member with another       *)
(* parent to go to drops its leader's connection, or all, and advertises.   *)
Reselects(accepted) ==
    /\ \E ks \in SUBSET {k \in Up : table[k].addressed} :
         radio' = Announced(Asked(ks), accepted)
    /\ UNCHANGED <<table, count, clock, outage, spoken, seeks>>

Older(age, top) == IF age < top THEN age + 1 ELSE age
TimePasses ==
    /\ spoken /\ spoken' = FALSE
    /\ clock' = [since |-> IF clock.since = Unset THEN Unset ELSE Older(clock.since, Stuck),
                 last |-> IF clock.last = Unset THEN Unset ELSE Older(clock.last, Pause)]
    /\ outage' = [bare |-> Older(outage.bare, Worst), mute |-> Older(outage.mute, Worst)]
    /\ UNCHANGED <<table, count, radio, seeks>>

Next ==
    \/ \E k \in Conn : Connected(k) \/ Paired(k) \/ Dials(k) \/ Closes(k) \/ CallbackLost(k)
    \/ \E k \in Conn, id \in Id : Packet(k, id)
    \/ \E k \in Conn, accepted \in BOOLEAN : Disconnected(k, accepted)
    \/ AnnouncementEnds
    \/ \E accepted \in BOOLEAN : Loop(accepted) \/ Reselects(accepted)
    \/ SeeksOrNot \/ TimePasses

ServerSpec == ServerInit /\ [][Next]_serverVars

(* The loop runs, time passes, and the stack does not refuse for ever.      *)
FairServerSpec ==
    /\ ServerSpec
    /\ WF_serverVars(TimePasses)
    /\ WF_serverVars(\E accepted \in BOOLEAN : Loop(accepted))
    /\ SF_serverVars(Loop(TRUE) /\ radio' # radio)
-----------------------------------------------------------------------------
(* Late packets, pairings and disconnections in any order leave every       *)
(* parent with one connection at most: packets for it go to the last one.   *)
OneConnPerParent ==
    \A j, k \in Up : table[j].id = table[k].id /\ table[j].id # NoId => j = k

(* What holds of the table in every state: its count is that of its slots   *)
(* and never above the limit, whatever was lost.                            *)
ServerSafety == ServerTypeOK /\ OneConnPerParent

(* A member that has a leader and no connection is advertised again,        *)
(* although its stack refused it or ended the announcement on its own: no   *)
(* callback of a connection will come to do that.                           *)
FoundAgain == []<>(radio.announces \/ Up # {} \/ ~seeks)

(* A member with a leader that no parent has connected to for Stuck starts  *)
(* over, again and again; the loop's own round trips do not put it off.     *)
BareIsReset == outage.bare =< Stuck + Pause

(* versions/v4.4.137/VERSION.md:16: "If the member remains without a usable *)
(* upstream link for 8s, firmware resets the retry state, [...] and         *)
(* disconnects any stale upstream server connection."                       *)
MuteIsReset == outage.mute =< Stuck + Pause
=============================================================================
