------------------------------- MODULE Display -------------------------------
(***************************************************************************)
(* The screen of a leader: what the callbacks and the main loop note of a  *)
(* member's coming and going, the one event and the status line they leave *)
(* for the display task, and the task that copies and draws them.  Labels, *)
(* positions and the count of events are left out.                         *)
(***************************************************************************)
EXTENDS Naturals, FiniteSets, Functions

CONSTANTS
    Mate,       \* ids of members
    Records,    \* SLE_TEAM_MAX_MEMBERS: member records, and members noted
    Timeout,    \* heartbeat_timeout_s
    MaxNow      \* bound on the leader's clock

ASSUME DisplayAssumption ==
    IsFiniteSet(Mate) /\ {Records, Timeout, MaxNow} \subseteq Nat \ {0}

VARIABLES
    rec,        \* g_team_node.members: the records, by member
    noted,      \* display_member_ids, _states, _last_events
    lastOnline, \* last_online_member_count
    loop,       \* the main loop is before sle_team_node_tick or after it
    event,      \* display_event_*
    status,     \* display_status_*
    task,       \* the display task, and what it copied
    panel,      \* what the screen shows
    recent,     \* the status was drawn less than 500 ms ago
    now,        \* the leader's clock
    life        \* not in the code: the last the leader learned of each member

displayVars == <<rec, noted, lastOnline, loop, event, status, task, panel, recent, now, life>>

Event == [type : {"JOIN", "REJOIN", "LEFT", "LOST", "TIMEOUT"}, of : Mate]
NoEvent == [type |-> "NONE"]
Counts == [on : 0 .. Records, off : 0 .. Records]
Shown == Event \cup {NoEvent}

CountsOf(r) ==
    [on |-> Cardinality({m \in DOMAIN r : r[m].on}), off |-> Cardinality({m \in DOMAIN r : ~r[m].on})]

DisplayTypeOK ==
    /\ DOMAIN rec \subseteq Mate /\ Cardinality(DOMAIN rec) =< Records
    /\ \A m \in DOMAIN rec : rec[m] \in [on : BOOLEAN, seen : 0 .. MaxNow]
    /\ DOMAIN noted \subseteq Mate /\ Cardinality(DOMAIN noted) =< Records
    /\ \A m \in DOMAIN noted : noted[m] \in [offline : BOOLEAN, last : {e.type : e \in Event}]
    /\ lastOnline \in 0 .. Records
    /\ loop \in {"tick", "ticked"}
    /\ event \in [show : Shown, dirty : BOOLEAN]
    /\ status \in [show : Counts, dirty : BOOLEAN]
    /\ task \in {[busy |-> FALSE]} \cup
                [busy : {TRUE}, event : Shown, draws : BOOLEAN, status : Counts, counts : BOOLEAN]
    /\ panel \in [event : Shown, status : Counts]
    /\ recent \in BOOLEAN
    /\ now \in 1 .. MaxNow
    /\ life \in [Mate -> {"unheard", "joined", "silent", "lost", "left"}]

DisplayInit ==
    /\ rec = [m \in {} |-> 0] /\ noted = [m \in {} |-> 0]
    /\ lastOnline = 0
    /\ loop = "tick"
    /\ event = [show |-> NoEvent, dirty |-> FALSE]
    /\ status = [show |-> [on |-> 0, off |-> 0], dirty |-> FALSE]
    /\ task = [busy |-> FALSE]
    /\ panel = [event |-> NoEvent, status |-> [on |-> 0, off |-> 0]]
    /\ recent = FALSE
    /\ now = 1
    /\ life = [m \in Mate |-> "unheard"]
-----------------------------------------------------------------------------
(* team_display_member_index_locked: a member has its slot for good.        *)
HasSlot(m) == m \in DOMAIN noted \/ Cardinality(DOMAIN noted) < Records

Put(f, m, v) == [x \in DOMAIN f \cup {m} |-> IF x = m THEN v ELSE f[x]]

NoteOffline(m, type) ==
    noted' = IF HasSlot(m) THEN Put(noted, m, [offline |-> TRUE, last |-> type]) ELSE noted

(* team_display_show_event, and team_display_refresh_status                 *)
Show(type, m) == event' = [show |-> [type |-> type, of |-> m], dirty |-> TRUE]
ShowNoCounts == status' = [status EXCEPT !.dirty = TRUE]
Refresh == status' = [show |-> CountsOf(rec'), dirty |-> TRUE]

(* team_display_note_member_joined and team_joined                          *)
Joined(m) ==
    LET known == m \in DOMAIN noted
        type == IF known /\ noted[m].offline THEN "REJOIN" ELSE "JOIN"
    IN  /\ IF known /\ ~noted[m].offline
           THEN UNCHANGED <<noted, event>>
           ELSE /\ noted' = IF HasSlot(m) THEN Put(noted, m, [offline |-> FALSE, last |-> type])
                            ELSE noted
                /\ Show(type, m)
        /\ lastOnline' = CountsOf(rec').on
        /\ Refresh

Heard(m) ==
    /\ m \in DOMAIN rec \/ Cardinality(DOMAIN rec) < Records
    /\ rec' = Put(rec, m, [on |-> TRUE, seen |-> now])

Hello(m) ==
    /\ Heard(m)
    /\ Joined(m)
    /\ life' = [life EXCEPT ![m] = "joined"]
    /\ UNCHANGED <<loop, task, panel, recent, now>>

(* A heartbeat or a position puts a member online unannounced; a position   *)
(* refreshes the counts.                                                    *)
Report(m, position) ==
    /\ Heard(m)
    /\ IF position THEN Refresh ELSE UNCHANGED status
    /\ UNCHANGED <<noted, lastOnline, loop, event, task, panel, recent, now, life>>

Offline(m, disconnect) ==
    rec[m].on \/ (disconnect /\ ~(m \in DOMAIN noted /\ noted[m].last = "LEFT"))

(* team_leader_mark_member_offline: the member said it leaves, or its       *)
(* connection is gone.                                                      *)
Goes(m, disconnect) ==
    LET type == IF disconnect THEN "LOST" ELSE "LEFT"
    IN  /\ m \in DOMAIN rec
        /\ IF Offline(m, disconnect)
           THEN /\ rec' = [rec EXCEPT ![m] = [on |-> FALSE, seen |-> IF @.seen = 0 THEN now ELSE @.seen]]
                /\ NoteOffline(m, type)
                /\ Show(type, m)
                /\ lastOnline' = CountsOf(rec').on
                /\ Refresh
           ELSE UNCHANGED <<rec, noted, event, lastOnline, status>>
        /\ life' = IF disconnect \/ rec[m].on
                   THEN [life EXCEPT ![m] = IF disconnect THEN "lost" ELSE "left"] ELSE life
        /\ UNCHANGED <<loop, task, panel, recent, now>>

(* An alert with reason TIMEOUT, which the leaders of a team broadcast:     *)
(* another one has lost m (team_alert).                                     *)
Alerted(m) ==
    /\ NoteOffline(m, "TIMEOUT")
    /\ Show("TIMEOUT", m)
    /\ UNCHANGED <<rec, lastOnline, loop, status, task, panel, recent, now, life>>

(* The start of a pairing window forgets the offline members; an allowlist  *)
(* forgets the others and gives each of its members a record.               *)
ForgetOffline ==
    /\ rec' = Restrict(rec, {m \in DOMAIN rec : rec[m].on})
    /\ UNCHANGED <<noted, lastOnline, loop, event, status, task, panel, recent, now, life>>

AllowList(ms) ==
    /\ rec' = [m \in ms |-> IF m \in DOMAIN rec THEN rec[m] ELSE [on |-> FALSE, seen |-> 0]]
    /\ UNCHANGED <<noted, lastOnline, loop, event, status, task, panel, recent, now, life>>
-----------------------------------------------------------------------------
Expired(m) == rec[m].on /\ now - rec[m].seen > Timeout

(* sle_team_prune_stale_members; members of a relay that was lost may be    *)
(* spared for a while.                                                      *)
Tick(spared) ==
    LET gone == {m \in DOMAIN rec : Expired(m)} \ spared
    IN  /\ loop = "tick" /\ loop' = "ticked"
        /\ spared \subseteq {m \in DOMAIN rec : Expired(m)}
        /\ rec' = [m \in DOMAIN rec |-> [rec[m] EXCEPT !.on = @ /\ m \notin gone]]
        /\ life' = [m \in Mate |-> IF m \in gone THEN "silent" ELSE life[m]]
        /\ UNCHANGED <<noted, lastOnline, event, status, task, panel, recent, now>>

LatestLost ==
    {m \in DOMAIN rec : ~rec[m].on /\ \A x \in DOMAIN rec : ~rec[x].on => rec[x].seen =< rec[m].seen}

(* team_display_note_offline_delta: when fewer are online than before, the  *)
(* offline member heard last is the one that timed out.                     *)
NoteDelta ==
    /\ loop = "ticked" /\ loop' = "tick"
    /\ lastOnline' = CountsOf(rec).on
    /\ IF CountsOf(rec).on < lastOnline /\ LatestLost # {}
       THEN \E m \in LatestLost : NoteOffline(m, "TIMEOUT") /\ Show("TIMEOUT", m) /\ ShowNoCounts
       ELSE UNCHANGED <<noted, event, status>>
    /\ UNCHANGED <<rec, task, panel, recent, now, life>>
-----------------------------------------------------------------------------
(* team_display_flush_pending_once: copies and clears under the lock ...    *)
Copies ==
    /\ ~task.busy
    /\ event.dirty \/ status.dirty
    /\ task' = [busy |-> TRUE, event |-> event.show, draws |-> event.dirty,
                status |-> status.show, counts |-> status.dirty]
    /\ event' = [event EXCEPT !.dirty = FALSE]
    /\ status' = [status EXCEPT !.dirty = FALSE]
    /\ UNCHANGED <<rec, noted, lastOnline, loop, panel, recent, now, life>>

(* ws63_st7789_show_event, and ws63_st7789_show_status, which draws nothing *)
(* when the line is the one it drew last.                                   *)
EventDrawn == IF task.draws THEN task.event ELSE panel.event
StatusDrawn == IF task.counts /\ ~recent THEN task.status ELSE panel.status

DropsEarly == status
LeavesEarly == IF task.counts /\ recent THEN [status EXCEPT !.dirty = TRUE] ELSE status

(* ... draws the event, and leaves a status that comes too early.           *)
Draws ==
    /\ task.busy
    /\ panel' = [event |-> EventDrawn, status |-> StatusDrawn]
    /\ status' = LeavesEarly
    /\ recent' = (recent \/ task.counts)
    /\ task' = [busy |-> FALSE]
    /\ UNCHANGED <<rec, noted, lastOnline, loop, event, now, life>>

Settles ==
    /\ recent /\ recent' = FALSE
    /\ UNCHANGED <<rec, noted, lastOnline, loop, event, status, task, panel, now, life>>

TimePasses ==
    /\ now < MaxNow /\ now' = now + 1
    /\ UNCHANGED <<rec, noted, lastOnline, loop, event, status, task, panel, recent, life>>
-----------------------------------------------------------------------------
DisplayNext ==
    \/ \E m \in Mate :
         \/ Hello(m) \/ Alerted(m)
         \/ \E position \in BOOLEAN : Report(m, position)
         \/ \E disconnect \in BOOLEAN : Goes(m, disconnect)
    \/ ForgetOffline
    \/ \E ms \in SUBSET Mate : Cardinality(ms) =< Records /\ AllowList(ms)
    \/ \E spared \in SUBSET DOMAIN rec : Tick(spared)
    \/ NoteDelta \/ Copies \/ Draws \/ Settles \/ TimePasses

DisplaySpec == DisplayInit /\ [][DisplayNext]_displayVars
-----------------------------------------------------------------------------
(* A member that left, or whose connection went, and that has not come back *)
(* is noted offline, though a timeout may have taken it before: only then   *)
(* does its return show as REJOIN (versions/v4.4.56/VERSION.md:31-32).      *)
LostIsNoted ==
    \A m \in DOMAIN noted : life[m] \in {"lost", "left"} => noted[m].offline

(* What was left for the display task reaches the screen: when the task     *)
(* rests and nothing is pending, the screen shows the last event and counts *)
(* written, whatever was written while it drew and however often.           *)
NothingForgotten ==
    ~task.busy =>
        /\ ~event.dirty => panel.event = event.show
        /\ ~status.dirty => panel.status = status.show

(* What holds of the notes and of the screen in every state.                *)
DisplaySafety == DisplayTypeOK /\ LostIsNoted /\ NothingForgotten

(* TIMEOUT names a member whose heartbeats stopped                          *)
(* (versions/v4.4.53/VERSION.md:25).                                        *)
TimeoutNamesSilent ==
    [][\A m \in Mate :
         NoteDelta /\ event' = [show |-> [type |-> "TIMEOUT", of |-> m], dirty |-> TRUE]
         => life[m] = "silent" \/ event' = event]_displayVars

(* A member that comes back after a timeout is shown as REJOIN              *)
(* (versions/v4.4.53/VERSION.md:27).                                        *)
ReturnIsRejoin ==
    [][\A m \in Mate :
         Hello(m) /\ m \in DOMAIN noted /\ loop = "tick" /\ life[m] = "silent"
         => event'.show = [type |-> "REJOIN", of |-> m]]_displayVars

(* A second HELLO of a member that is online shows nothing                  *)
(* (versions/v4.4.53/VERSION.md:17).                                        *)
NoSpam ==
    [][\A m \in Mate : Hello(m) /\ life[m] = "joined" => event' = event]_displayVars
=============================================================================
