---------------------------- MODULE TeamLeader -----------------------------
(***************************************************************************)
(* The leader side of src/sle_team_node.c: who may join (the allowlist,    *)
(* the pairing window and its pending table), who is in the member table,  *)
(* who is online and who holds a relay grant.  Of the hooks in ops, this   *)
(* module lets should_defer_member_timeout answer anything and send fail   *)
(* at will; on_relay_offline is NULL, as it is in examples/.               *)
(*                                                                         *)
(* The tables are sets of ids: both look a slot up by id before they take  *)
(* a free one, so a slot is determined by its id, and what is left of the  *)
(* array is its capacity.  Time is the age of what a record remembers, in  *)
(* clock seconds, and stops mattering one second past the timeout.         *)
(***************************************************************************)
EXTENDS TeamTypes, FiniteSets

CONSTANTS
    MaxMembers,         \* SLE_TEAM_MAX_MEMBERS: slots of either table
    HeartbeatTimeout,   \* cfg.heartbeat_timeout_s, 0: members never expire
    HeartbeatInterval   \* cfg.heartbeat_interval_s

ASSUME LeaderAssumption ==
    /\ IsFiniteSet(Member)
    /\ MaxMembers \in Nat \ {0}
    /\ HeartbeatTimeout \in Nat
    /\ HeartbeatInterval \in Nat \ {0}

VARIABLES
    filter,         \* cfg.member_filter_enabled
    pairing,        \* cfg.pairing_enabled
    allowed,        \* cfg.allowed_member_ids[0 .. allowed_member_count - 1]
    recorded,       \* ids with a slot in members[]
    online,         \* those whose slot has online = 1
    relay,          \* those whose slot has relay_allowed = 1
    silence,        \* now_s - last_seen_s of a slot
    pending,        \* ids with an active slot in pending_members[]
    waiting,        \* now_s - last_seen_s of a pending slot
    uptime,         \* now_s, the age of a last_seen_s that is still 0
    beatAge,        \* now_s - last_heartbeat_s
    sent            \* the packets ops.send accepted in the last step

leaderVars == <<filter, pairing, allowed, recorded, online, relay, silence,
                pending, waiting, uptime, beatAge, sent>>

admission == <<filter, pairing, allowed>>
timers == <<uptime, beatAge>>

Lost == HeartbeatTimeout + 1      \* every age past the timeout is this one
Age == 0 .. Lost
Older(age) == IF age = Lost THEN Lost ELSE age + 1
-----------------------------------------------------------------------------
LeaderTypeOK ==
    /\ filter \in BOOLEAN /\ pairing \in BOOLEAN
    /\ allowed \subseteq Member
    /\ recorded \subseteq Member
    /\ online \subseteq Member
    /\ relay \subseteq Member
    /\ silence \in [Member -> Age]
    /\ pending \subseteq Member
    /\ waiting \in [Member -> Age]
    /\ uptime \in Age
    /\ beatAge \in 0 .. HeartbeatInterval
    /\ sent \subseteq Packet

(* sle_team_node_init of a leader: nothing but the role survives a boot.    *)
(* Whether the filter is on is up to the caller: the WS63 adapter switches  *)
(* it on, the programs in examples/ leave it off.                           *)
LeaderInit ==
    /\ filter \in BOOLEAN /\ pairing = FALSE
    /\ allowed = {} /\ recorded = {} /\ online = {} /\ relay = {}
    /\ silence = [m \in Member |-> 0]
    /\ pending = {} /\ waiting = [m \in Member |-> 0]
    /\ uptime = 0 /\ beatAge = 0
    /\ sent = {}
-----------------------------------------------------------------------------
(* sle_team_node_is_member_allowed: an empty allowlist admits everyone.     *)
IsMemberAllowed(m) == filter => (allowed = {} \/ m \in allowed)

HasSlotFor(m) == m \in recorded \/ Cardinality(recorded) < MaxMembers
PendingSlotLate(m) == m \in pending \/ Cardinality(pending) =< MaxMembers
HasPendingSlotFor(m) == m \in pending \/ Cardinality(pending) < MaxMembers

(* What sle_team_node_send_config tells m: the grant of an online record,   *)
(* hidden (discovery only) while the pairing window is open.               *)
ConfigToNobody(m, onlineNow, relayNow, pairingNow) == Config(NoNode, FALSE, FALSE)

ConfigFor(m, onlineNow, relayNow, pairingNow) ==
    LET grant == m \in onlineNow \cap relayNow
    IN  Config(m, grant, grant /\ pairingNow)

(* memset of the slots of gone, with every flag they held.                  *)
EraseButRelay(gone) ==
    /\ recorded' = recorded \ gone
    /\ online' = online \ gone
    /\ relay' = relay
    /\ silence' = [m \in Member |-> IF m \in gone THEN 0 ELSE silence[m]]

Erase(gone) ==
    /\ recorded' = recorded \ gone
    /\ online' = online \ gone
    /\ relay' = relay \ gone
    /\ silence' = [m \in Member |-> IF m \in gone THEN 0 ELSE silence[m]]

(* sle_team_leader_refresh_relay_config: CONFIG to every online relay.  The *)
(* send to any of them may fail.                                            *)
RelayConfigsBefore == {ConfigFor(m, online', relay', pairing) : m \in online' \cap relay'}

RelayConfigs == {ConfigFor(m, online', relay', pairing') : m \in online' \cap relay'}
-----------------------------------------------------------------------------
(* The allowlist operations.                                                *)

AllowAllMembers ==
    /\ filter' = FALSE
    /\ allowed' = {}
    /\ Erase(recorded \ online)
    /\ sent' = {}
    /\ UNCHANGED <<pairing, pending, waiting, timers>>

(* sle_team_alloc_offline_member_record leaves last_seen_s at 0.            *)
SetAllowedMembers(ids) ==
    /\ Cardinality(ids) =< MaxMembers
    /\ filter' = TRUE
    /\ allowed' = ids
    /\ recorded' = ids
    /\ online' = online \cap ids
    /\ relay' = relay \cap ids
    /\ silence' = [m \in Member |-> IF m \notin ids THEN 0
                                    ELSE IF m \in recorded THEN silence[m]
                                    ELSE uptime]
    /\ sent' = {}
    /\ UNCHANGED <<pairing, pending, waiting, timers>>

(* The state sle_team_node_add_allowed_member(m) leaves when it succeeds.   *)
(* It fails, and changes nothing, when m needs a slot and none is free.     *)
CanAllow(m) == HasSlotFor(m) /\ (m \in allowed \/ Cardinality(allowed) < MaxMembers)

AddAllowedMember(m) ==
    /\ CanAllow(m)
    /\ filter' = TRUE
    /\ allowed' = allowed \cup {m}
    /\ recorded' = recorded \cup {m}
    /\ silence' = IF m \in recorded THEN silence ELSE [silence EXCEPT ![m] = uptime]
    /\ sent' = {}
    /\ UNCHANGED <<pairing, online, relay, pending, waiting, timers>>

RemoveAllowedMember(m) ==
    /\ m \in allowed
    /\ allowed' = allowed \ {m}
    /\ Erase({m})
    /\ sent' = {}
    /\ UNCHANGED <<filter, pairing, pending, waiting, timers>>
-----------------------------------------------------------------------------
(* The pairing window.                                                      *)

PairingStart ==
    /\ pairing' = TRUE
    /\ filter' = TRUE
    /\ pending' = {}
    /\ waiting' = [m \in Member |-> 0]
    /\ UNCHANGED <<allowed, recorded, online, relay, silence, timers>>
    /\ sent' \in SUBSET RelayConfigs

(* sle_team_node_pairing_approve_with_relay: the member is admitted and     *)
(* marked online whatever becomes of CONFIG and ACK; only when both are     *)
(* handed to the transport is its pending slot freed.                       *)
AnythingTold(wanted, accepted) == accepted # {}

ToldInFull(wanted, accepted) == accepted = wanted

Approve(m, grant) ==
    /\ CanAllow(m)
    /\ filter' = TRUE
    /\ allowed' = allowed \cup {m}
    /\ recorded' = recorded \cup {m}
    /\ online' = online \cup {m}
    /\ relay' = IF grant THEN relay \cup {m} ELSE relay \ {m}
    /\ silence' = [silence EXCEPT ![m] = IF m \in pending THEN waiting[m]
                                         ELSE IF m \in recorded THEN silence[m]
                                         ELSE uptime]
    /\ LET wanted == {ConfigFor(m, online', relay', pairing), HelloAck(m)}
       IN  \E accepted \in SUBSET wanted :
             /\ sent' = accepted
             /\ IF ToldInFull(wanted, accepted)
                THEN /\ pending' = pending \ {m}
                     /\ waiting' = [waiting EXCEPT ![m] = 0]
                ELSE UNCHANGED <<pending, waiting>>
    /\ UNCHANGED <<pairing, timers>>

(* The ids pairing_stop collects from the member table.                     *)
OnlineMembers == online

KnownMembers == recorded

(* sle_team_node_pairing_stop: first every known member enters the          *)
(* allowlist, then the pending members are approved without a grant, in     *)
(* slot order, as long as the member table has room for them (seated).  At  *)
(* last the relays are told that the window is closed.                      *)
PairingStop ==
    LET newcomers == pending \ recorded
        room == MaxMembers - Cardinality(recorded)
    IN  \E seated \in SUBSET newcomers :
          LET admitted == (pending \cap recorded) \cup seated
          IN  /\ Cardinality(seated) = (IF Cardinality(newcomers) < room
                                           THEN Cardinality(newcomers) ELSE room)
              /\ filter' = (filter \/ KnownMembers \cup admitted # {})
              /\ pairing' = FALSE
              /\ allowed' = allowed \cup KnownMembers \cup admitted
              /\ recorded' = recorded \cup admitted
              /\ online' = online \cup admitted
              /\ relay' = relay \ admitted
              /\ silence' = [m \in Member |-> IF m \in admitted THEN waiting[m]
                                                                ELSE silence[m]]
              /\ \E configured, acked \in SUBSET admitted, refreshed \in SUBSET RelayConfigs :
                   /\ pending' = pending \ (configured \cap acked)
                   /\ waiting' = [m \in Member |-> IF m \in pending' THEN waiting[m] ELSE 0]
                   /\ sent' = {Config(m, FALSE, FALSE) : m \in configured}
                               \cup {HelloAck(m) : m \in acked}
                               \cup refreshed
              /\ UNCHANGED timers
-----------------------------------------------------------------------------
(* The packet handlers.                                                     *)

(* A HELLO of a node that is not let in yet waits in the pending table.     *)
StageEveryone(m) == pairing /\ filter

MustStage(m) == pairing /\ filter /\ allowed = {} /\ m \notin recorded
MayStage(m) == pairing /\ ~IsMemberAllowed(m) /\ m \notin recorded

StageHello(m) ==
    /\ MustStage(m) \/ MayStage(m)
    /\ HasPendingSlotFor(m)
    /\ pending' = pending \cup {m}
    /\ waiting' = [waiting EXCEPT ![m] = 0]
    /\ sent' = {}
    /\ UNCHANGED <<admission, recorded, online, relay, silence, timers>>

(* An admitted HELLO is answered with CONFIG, then ACK.  When either cannot *)
(* be sent, a new record is wiped again; a known one stays online and fresh.*)
JoinHello(m) ==
    /\ ~MustStage(m)
    /\ IsMemberAllowed(m)
    /\ HasSlotFor(m)
    /\ LET config == ConfigFor(m, online \cup {m}, relay, pairing)
       IN  \/ /\ sent' = {config, HelloAck(m)}
              /\ pending' = pending \ {m}
              /\ waiting' = [waiting EXCEPT ![m] = 0]
              /\ recorded' = recorded \cup {m}
              /\ online' = online \cup {m}
              /\ silence' = [silence EXCEPT ![m] = 0]
           \/ /\ sent' \in {{}, {config}}
              /\ online' = online \cup ({m} \cap recorded)
              /\ silence' = IF m \in recorded THEN [silence EXCEPT ![m] = 0] ELSE silence
              /\ UNCHANGED <<pending, waiting, recorded>>
    /\ UNCHANGED <<admission, relay, timers>>

OnHello(m) == StageHello(m) \/ JoinHello(m)

(* A heartbeat or a position report of an admitted node: a node without a   *)
(* record gets one here too.                                               *)
OnReport(m) ==
    /\ IsMemberAllowed(m)
    /\ HasSlotFor(m)
    /\ recorded' = recorded \cup {m}
    /\ online' = online \cup {m}
    /\ silence' = [silence EXCEPT ![m] = 0]
    /\ sent' = {}
    /\ UNCHANGED <<admission, relay, pending, waiting, timers>>

(* sle_team_leader_mark_member_left.  last_report_s is the time of the      *)
(* member's own clock, so against the leader's it has any age.              *)
OnLeave(m) ==
    /\ m \in online
    /\ online' = online \ {m}
    /\ relay' = relay \ {m}
    /\ \E age \in Age : silence' = [silence EXCEPT ![m] = age]
    /\ sent' = {}
    /\ UNCHANGED <<admission, recorded, pending, waiting, timers>>
-----------------------------------------------------------------------------
(* sle_team_node_tick of a leader: expire the silent members that           *)
(* should_defer_member_timeout does not spare, then beat if anyone is left  *)
(* online.                                                                  *)
Expired == {m \in online : HeartbeatTimeout # 0 /\ silence[m] > HeartbeatTimeout}

Tick(spared) ==
    LET lost == Expired \ spared
        beats == online \ lost # {} /\ beatAge >= HeartbeatInterval
    IN  /\ online' = online \ lost
        /\ beatAge' = IF beats THEN 0 ELSE beatAge
        /\ sent' = {Alert(Leader, Broadcast, m, "TIMEOUT") : m \in lost}
                   \cup (IF beats THEN {Heartbeat(Leader, Broadcast)} ELSE {})
        /\ UNCHANGED <<admission, recorded, relay, silence, pending, waiting, uptime>>

(* One second of the leader's clock.                                        *)
Second ==
    /\ silence' = [m \in Member |-> IF m \in recorded THEN Older(silence[m]) ELSE 0]
    /\ waiting' = [m \in Member |-> IF m \in pending THEN Older(waiting[m]) ELSE 0]
    /\ uptime' = Older(uptime)
    /\ beatAge' = IF beatAge = HeartbeatInterval THEN beatAge ELSE beatAge + 1
    /\ sent' = {}
    /\ UNCHANGED <<admission, recorded, online, relay, pending>>
-----------------------------------------------------------------------------
Operator ==
    \/ AllowAllMembers
    \/ \E ids \in SUBSET Member : SetAllowedMembers(ids)
    \/ \E m \in Member : AddAllowedMember(m)
    \/ \E m \in Member : RemoveAllowedMember(m)
    \/ PairingStart
    \/ PairingStop
    \/ \E m \in Member, grant \in BOOLEAN : Approve(m, grant)

Receive == \E m \in Member : OnHello(m) \/ OnReport(m) \/ OnLeave(m)

LeaderNext ==
    \/ Operator
    \/ Receive
    \/ \E spared \in SUBSET Member : Tick(spared)
    \/ Second

LeaderSpec == LeaderInit /\ [][LeaderNext]_leaderVars
-----------------------------------------------------------------------------
(* Who is approved owns a slot of the member table, and no flag outlives    *)
(* the record that held it: a slot wiped by a failed join, a removal or a   *)
(* new allowlist leaves neither an online node nor a relay grant behind.    *)
NoGhosts ==
    /\ allowed \subseteq recorded
    /\ online \subseteq recorded
    /\ relay \subseteq recorded
    /\ ~filter => allowed = {}

(* Neither table ever holds more than its array.                            *)
WithinCapacity ==
    /\ Cardinality(recorded) =< MaxMembers
    /\ Cardinality(pending) =< MaxMembers

(* docs/v2/networking-goal.md: an approved member rejoins without being     *)
(* approved again.  Its HELLO is never staged, refused or left without a    *)
(* slot, however full the table is and whatever the window does.            *)
FastRejoin ==
    \A m \in allowed : IsMemberAllowed(m) /\ ~MustStage(m) /\ HasSlotFor(m)

(* What a CONFIG tells its receiver is what the tables say when the step    *)
(* ends: a grant goes to an online relay only, and a relay is put in        *)
(* discovery-only mode exactly while the window is open.                    *)
ConfigTellsTable ==
    \A p \in sent : p.type = "CONFIG" =>
        /\ p.grant <=> p.dst \in online \cap relay
        /\ p.hidden <=> p.grant /\ pairing

(* Closing the window seals in everyone the leader knew: whoever has a      *)
(* record keeps being heard once the allowlist is enforced.                 *)
PairingSealsKnown ==
    [][pairing /\ ~pairing' => recorded \subseteq allowed' /\ online \subseteq online']_leaderVars

(* A candidate waits until it is let in and was told so in full: a CONFIG   *)
(* or an ACK that could not be sent leaves it in the pending table.  Only a *)
(* new window forgets it.                                                   *)
PendingUntilTold ==
    [][\A m \in pending \ pending' :
          \/ pairing' /\ pending' = {}
          \/ /\ m \in online'
             /\ HelloAck(m) \in sent'
             /\ \E g, h \in BOOLEAN : Config(m, g, h) \in sent']_leaderVars
=============================================================================
