----------------------------- MODULE LeaderScan -----------------------------
(***************************************************************************)
(* Whom a leader connects to: the filter of its scan, and the rotation of  *)
(* connections while its pairing window is open.  The link client itself   *)
(* is SleClient; here a device that is let through is connected at once.   *)
(***************************************************************************)
EXTENDS Naturals, FiniteSets

CONSTANTS
    Talker,      \* ids of the devices that say HELLO once they are connected
    Near,        \* those of route bucket 1, which a leader serves directly
    Silent,      \* any device that advertises and never says anything
    MaxConn,     \* SLE_UART_CLIENT_MAX_CON
    Keep,        \* SLE_TEAM_PAIRING_KEEP_CONNECTED
    RecordSlots  \* SLE_TEAM_MAX_MEMBERS: member records, and staged members

ASSUME ScanAssumption ==
    /\ IsFiniteSet(Talker) /\ Silent \notin Talker
    /\ 0 \notin Talker \cup {Silent} /\ Near \subseteq Talker \cup {Silent}
    /\ MaxConn \in Nat \ {0} /\ Keep \in Nat /\ Keep < MaxConn
    /\ RecordSlots \in Nat \ {0}

ConnSlots == 1 .. MaxConn
Free == 0

VARIABLES
    table,       \* per device: no record, pending, offline or online
    relays,      \* online members with relay_allowed
    allowed,     \* the allowlist
    pairing,     \* cfg.pairing_enabled
    sought,      \* the ids a failover window seeks
    conns,       \* the client's table: the device in each slot, Free if none
    bound,       \* the slots whose device sent a packet
    rotate       \* pairing_rotate_index

scanVars == <<table, relays, allowed, pairing, sought, conns, bound, rotate>>

Online == {d \in Talker : table[d] = "online"}
Recorded == {d \in Talker : table[d] \in {"offline", "online"}}
Staged == {d \in Talker : table[d] = "pending"}
Admitted == {d \in Talker : table[d] \in {"pending", "online"}}
Used == {i \in ConnSlots : conns[i] # Free}

ScanTypeOK ==
    /\ table \in [Talker -> {"none", "pending", "offline", "online"}]
    /\ relays \subseteq Online
    /\ allowed \subseteq Talker /\ sought \subseteq Talker
    /\ pairing \in BOOLEAN
    /\ conns \in [ConnSlots -> Talker \cup {Silent, Free}]
    /\ bound \subseteq Used
    /\ rotate \in 0 .. MaxConn - 1

ScanInit ==
    /\ table = [d \in Talker |-> "none"]
    /\ relays = {} /\ allowed = {} /\ sought = {}
    /\ pairing = FALSE
    /\ conns = [i \in ConnSlots |-> Free]
    /\ bound = {}
    /\ rotate = 0
-----------------------------------------------------------------------------
(* The filter.                                                              *)

(* team_leader_member_should_accept_direct: a member that is not online,    *)
(* while there is no relay; one that is, if it belongs to the leader.  That *)
(* is where relays and, without a relay, all of them belong; of another one *)
(* LeaderRoutes decides, and here it may be accepted or refused.            *)
AcceptsDirect(d) == table[d] = "online" \/ relays = {}
Refusable(d) == table[d] = "online" /\ d \notin relays /\ relays # {}

(* team_leader_should_seek_member: by its record, by the list, or because   *)
(* it is near.                                                              *)
Knows(d) == d \in Talker /\ (table[d] \in {"offline", "online"} \/ d \in allowed)

Accepts(d) ==
    \/ pairing \/ d \in sought
    \/ IF ~Knows(d) THEN d \in Near
       ELSE IF table[d] \in {"offline", "online"} THEN AcceptsDirect(d) ELSE relays = {}

(* The lowest free slot is taken.  Of silent devices there are as many as   *)
(* can be connected.                                                        *)
Connect(d) ==
    /\ Accepts(d)
    /\ d \in Talker => \A i \in ConnSlots : conns[i] # d
    /\ \E i \in ConnSlots \ Used :
         /\ \A j \in ConnSlots \ Used : i =< j
         /\ conns' = [conns EXCEPT ![i] = d]
    /\ UNCHANGED <<table, relays, allowed, pairing, sought, bound, rotate>>

(* sle_team_node_is_member_allowed: a list of nobody lets everybody in.     *)
LetsIn(d) == allowed = {} \/ d \in allowed

HasRoom(d) == d \in Recorded \/ Cardinality(Recorded) < RecordSlots
StageRoom(d) == d \in Staged \/ Cardinality(Staged) < RecordSlots

(* A HELLO, answered with CONFIG and ACK.  While the window is open and the *)
(* list is empty who has no record is staged; then the list decides; and    *)
(* who is not in it is staged in a window, unless there is a record of it.  *)
Stages(d) == pairing /\ d \notin Recorded /\ (allowed = {} \/ ~LetsIn(d))

Speak(i) ==
    LET d == conns[i]
    IN  /\ d \in Talker
        /\ bound' = bound \cup {i}
        /\ table' = [table EXCEPT ![d] =
                       IF Stages(d) THEN IF StageRoom(d) THEN "pending" ELSE @
                       ELSE IF LetsIn(d) /\ HasRoom(d) THEN "online" ELSE @]
        /\ UNCHANGED <<relays, allowed, pairing, sought, conns, rotate>>

(* A report of one that believes it is a member asks for no approval.       *)
ReportsIn(i) ==
    LET d == conns[i]
    IN  /\ d \in Talker /\ LetsIn(d)
        /\ bound' = bound \cup {i}
        /\ table' = [table EXCEPT ![d] = IF HasRoom(d) THEN "online" ELSE @]
        /\ UNCHANGED <<relays, allowed, pairing, sought, conns, rotate>>

(* Whatever was said, and the CONFIG or the ACK could not be sent.          *)
Unanswered(i) ==
    /\ conns[i] \in Talker
    /\ bound' = bound \cup {i}
    /\ UNCHANGED <<table, relays, allowed, pairing, sought, conns, rotate>>

(* A failover window watches who was heard through the lost relay.          *)
Gone(d) ==
    /\ table' = [table EXCEPT ![d] = "offline"]
    /\ relays' = relays \ {d}
    /\ \/ d \notin relays /\ UNCHANGED sought
       \/ d \in relays /\ \E watched \in SUBSET Talker :
                             sought' = IF watched \subseteq {d} THEN {} ELSE watched \cup {d}

LinkDown(i) ==
    LET d == conns[i]
    IN  /\ d # Free
        /\ conns' = [conns EXCEPT ![i] = Free] /\ bound' = bound \ {i}
        /\ IF d \in Online THEN Gone(d) ELSE UNCHANGED <<table, relays, sought>>
        /\ UNCHANGED <<allowed, pairing, rotate>>

Expire(d) == d \in Online /\ Gone(d) /\ UNCHANGED <<allowed, pairing, conns, bound, rotate>>

FailoverEnds ==
    sought # {} /\ sought' = {} /\ UNCHANGED <<table, relays, allowed, pairing, conns, bound, rotate>>
-----------------------------------------------------------------------------
(* The operator.                                                            *)

(* sle_team_node_pairing_start, and team_leader_pairing_restart_scan: who   *)
(* was staged has to say HELLO again.                                       *)
PairingStart ==
    /\ pairing' = TRUE
    /\ table' = [d \in Talker |-> IF table[d] = "pending" THEN "none" ELSE table[d]]
    /\ rotate' = 0
    /\ UNCHANGED <<relays, allowed, sought, conns, bound>>

(* Who has a record is in the allowlist from now on, and who is staged, as  *)
(* far as there are records for them.  The index is not read before the next *)
(* window starts it again at 0.                                             *)
PairingStop ==
    /\ pairing
    /\ pairing' = FALSE
    /\ \E fit \in SUBSET Staged :
         /\ \/ fit = Staged
            \/ Cardinality(fit) + Cardinality(Recorded) = RecordSlots
         /\ Cardinality(fit) + Cardinality(Recorded) =< RecordSlots
         /\ table' = [d \in Talker |-> IF d \in fit THEN "online" ELSE table[d]]
         /\ allowed' = allowed \cup Recorded \cup fit
    /\ rotate' = 0
    /\ UNCHANGED <<relays, sought, conns, bound>>

Approve(d) ==
    /\ d \in Staged /\ HasRoom(d)
    /\ table' = [table EXCEPT ![d] = "online"]
    /\ allowed' = allowed \cup {d}
    /\ UNCHANGED <<relays, pairing, sought, conns, bound, rotate>>

Grant(d) ==
    /\ d \in Online \ relays
    /\ relays' = relays \cup {d}
    /\ UNCHANGED <<table, allowed, pairing, sought, conns, bound, rotate>>

RemoveMember(d) ==
    /\ d \in allowed
    /\ table' = [table EXCEPT ![d] = "none"]
    /\ allowed' = allowed \ {d} /\ relays' = relays \ {d}
    /\ UNCHANGED <<pairing, sought, conns, bound, rotate>>
-----------------------------------------------------------------------------
(* The rotation.                                                            *)

(* sle_uart_client_get_active_conns: the n-th connection, from 0            *)
Nth(n) == CHOOSE i \in Used : Cardinality({j \in Used : j < i}) = n

KeptStaged == {i \in bound : table[conns[i]] = "pending"}

(* Connections of members that are pending or online                        *)
Kept == {i \in bound : conns[i] \in Admitted}

Cuts(index) ==
    LET count == Cardinality(Used)
        At(n) == (index + n) % count
        first == {n \in 0 .. count - 1 : /\ Nth(At(n)) \notin Kept
                                         /\ \A p \in 0 .. n - 1 : Nth(At(p)) \in Kept}
    IN  {At(n) : n \in first}

KeepsPlace(kept) == Cardinality(Used) > Keep /\ kept > Keep
TooMany(kept) == Cardinality(Used) > Keep /\ Cardinality(Used) - kept > Keep

(* team_leader_pairing_rotate_connections, while its disconnects are        *)
(* accepted.  An interval passes between two of its looks; one that finds   *)
(* nothing to cut changes nothing.                                          *)
Rotate ==
    /\ pairing /\ TooMany(Cardinality(Kept))
    /\ \E n \in Cuts(rotate) :
         /\ conns' = [conns EXCEPT ![Nth(n)] = Free]
         /\ bound' = bound \ {Nth(n)}
         /\ rotate' = (n + 1) % Cardinality(Used)
    /\ UNCHANGED <<table, relays, allowed, pairing, sought>>
-----------------------------------------------------------------------------
ScanNext ==
    \/ PairingStart \/ PairingStop \/ FailoverEnds \/ Rotate
    \/ \E i \in ConnSlots : Speak(i) \/ ReportsIn(i) \/ Unanswered(i) \/ LinkDown(i)
    \/ Connect(Silent)
    \/ \E d \in Talker : Connect(d) \/ Expire(d) \/ Approve(d) \/ Grant(d) \/ RemoveMember(d)

ScanSpec == ScanInit /\ [][ScanNext]_scanVars

(* A scan that sees the device lets it through, and it says HELLO.          *)
Found(d) == (pairing \/ d \in sought \/ ~Refusable(d)) /\ Connect(d)
HeardFrom(d) == \E i \in ConnSlots : conns[i] = d /\ Speak(i)

(* The main loop runs; a device that keeps advertising is found sometimes,  *)
(* and one that is connected again and again is heard and answered.         *)
ScanFairness ==
    /\ WF_scanVars(Rotate)
    /\ \A d \in Talker : SF_scanVars(Found(d)) /\ SF_scanVars(HeardFrom(d))

ScanFairSpec == ScanSpec /\ ScanFairness
-----------------------------------------------------------------------------
(* Making room cuts nobody that is in: a member that is online and was      *)
(* heard over a connection loses it only by going offline.                  *)
MembersNotRotated ==
    [][\A i \in bound : conns[i] \in Online /\ conns'[i] = Free => table'[conns[i]] # "online"]_scanVars

(* What every step keeps. *)
ScanSafety == []ScanTypeOK /\ MembersNotRotated

(* Rotation has a place to give: without the members and candidates that    *)
(* stay connected, more than Keep places are left.  There are records and   *)
(* places to be staged, and no old record of a device that the list, which  *)
(* the first approval of the window enforced, does not name.                *)
PlaceFor(d) ==
    /\ Cardinality(Kept) + Keep < MaxConn
    /\ HasRoom(d) /\ StageRoom(d)
    /\ d \in Recorded => LetsIn(d)

(* In a window that stays open, a device that wants in comes in, although   *)
(* members hold some connections and silent devices hold all the others, as *)
(* long as there is a place for rotation to give.  Without that it may not: *)
(* see UnknownMakeRoom.                                                     *)
CandidateIsHeard ==
    \A d \in Talker : <>[](pairing /\ PlaceFor(d)) => []<>(d \in Admitted)

(* Known and silent members that the links do not hold for long enough are  *)
(* not given up: with no relay to take it, a member that is offline comes   *)
(* back, pairing or not.                                                    *)
KnownReturns ==
    \A d \in Talker : ~ <>[](table[d] = "offline" /\ d \in allowed /\ relays = {} /\ Used # ConnSlots)

(* A device that keeps talking comes in, new or known.                      *)
TalkersComeIn == CandidateIsHeard /\ KnownReturns

(* In a window that stays open, a full table in which some connection is of *)
(* a device that is neither pending nor online is given room again          *)
(* (docs/v2/networking-goal.md:43, in Chinese: the leader rotates such      *)
(* connections out by period and frees their slots for new candidates).     *)
UnknownMakeRoom ==
    <>[]pairing => []<>(Used # ConnSlots \/ {conns[i] : i \in Used} \subseteq Admitted)
=============================================================================
