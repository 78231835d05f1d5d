------------------------- MODULE TeamLeader_proofs -------------------------
(***************************************************************************)
(* What TeamLeader guarantees for any number of members, any table size    *)
(* and any timeout.                                                        *)
(***************************************************************************)
EXTENDS TeamLeader, FiniteSetTheorems, TLAPS

(* The packets a leader hands to its transport are well formed.             *)
LEMMA ConfigTyped == \A m \in Member : \A g, h \in BOOLEAN : Config(m, g, h) \in Packet
  BY DEF Packet, ToMember

(* The CONFIG composed for a member is one of the four CONFIGs to it.       *)
LEMMA ConfigForShape ==
    ASSUME NEW m, NEW on, NEW rel, NEW open \in BOOLEAN
    PROVE  \E g, h \in BOOLEAN : ConfigFor(m, on, rel, open) = Config(m, g, h)
<1> DEFINE grant == m \in on \cap rel
<1>1. grant \in BOOLEAN /\ (grant /\ open) \in BOOLEAN
  OBVIOUS
<1>2. ConfigFor(m, on, rel, open) = Config(m, grant, grant /\ open)
  BY DEF ConfigFor
<1> HIDE DEF grant
<1> QED
  BY <1>1, <1>2

(* The CONFIG composed for a member is a packet.                            *)
LEMMA ConfigForTyped ==
    ASSUME NEW m \in Member, NEW on, NEW rel, NEW open \in BOOLEAN
    PROVE  ConfigFor(m, on, rel, open) \in Packet
  BY ConfigForShape, ConfigTyped

(* The ACK of a HELLO is a packet.                                          *)
LEMMA HelloAckTyped == \A m \in Member : HelloAck(m) \in Packet
  BY DEF Packet, ToMember

(* The CONFIGs that tell every relay of the window are packets.             *)
LEMMA RelayConfigsTyped ==
    ASSUME online' \subseteq Member, pairing' \in BOOLEAN
    PROVE  RelayConfigs \subseteq Packet
  BY ConfigForTyped DEF RelayConfigs

(* A silence counted one second longer is still a silence.                  *)
LEMMA AgeFacts == /\ 0 \in Age
                  /\ \A age \in Age : Older(age) \in Age
  BY LeaderAssumption DEF Age, Lost, Older

(* PairingStop as its table updates, for the proofs that need no count.     *)
LEMMA PairingStopTables ==
    ASSUME PairingStop
    PROVE  \E seated \in SUBSET (pending \ recorded) :
             LET admitted == (pending \cap recorded) \cup seated
             IN  /\ filter' = (filter \/ KnownMembers \cup admitted # {})
                 /\ pairing' = FALSE
                 /\ allowed' = allowed \cup KnownMembers \cup admitted
                 /\ recorded' = recorded \cup admitted
                 /\ online' = online \cup admitted
                 /\ relay' = relay \ admitted
                 /\ silence' = [m \in Member |-> IF m \in admitted THEN waiting[m]
                                                                   ELSE silence[m]]
                 /\ \E configured, acked \in SUBSET admitted, refreshed \in SUBSET RelayConfigs :
                      /\ pending' = pending \ (configured \cap acked)
                      /\ waiting' = [m \in Member |-> IF m \in pending' THEN waiting[m] ELSE 0]
                      /\ sent' = {Config(m, FALSE, FALSE) : m \in configured}
                                  \cup {HelloAck(m) : m \in acked}
                                  \cup refreshed
                 /\ UNCHANGED timers
  BY Zenon DEF PairingStop

(* Every variable keeps its type: the tables hold members only, every age   *)
(* stays within the timeout, and only well-formed packets are sent.         *)
THEOREM LeaderTypeCorrect == LeaderSpec => []LeaderTypeOK
<1>1. ASSUME LeaderInit PROVE LeaderTypeOK
  <2>1. filter \in BOOLEAN /\ pairing \in BOOLEAN
    BY <1>1 DEF LeaderInit
  <2>2. silence \in [Member -> Age] /\ waiting \in [Member -> Age] /\ uptime \in Age
    BY <1>1, AgeFacts DEF LeaderInit
  <2>3. beatAge \in 0 .. HeartbeatInterval
    BY <1>1, LeaderAssumption DEF LeaderInit
  <2> QED
    BY <1>1, <2>1, <2>2, <2>3 DEF LeaderInit, LeaderTypeOK
<1>2. LeaderTypeOK /\ [LeaderNext]_leaderVars => LeaderTypeOK'
  <2> SUFFICES ASSUME LeaderTypeOK, [LeaderNext]_leaderVars
               PROVE  LeaderTypeOK'
    OBVIOUS
  <2> USE DEF LeaderTypeOK
  <2>1. CASE AllowAllMembers
    BY <2>1, AgeFacts DEF AllowAllMembers, Erase, timers
  <2>2. ASSUME NEW ids \in SUBSET Member, SetAllowedMembers(ids) PROVE LeaderTypeOK'
    BY <2>2, AgeFacts DEF SetAllowedMembers, timers
  <2>3. ASSUME NEW m \in Member, AddAllowedMember(m) PROVE LeaderTypeOK'
    BY <2>3 DEF AddAllowedMember, timers
  <2>4. ASSUME NEW m \in Member, RemoveAllowedMember(m) PROVE LeaderTypeOK'
    BY <2>4, AgeFacts DEF RemoveAllowedMember, Erase, timers
  <2>5. CASE PairingStart
    BY <2>5, AgeFacts, RelayConfigsTyped DEF PairingStart, timers
  <2>6. CASE PairingStop
    <3>1. PICK seated \in SUBSET (pending \ recorded) :
            LET admitted == (pending \cap recorded) \cup seated
            IN  /\ filter' = (filter \/ KnownMembers \cup admitted # {})
                /\ pairing' = FALSE
                /\ allowed' = allowed \cup KnownMembers \cup admitted
                /\ recorded' = recorded \cup admitted
                /\ online' = online \cup admitted
                /\ relay' = relay \ admitted
                /\ silence' = [m \in Member |-> IF m \in admitted THEN waiting[m]
                                                                  ELSE silence[m]]
                /\ \E configured, acked \in SUBSET admitted, refreshed \in SUBSET RelayConfigs :
                     /\ pending' = pending \ (configured \cap acked)
                     /\ waiting' = [m \in Member |-> IF m \in pending' THEN waiting[m] ELSE 0]
                     /\ sent' = {Config(m, FALSE, FALSE) : m \in configured}
                                 \cup {HelloAck(m) : m \in acked}
                                 \cup refreshed
                /\ UNCHANGED timers
      BY <2>6, PairingStopTables, Zenon
    <3> DEFINE admitted == (pending \cap recorded) \cup seated
    <3>2. PICK configured \in SUBSET admitted, acked \in SUBSET admitted,
               refreshed \in SUBSET RelayConfigs :
            /\ pending' = pending \ (configured \cap acked)
            /\ waiting' = [m \in Member |-> IF m \in pending' THEN waiting[m] ELSE 0]
            /\ sent' = {Config(m, FALSE, FALSE) : m \in configured}
                        \cup {HelloAck(m) : m \in acked}
                        \cup refreshed
      BY <3>1
    <3>3. filter' \in BOOLEAN /\ pairing' \in BOOLEAN
      BY <3>1
    <3>4. allowed' \subseteq Member /\ recorded' \subseteq Member
          /\ online' \subseteq Member /\ relay' \subseteq Member
      BY <3>1 DEF KnownMembers
    <3>5. silence' \in [Member -> Age]
      BY <3>1
    <3>6. pending' \subseteq Member /\ waiting' \in [Member -> Age]
      BY <3>2, AgeFacts
    <3>7. uptime' \in Age /\ beatAge' \in 0 .. HeartbeatInterval
      BY <3>1 DEF timers
    <3>8. sent' \subseteq Packet
      <4>1. refreshed \subseteq Packet
        BY <3>3, <3>4, RelayConfigsTyped
      <4>2. \A m \in admitted : Config(m, FALSE, FALSE) \in Packet
        BY ConfigTyped
      <4> QED
        BY <3>2, <4>1, <4>2, HelloAckTyped
    <3> QED
      BY <3>3, <3>4, <3>5, <3>6, <3>7, <3>8
  <2>7. ASSUME NEW m \in Member, NEW grant \in BOOLEAN, Approve(m, grant) PROVE LeaderTypeOK'
    <3>1. ConfigFor(m, online', relay', pairing) \in Packet
      BY ConfigForTyped
    <3>2. sent' \subseteq Packet
      BY <2>7, <3>1, HelloAckTyped DEF Approve
    <3>3. pending' \subseteq Member /\ waiting' \in [Member -> Age]
      BY <2>7, AgeFacts DEF Approve
    <3>4. silence' \in [Member -> Age]
      BY <2>7 DEF Approve
    <3> QED
      BY <2>7, <3>2, <3>3, <3>4 DEF Approve, timers
  <2>8. ASSUME NEW m \in Member, OnHello(m) PROVE LeaderTypeOK'
    <3>1. CASE StageHello(m)
      BY <3>1, AgeFacts DEF StageHello, admission, timers
    <3>2. CASE JoinHello(m)
      <4>1. ConfigFor(m, online \cup {m}, relay, pairing) \in Packet
        BY ConfigForTyped
      <4>2. sent' \subseteq Packet
        BY <3>2, <4>1, HelloAckTyped DEF JoinHello
      <4> QED
        BY <3>2, <4>2, AgeFacts DEF JoinHello, admission, timers
    <3> QED
      BY <2>8, <3>1, <3>2 DEF OnHello
  <2>9. ASSUME NEW m \in Member, OnReport(m) PROVE LeaderTypeOK'
    BY <2>9, AgeFacts DEF OnReport, admission, timers
  <2>10. ASSUME NEW m \in Member, OnLeave(m) PROVE LeaderTypeOK'
    BY <2>10 DEF OnLeave, admission, timers
  <2>11. ASSUME NEW spared \in SUBSET Member, Tick(spared) PROVE LeaderTypeOK'
    <3>1. \A m \in Member : Alert(Leader, Broadcast, m, "TIMEOUT") \in Packet
      BY DEF Packet, ToMember
    <3>2. Heartbeat(Leader, Broadcast) \in Packet
      BY DEF Packet, ToMember
    <3>3. sent' \subseteq Packet
      BY <2>11, <3>1, <3>2 DEF Tick, Expired
    <3>4. beatAge' \in 0 .. HeartbeatInterval
      BY <2>11, LeaderAssumption DEF Tick
    <3> QED
      BY <2>11, <3>3, <3>4 DEF Tick, admission
  <2>12. CASE Second
    <3>1. beatAge' \in 0 .. HeartbeatInterval
      BY <2>12, LeaderAssumption DEF Second
    <3> QED
      BY <2>12, <3>1, AgeFacts DEF Second, admission
  <2>13. CASE UNCHANGED leaderVars
    BY <2>13 DEF leaderVars
  <2> QED
    BY <2>1, <2>2, <2>3, <2>4, <2>5, <2>6, <2>7, <2>8, <2>9, <2>10, <2>11, <2>12, <2>13
    DEF LeaderNext, Operator, Receive
<1> QED
  BY <1>1, <1>2, PTL DEF LeaderSpec
-----------------------------------------------------------------------------
(* The tables.                                                              *)

(* No step leaves a flag whose record is gone.                              *)
LEMMA NoGhostsStep ==
    ASSUME LeaderTypeOK, NoGhosts, [LeaderNext]_leaderVars
    PROVE  NoGhosts'
<1> USE DEF NoGhosts
<1>1. CASE AllowAllMembers
  BY <1>1 DEF AllowAllMembers, Erase
<1>2. ASSUME NEW ids \in SUBSET Member, SetAllowedMembers(ids) PROVE NoGhosts'
  BY <1>2 DEF SetAllowedMembers
<1>3. ASSUME NEW m \in Member, AddAllowedMember(m) PROVE NoGhosts'
  BY <1>3 DEF AddAllowedMember
<1>4. ASSUME NEW m \in Member, RemoveAllowedMember(m) PROVE NoGhosts'
  BY <1>4 DEF RemoveAllowedMember, Erase
<1>5. CASE PairingStart
  BY <1>5 DEF PairingStart
<1>6. CASE PairingStop
  <2>1. PICK seated \in SUBSET (pending \ recorded) :
          /\ filter' = (filter \/ KnownMembers \cup ((pending \cap recorded) \cup seated) # {})
          /\ allowed' = allowed \cup KnownMembers \cup ((pending \cap recorded) \cup seated)
          /\ recorded' = recorded \cup ((pending \cap recorded) \cup seated)
          /\ online' = online \cup ((pending \cap recorded) \cup seated)
          /\ relay' = relay \ ((pending \cap recorded) \cup seated)
    BY <1>6, PairingStopTables, Zenon
  <2>2. /\ allowed' \subseteq recorded'
        /\ online' \subseteq recorded'
        /\ relay' \subseteq recorded'
    BY <2>1 DEF KnownMembers
  <2>3. ~filter' => allowed' = {}
    BY <2>1
  <2> QED
    BY <2>2, <2>3
<1>7. ASSUME NEW m \in Member, NEW grant \in BOOLEAN, Approve(m, grant) PROVE NoGhosts'
  BY <1>7 DEF Approve
<1>8. ASSUME NEW m \in Member, OnHello(m) PROVE NoGhosts'
  <2>1. CASE StageHello(m)
    BY <2>1 DEF StageHello, admission
  <2>2. CASE JoinHello(m)
    <3>1. allowed' = allowed /\ filter' = filter /\ relay' = relay
      BY <2>2 DEF JoinHello, admission
    <3>2. recorded \subseteq recorded' /\ online' \subseteq recorded'
      BY <2>2 DEF JoinHello
    <3> QED
      BY <3>1, <3>2
  <2> QED
    BY <1>8, <2>1, <2>2 DEF OnHello
<1>9. ASSUME NEW m \in Member, OnReport(m) PROVE NoGhosts'
  BY <1>9 DEF OnReport, admission
<1>10. ASSUME NEW m \in Member, OnLeave(m) PROVE NoGhosts'
  BY <1>10 DEF OnLeave, admission
<1>11. ASSUME NEW spared \in SUBSET Member, Tick(spared) PROVE NoGhosts'
  BY <1>11 DEF Tick, admission
<1>12. CASE Second
  BY <1>12 DEF Second, admission
<1>13. CASE UNCHANGED leaderVars
  BY <1>13 DEF leaderVars
<1> QED
  BY <1>1, <1>2, <1>3, <1>4, <1>5, <1>6, <1>7, <1>8, <1>9, <1>10, <1>11, <1>12, <1>13
  DEF LeaderNext, Operator, Receive

(* No flag outlives the record that held it.                                *)
THEOREM LeaderHasNoGhosts == LeaderSpec => []NoGhosts
<1>1. LeaderInit => NoGhosts
  BY DEF LeaderInit, NoGhosts
<1>2. LeaderTypeOK /\ NoGhosts /\ [LeaderNext]_leaderVars => NoGhosts'
  BY NoGhostsStep
<1> QED
  BY <1>1, <1>2, LeaderTypeCorrect, PTL DEF LeaderSpec

(* A member that was approved rejoins on its own: its HELLO is admitted, not*)
(* staged, and finds a slot.                                                *)
THEOREM ApprovedRejoinFast == LeaderSpec => []FastRejoin
<1>1. NoGhosts => FastRejoin
  BY DEF NoGhosts, FastRejoin, IsMemberAllowed, MustStage, HasSlotFor
<1> QED
  BY <1>1, LeaderHasNoGhosts, PTL

-----------------------------------------------------------------------------
(* What the leader tells its members.                                       *)

(* What the CONFIG composed for a member says of its grant.                 *)
LEMMA ConfigForTells ==
    ASSUME NEW m, NEW on, NEW rel, NEW open
    PROVE  LET p == ConfigFor(m, on, rel, open)
           IN  /\ p.type = "CONFIG" /\ p.dst = m
               /\ p.grant <=> m \in on \cap rel
               /\ p.hidden <=> m \in on \cap rel /\ open
  BY DEF ConfigFor, Config

(* Every CONFIG a step sends repeats what its receiver's record says when   *)
(* the step ends.                                                           *)
THEOREM ConfigsTellTable == LeaderSpec => []ConfigTellsTable
<1> DEFINE Tells(p) == p.type = "CONFIG" => /\ p.grant <=> p.dst \in online' \cap relay'
                                            /\ p.hidden <=> p.grant /\ pairing'
<1>1. LeaderInit => ConfigTellsTable
  BY DEF LeaderInit, ConfigTellsTable
<1>2. LeaderTypeOK /\ NoGhosts /\ ConfigTellsTable /\ [LeaderNext]_leaderVars
        => ConfigTellsTable'
  <2> SUFFICES ASSUME LeaderTypeOK, NoGhosts, ConfigTellsTable, [LeaderNext]_leaderVars
               PROVE  ConfigTellsTable'
    OBVIOUS
  <2>0. ASSUME \A p \in sent' : Tells(p) PROVE ConfigTellsTable'
    BY <2>0 DEF ConfigTellsTable
  <2>1. ASSUME NEW m PROVE Tells(HelloAck(m))
    BY DEF HelloAck
  <2>2. ASSUME sent' = {} PROVE ConfigTellsTable'
    BY <2>2 DEF ConfigTellsTable
  <2>3. ASSUME NEW p \in RelayConfigs PROVE Tells(p)
    BY ConfigForTells DEF RelayConfigs
  <2>4. CASE PairingStart
    BY <2>4, <2>0, <2>3 DEF PairingStart
  <2>5. CASE PairingStop
    <3>1. PICK seated \in SUBSET (pending \ recorded) :
            LET admitted == (pending \cap recorded) \cup seated
            IN  /\ pairing' = FALSE
                /\ relay' = relay \ admitted
                /\ \E configured, acked \in SUBSET admitted, refreshed \in SUBSET RelayConfigs :
                      sent' = {Config(m, FALSE, FALSE) : m \in configured}
                               \cup {HelloAck(m) : m \in acked}
                               \cup refreshed
      BY <2>5, PairingStopTables, Zenon
    <3> DEFINE admitted == (pending \cap recorded) \cup seated
    <3>2. PICK configured \in SUBSET admitted, acked \in SUBSET admitted,
               refreshed \in SUBSET RelayConfigs :
            sent' = {Config(m, FALSE, FALSE) : m \in configured}
                     \cup {HelloAck(m) : m \in acked}
                     \cup refreshed
      BY <3>1
    <3>3. ASSUME NEW m \in admitted PROVE Tells(Config(m, FALSE, FALSE))
      BY <3>1 DEF Config
    <3>4. \A p \in sent' : Tells(p)
      BY <3>2, <3>3, <2>1, <2>3
    <3> QED
      BY <3>4, <2>0
  <2>6. ASSUME NEW m \in Member, NEW grant \in BOOLEAN, Approve(m, grant)
        PROVE  ConfigTellsTable'
    <3>1. /\ sent' \subseteq {ConfigFor(m, online', relay', pairing), HelloAck(m)}
          /\ pairing' = pairing
      BY <2>6 DEF Approve
    <3>2. Tells(ConfigFor(m, online', relay', pairing))
      BY <3>1, ConfigForTells
    <3> QED
      BY <3>1, <3>2, <2>1, <2>0
  <2>7. ASSUME NEW m \in Member, JoinHello(m) PROVE ConfigTellsTable'
    <3> DEFINE config == ConfigFor(m, online \cup {m}, relay, pairing)
    <3>1. /\ sent' \subseteq {config, HelloAck(m)}
          /\ pairing' = pairing /\ relay' = relay
          /\ online' = online \cup {m} \/ online' = online \cup ({m} \cap recorded)
      BY <2>7 DEF JoinHello, admission
    <3>2. m \in (online \cup {m}) \cap relay <=> m \in online' \cap relay'
      BY <3>1 DEF NoGhosts
    <3>3. Tells(config)
      BY <3>1, <3>2, ConfigForTells
    <3> QED
      BY <3>1, <3>3, <2>1, <2>0
  <2>8. ASSUME NEW spared \in SUBSET Member, Tick(spared) PROVE ConfigTellsTable'
    <3>1. \A p \in sent' : p.type # "CONFIG"
      BY <2>8 DEF Tick, Alert, Heartbeat
    <3> QED
      BY <3>1, <2>0
  <2>9. CASE UNCHANGED leaderVars
    BY <2>9 DEF leaderVars, ConfigTellsTable
  <2>10. CASE \/ AllowAllMembers \/ Second
              \/ \E ids \in SUBSET Member : SetAllowedMembers(ids)
              \/ \E m \in Member : \/ AddAllowedMember(m) \/ RemoveAllowedMember(m)
                                   \/ StageHello(m) \/ OnReport(m) \/ OnLeave(m)
    BY <2>10, <2>2 DEF AllowAllMembers, Second, SetAllowedMembers, AddAllowedMember,
                       RemoveAllowedMember, StageHello, OnReport, OnLeave
  <2> QED
    BY <2>4, <2>5, <2>6, <2>7, <2>8, <2>9, <2>10 DEF LeaderNext, Operator, Receive, OnHello
<1> QED
  BY <1>1, <1>2, LeaderTypeCorrect, LeaderHasNoGhosts, PTL DEF LeaderSpec

(* Only pairing_stop closes the window, and it seals in whoever was known.  *)
THEOREM PairingSeals == LeaderSpec => PairingSealsKnown
<1>1. ASSUME [LeaderNext]_leaderVars, pairing, ~pairing'
      PROVE  recorded \subseteq allowed' /\ online \subseteq online'
  <2>1. CASE PairingStop
    BY <2>1, PairingStopTables, Zenon DEF KnownMembers
  <2>2. CASE ~PairingStop
    BY <1>1, <2>2 DEF LeaderNext, Operator, Receive, OnHello, leaderVars, AllowAllMembers,
         SetAllowedMembers, AddAllowedMember, RemoveAllowedMember, PairingStart, Approve,
         StageHello, JoinHello, OnReport, OnLeave, Tick, Second, admission
  <2> QED
    BY <2>1, <2>2
<1>2. [LeaderNext]_leaderVars
        => [pairing /\ ~pairing' => recorded \subseteq allowed' /\ online \subseteq online']_leaderVars
  BY <1>1
<1> QED
  BY <1>2, PTL DEF LeaderSpec, PairingSealsKnown

(* A candidate leaves the pending table when it is online and has been sent *)
(* both its CONFIG and its ACK, or with everyone when a window opens.       *)
THEOREM PendingIsTold == LeaderSpec => PendingUntilTold
<1> DEFINE Told(m) == /\ m \in online'
                      /\ HelloAck(m) \in sent'
                      /\ \E g, h \in BOOLEAN : Config(m, g, h) \in sent'
           Released == \A m \in pending \ pending' : (pairing' /\ pending' = {}) \/ Told(m)
<1>1. ASSUME LeaderTypeOK, LeaderTypeOK', [LeaderNext]_leaderVars
      PROVE  Released
  <2>1. CASE PairingStart
    BY <2>1 DEF PairingStart
  <2>2. CASE PairingStop
    <3>1. PICK seated \in SUBSET (pending \ recorded) :
            LET admitted == (pending \cap recorded) \cup seated
            IN  /\ online' = online \cup admitted
                /\ \E configured, acked \in SUBSET admitted, refreshed \in SUBSET RelayConfigs :
                      /\ pending' = pending \ (configured \cap acked)
                      /\ sent' = {Config(m, FALSE, FALSE) : m \in configured}
                                  \cup {HelloAck(m) : m \in acked}
                                  \cup refreshed
      BY <2>2, PairingStopTables, Zenon
    <3>2. ASSUME NEW m \in pending \ pending' PROVE Told(m)
      <4>1. m \in online' /\ HelloAck(m) \in sent' /\ Config(m, FALSE, FALSE) \in sent'
        BY <3>1, <3>2
      <4>2. FALSE \in BOOLEAN
        OBVIOUS
      <4> QED
        BY <4>1, <4>2
    <3> QED
      BY <3>2
  <2>3. ASSUME NEW m \in Member, NEW grant \in BOOLEAN, Approve(m, grant) PROVE Released
    <3> DEFINE config == ConfigFor(m, online', relay', pairing)
    <3>1. /\ pending \ pending' \subseteq {m}
          /\ m \in online'
          /\ m \in pending \ pending' => config \in sent' /\ HelloAck(m) \in sent'
      BY <2>3 DEF Approve, ToldInFull
    <3>2. \E g, h \in BOOLEAN : config = Config(m, g, h)
      BY ConfigForShape, <1>1 DEF LeaderTypeOK
    <3> QED
      BY <3>1, <3>2
  <2>4. ASSUME NEW m \in Member, JoinHello(m) PROVE Released
    <3> DEFINE config == ConfigFor(m, online \cup {m}, relay, pairing)
    <3>1. pending \ pending' \subseteq {m}
      BY <2>4 DEF JoinHello
    <3>2. m \in pending \ pending' => m \in online' /\ config \in sent' /\ HelloAck(m) \in sent'
      BY <2>4 DEF JoinHello
    <3>3. \E g, h \in BOOLEAN : config = Config(m, g, h)
      BY ConfigForShape, <1>1 DEF LeaderTypeOK
    <3> QED
      BY <3>1, <3>2, <3>3
  <2>5. CASE UNCHANGED leaderVars
    BY <2>5 DEF leaderVars
  <2>6. CASE \/ AllowAllMembers \/ Second
             \/ \E ids \in SUBSET Member : SetAllowedMembers(ids)
             \/ \E m \in Member : \/ AddAllowedMember(m) \/ RemoveAllowedMember(m)
                                  \/ StageHello(m) \/ OnReport(m) \/ OnLeave(m)
             \/ \E spared \in SUBSET Member : Tick(spared)
    BY <2>6 DEF AllowAllMembers, Second, SetAllowedMembers, AddAllowedMember,
         RemoveAllowedMember, StageHello, OnReport, OnLeave, Tick
  <2> QED
    BY <1>1, <2>1, <2>2, <2>3, <2>4, <2>5, <2>6 DEF LeaderNext, Operator, Receive, OnHello
<1>2. LeaderTypeOK /\ LeaderTypeOK' /\ [LeaderNext]_leaderVars
        => [\A m \in pending \ pending' :
              \/ pairing' /\ pending' = {}
              \/ /\ m \in online'
                 /\ HelloAck(m) \in sent'
                 /\ \E g, h \in BOOLEAN : Config(m, g, h) \in sent']_leaderVars
  BY <1>1
<1> QED
  BY <1>2, LeaderTypeCorrect, PTL DEF LeaderSpec, PendingUntilTold
-----------------------------------------------------------------------------
(* The array bounds.                                                        *)

(* Every table is finite.                                                   *)
LEMMA TablesFinite ==
    ASSUME NEW S \in SUBSET Member
    PROVE  IsFiniteSet(S) /\ Cardinality(S) \in Nat
  BY FS_Subset, FS_CardinalityType, LeaderAssumption

(* A table that loses entries still fits its array.                         *)
LEMMA ShrinkFits ==
    ASSUME NEW S \in SUBSET Member, NEW T \in SUBSET S, Cardinality(S) =< MaxMembers
    PROVE  Cardinality(T) =< MaxMembers
<1>1. IsFiniteSet(S) /\ Cardinality(S) \in Nat /\ Cardinality(T) \in Nat
  BY TablesFinite
<1>2. Cardinality(T) =< Cardinality(S)
  BY <1>1, FS_Subset
<1> QED
  BY <1>1, <1>2, LeaderAssumption

(* A table that takes an entry while it has a free slot still fits.         *)
LEMMA AddFits ==
    ASSUME NEW S \in SUBSET Member, NEW m \in Member,
           m \in S \/ Cardinality(S) < MaxMembers, Cardinality(S) =< MaxMembers
    PROVE  Cardinality(S \cup {m}) =< MaxMembers
<1>1. IsFiniteSet(S) /\ Cardinality(S) \in Nat
  BY TablesFinite
<1>2. Cardinality(S \cup {m}) = IF m \in S THEN Cardinality(S) ELSE Cardinality(S) + 1
  BY <1>1, FS_AddElement
<1> QED
  BY <1>1, <1>2, LeaderAssumption

(* Neither table outgrows its array.                                        *)
THEOREM TablesFit == LeaderSpec => []WithinCapacity
<1>1. LeaderInit => WithinCapacity
  BY FS_EmptySet, LeaderAssumption DEF LeaderInit, WithinCapacity
<1>2. LeaderTypeOK /\ WithinCapacity /\ [LeaderNext]_leaderVars => WithinCapacity'
  <2> SUFFICES ASSUME LeaderTypeOK, WithinCapacity, [LeaderNext]_leaderVars
               PROVE  WithinCapacity'
    OBVIOUS
  <2>0. /\ recorded \in SUBSET Member /\ pending \in SUBSET Member
        /\ Cardinality(recorded) =< MaxMembers
        /\ Cardinality(pending) =< MaxMembers
    BY DEF LeaderTypeOK, WithinCapacity
  <2>1. ASSUME recorded' \subseteq recorded, pending' \subseteq pending
        PROVE  WithinCapacity'
    BY <2>0, <2>1, ShrinkFits DEF WithinCapacity
  <2>2. ASSUME NEW m \in Member, recorded' \in {recorded, recorded \cup {m}},
               HasSlotFor(m), pending' \subseteq pending
        PROVE  WithinCapacity'
    <3>1. Cardinality(recorded \cup {m}) =< MaxMembers
      BY <2>0, <2>2, AddFits DEF HasSlotFor
    <3>2. Cardinality(pending') =< MaxMembers
      BY <2>0, <2>2, ShrinkFits
    <3> QED
      BY <2>0, <2>2, <3>1, <3>2 DEF WithinCapacity
  <2>3. ASSUME NEW ids \in SUBSET Member, SetAllowedMembers(ids) PROVE WithinCapacity'
    BY <2>0, <2>3 DEF SetAllowedMembers, WithinCapacity
  <2>4. ASSUME NEW m \in Member, StageHello(m) PROVE WithinCapacity'
    <3>1. Cardinality(pending \cup {m}) =< MaxMembers
      BY <2>0, <2>4, AddFits DEF StageHello, HasPendingSlotFor
    <3> QED
      BY <2>0, <2>4, <3>1 DEF StageHello, WithinCapacity
  <2>5. CASE PairingStop
    <3> DEFINE newcomers == pending \ recorded
               room == MaxMembers - Cardinality(recorded)
    <3>1. PICK seated \in SUBSET newcomers :
            /\ Cardinality(seated) = (IF Cardinality(newcomers) < room
                                         THEN Cardinality(newcomers) ELSE room)
            /\ recorded' = recorded \cup ((pending \cap recorded) \cup seated)
            /\ pending' \subseteq pending
      BY <2>5, Zenon DEF PairingStop
    <3>2. recorded' = recorded \cup seated /\ recorded \cap seated = {}
      BY <3>1
    <3>3. /\ IsFiniteSet(recorded) /\ IsFiniteSet(seated)
          /\ Cardinality(recorded) \in Nat /\ Cardinality(newcomers) \in Nat
      <4>1. newcomers \in SUBSET Member /\ seated \in SUBSET Member
        BY <2>0
      <4> QED
        BY <4>1, <2>0, TablesFinite
    <3>4. Cardinality(recorded') = Cardinality(recorded) + Cardinality(seated)
      <4>1. Cardinality(recorded \cup seated)
              = Cardinality(recorded) + Cardinality(seated) - Cardinality(recorded \cap seated)
        BY <3>3, FS_Union
      <4>2. Cardinality(recorded \cap seated) = 0
        BY <3>2, FS_EmptySet
      <4>3. Cardinality(seated) \in Nat
        BY <3>3, FS_CardinalityType
      <4> QED
        BY <3>2, <3>3, <4>1, <4>2, <4>3
    <3>5. Cardinality(seated) =< room
      BY <3>1, <3>3, LeaderAssumption
    <3>6. Cardinality(recorded') =< MaxMembers
      BY <3>3, <3>4, <3>5, <3>1, LeaderAssumption
    <3>7. Cardinality(pending') =< MaxMembers
      BY <2>0, <3>1, ShrinkFits
    <3> QED
      BY <3>6, <3>7 DEF WithinCapacity
  <2>6. ASSUME NEW m \in Member,
               \/ AddAllowedMember(m)
               \/ \E grant \in BOOLEAN : Approve(m, grant)
               \/ JoinHello(m)
               \/ OnReport(m)
        PROVE  WithinCapacity'
    <3>1. /\ recorded' \in {recorded, recorded \cup {m}}
          /\ HasSlotFor(m)
          /\ pending' \subseteq pending
      BY <2>6 DEF AddAllowedMember, Approve, CanAllow, JoinHello, OnReport
    <3> QED
      BY <3>1, <2>2
  <2>7. CASE \/ AllowAllMembers \/ PairingStart \/ Second
             \/ \E m \in Member : RemoveAllowedMember(m) \/ OnLeave(m)
             \/ \E spared \in SUBSET Member : Tick(spared)
             \/ UNCHANGED leaderVars
    <3>1. recorded' \subseteq recorded /\ pending' \subseteq pending
      BY <2>7 DEF AllowAllMembers, PairingStart, Second, RemoveAllowedMember, OnLeave, Tick,
           Erase, leaderVars
    <3> QED
      BY <3>1, <2>1
  <2> QED
    BY <2>3, <2>4, <2>5, <2>6, <2>7 DEF LeaderNext, Operator, Receive, OnHello
<1> QED
  BY <1>1, <1>2, LeaderTypeCorrect, PTL DEF LeaderSpec
=============================================================================
