-------------------------- MODULE SleServer_proofs --------------------------
(***************************************************************************)
(* What SleServer guarantees for any number of connection ids, parents and *)
(* slots and any time-outs: its table, and the time a member without a     *)
(* connection may take until it starts over.                               *)
(***************************************************************************)
EXTENDS SleServer, FiniteSetTheorems, TLAPS

UpOf(t) == {k \in Conn : t[k].up}

Counted == count = Cardinality(Up) /\ count =< MaxConns
Table == table \in [Conn -> Slot] /\ Counted /\ OneConnPerParent

Ages ==
    /\ clock \in [since : 0 .. Unset, last : (0 .. Pause) \cup {Unset}]
    /\ outage \in [bare : 0 .. Worst, mute : 0 .. Worst]
    /\ spoken \in BOOLEAN /\ seeks \in BOOLEAN

(* The outage of a member without a connection is bounded by the age of its *)
(* first failure and, from Stuck on, by that of its last announcement.      *)
Patience ==
    /\ clock.since = Unset <=> clock.last = Unset
    /\ spoken /\ clock.last = Pause => outage.bare = 0
    /\ clock.since = Unset => outage.bare =< IF spoken THEN 0 ELSE 1
    /\ clock.since < Stuck => outage.bare =< clock.since + 1
    /\ clock.since = Stuck => outage.bare =< Stuck + clock.last

ServerInv == Table /\ radio \in Radio /\ Ages /\ Patience

(* The assumption, as the provers read it.                                  *)
LEMMA Numbers ==
    /\ MaxConns \in Nat \ {0} /\ Pause \in Nat \ {0} /\ Stuck \in Nat \ {0} /\ Pause =< Stuck
    /\ Unset = Stuck + 1 /\ Worst = Stuck + Pause + 1
  BY ServerAssumption DEF Unset, Worst
-----------------------------------------------------------------------------
(* The table.                                                               *)
LEMMA UpIsFinite ==
    ASSUME NEW t
    PROVE  IsFiniteSet(UpOf(t)) /\ Cardinality(UpOf(t)) \in Nat
  BY ServerAssumption, FS_Subset, FS_CardinalityType DEF UpOf

LEMMA UpHere == Up = UpOf(table) /\ Up' = UpOf(table')
  BY DEF Up, UpOf

(* A slot that is taken counts once.                                        *)
LEMMA TableGrows ==
    ASSUME NEW t, NEW u, NEW k \in Conn, u[k].up, \A j \in Conn \ {k} : u[j].up = t[j].up
    PROVE  Cardinality(UpOf(u)) =
             IF k \in UpOf(t) THEN Cardinality(UpOf(t)) ELSE Cardinality(UpOf(t)) + 1
  <1>1. UpOf(u) = UpOf(t) \cup {k}
    BY DEF UpOf
  <1> QED
    BY <1>1, UpIsFinite, FS_AddElement

(* A slot that is freed is counted no longer.                               *)
LEMMA TableShrinks ==
    ASSUME NEW t, NEW u, NEW k \in UpOf(t), ~u[k].up, \A j \in Conn \ {k} : u[j].up = t[j].up
    PROVE  /\ Cardinality(UpOf(u)) = Cardinality(UpOf(t)) - 1
           /\ Cardinality(UpOf(t)) > 0
  <1>1. UpOf(u) = UpOf(t) \ {k}
    BY DEF UpOf
  <1>2. IsFiniteSet(UpOf(t)) /\ Cardinality(UpOf(t)) \in Nat
    BY UpIsFinite
  <1>3. Cardinality(UpOf(t)) # 0
    BY <1>2, FS_EmptySet
  <1>4. Cardinality(UpOf(t) \ {k}) = Cardinality(UpOf(t)) - 1
    BY <1>2, FS_RemoveElement
  <1> QED
    BY <1>1, <1>2, <1>3, <1>4

(* A callback or a packet puts a connection in the table: the limit stands, *)
(* and no parent has a second connection unless the new slot names it.      *)
LEMMA HoldingKeepsTable ==
    ASSUME Table, NEW k \in Conn, CanHold(k), NEW slot \in Slot, slot.up,
           table' \in [Conn -> Slot], table'[k] = slot,
           \A j \in Conn \ {k} : /\ table'[j].up = table[j].up
                                 /\ table'[j].id \in {table[j].id, NoId}
                                 /\ slot.id # NoId => table'[j].id # slot.id \/ ~table'[j].up,
           count' = IF table[k].up THEN count ELSE count + 1
    PROVE  Table'
  <1>1. Cardinality(UpOf(table')) =
          IF k \in UpOf(table) THEN Cardinality(UpOf(table)) ELSE Cardinality(UpOf(table)) + 1
    BY TableGrows
  <1>2. table[k].up <=> k \in UpOf(table)
    BY DEF UpOf
  <1>3. count = Cardinality(UpOf(table)) /\ count \in Nat /\ count =< MaxConns
    BY UpHere, UpIsFinite DEF Table, Counted
  <1>4. count' = Cardinality(UpOf(table')) /\ count' =< MaxConns
    BY <1>1, <1>2, <1>3, Numbers DEF CanHold
  <1>5. OneConnPerParent'
    BY DEF Table, OneConnPerParent, Up
  <1> QED
    BY <1>4, <1>5, UpHere DEF Table, Counted

LEMMA SlotsHeld ==
    ASSUME table \in [Conn -> Slot], NEW k \in Conn
    PROVE  /\ Held(k) \in Slot /\ Held(k).up
           /\ Held(k).id = IF table[k].up THEN table[k].id ELSE NoId
           /\ \A b \in BOOLEAN : /\ [Held(k) EXCEPT !.addressed = @ \/ b] \in Slot
                                 /\ [Held(k) EXCEPT !.addressed = @ \/ b].up
                                 /\ [Held(k) EXCEPT !.addressed = @ \/ b].id = Held(k).id
           /\ \A id \in Id : /\ [Held(k) EXCEPT !.id = id] \in Slot
                             /\ [Held(k) EXCEPT !.id = id].up
                             /\ [Held(k) EXCEPT !.id = id].id = id
  BY DEF Held, Free, Slot

LEMMA OpenedKeepsTable ==
    ASSUME Table, NEW k \in Conn, NEW addressed \in BOOLEAN, Opened(k, addressed)
    PROVE  Table'
  <1>1. CASE CanHold(k)
    <2> DEFINE slot == [Held(k) EXCEPT !.addressed = @ \/ addressed]
    <2>1. slot \in Slot /\ slot.up /\ slot.id = IF table[k].up THEN table[k].id ELSE NoId
      BY SlotsHeld DEF Table
    <2>2. /\ table' = [table EXCEPT ![k] = slot]
          /\ count' = IF table[k].up THEN count ELSE count + 1
      BY <1>1 DEF Opened, Hold
    <2> HIDE DEF slot
    <2>3. table' \in [Conn -> Slot] /\ table'[k] = slot /\ \A j \in Conn \ {k} : table'[j] = table[j]
      BY <2>1, <2>2 DEF Table
    <2>4. \A j \in Conn \ {k} : slot.id # NoId => table'[j].id # slot.id \/ ~table'[j].up
      BY <2>1, <2>3 DEF Table, OneConnPerParent, Up
    <2> QED
      BY <1>1, <2>1, <2>2, <2>3, <2>4, HoldingKeepsTable
  <1>2. CASE ~CanHold(k)
    BY <1>2 DEF Opened, Table, Counted, OneConnPerParent, Up
  <1> QED
    BY <1>1, <1>2

LEMMA PacketKeepsTable ==
    ASSUME Table, NEW k \in Conn, NEW id \in Id, Packet(k, id)
    PROVE  Table'
  <1> DEFINE slot == [Held(k) EXCEPT !.id = id]
  <1>1. slot \in Slot /\ slot.up /\ slot.id = id
    BY SlotsHeld DEF Table
  <1>2. table' = [j \in Conn |-> IF j = k THEN slot
                                 ELSE IF table[j].id = id THEN [table[j] EXCEPT !.id = NoId]
                                 ELSE table[j]]
    BY DEF Packet, Bound
  <1>3. CanHold(k) /\ count' = IF table[k].up THEN count ELSE count + 1
    BY DEF Packet
  <1> HIDE DEF slot
  <1>4. table' \in [Conn -> Slot]
    BY <1>1, <1>2 DEF Table, Slot
  <1>5. \A j \in Conn \ {k} : /\ table'[j].up = table[j].up
                              /\ table'[j].id \in {table[j].id, NoId}
                              /\ table'[j].id # id
    BY <1>2, ServerAssumption DEF Table, Slot
  <1> QED
    BY <1>1, <1>2, <1>3, <1>4, <1>5, HoldingKeepsTable

LEMMA RemoveKeepsTable ==
    ASSUME Table, NEW k \in Conn, Remove(k)
    PROVE  Table'
  <1>1. CASE table[k].up
    <2>1. table' = [table EXCEPT ![k] = Free] /\ count' = IF count > 0 THEN count - 1 ELSE 0
      BY <1>1 DEF Remove
    <2>2. /\ table' \in [Conn -> Slot] /\ ~table'[k].up
          /\ \A j \in Conn \ {k} : table'[j] = table[j]
      BY <2>1 DEF Table, Free, Slot
    <2>3. k \in UpOf(table)
      BY <1>1 DEF UpOf
    <2>4. /\ Cardinality(UpOf(table')) = Cardinality(UpOf(table)) - 1
          /\ Cardinality(UpOf(table)) > 0
      BY <2>2, <2>3, TableShrinks
    <2>5. count = Cardinality(UpOf(table)) /\ count \in Nat /\ count =< MaxConns
      BY UpHere, UpIsFinite DEF Table, Counted
    <2>6. count' = Cardinality(UpOf(table')) /\ count' =< MaxConns
      BY <2>1, <2>4, <2>5, Numbers
    <2>7. OneConnPerParent'
      BY <2>2 DEF Table, OneConnPerParent, Up
    <2> QED
      BY <2>2, <2>6, <2>7, UpHere DEF Table, Counted
  <1>2. CASE ~table[k].up
    BY <1>2 DEF Remove, Table, Counted, OneConnPerParent, Up
  <1> QED
    BY <1>1, <1>2

LEMMA SameTable ==
    ASSUME Table, UNCHANGED <<table, count>>
    PROVE  Table'
  BY DEF Table, Counted, OneConnPerParent, Up
-----------------------------------------------------------------------------
(* The clocks.                                                              *)

(* Failing starts the clock, and resets what has lasted once it announces.  *)
LEMMA FailedFacts ==
    ASSUME NEW c \in [since : 0 .. Unset, last : (0 .. Pause) \cup {Unset}],
           c.since = Unset <=> c.last = Unset
    PROVE  LET f == Failed(c) IN
           /\ f.clock \in [since : 0 .. Stuck, last : 0 .. Pause - 1]
           /\ f.clock.since = IF c.since = Unset THEN 0 ELSE c.since
           /\ f.clock.last = IF c.last \in {Unset, Pause} THEN 0 ELSE c.last
           /\ f.reset <=> c.last = Pause /\ c.since = Stuck
           /\ f.restart \in BOOLEAN
  <1>1. /\ c.since \in 0 .. Unset /\ c.last \in (0 .. Pause) \cup {Unset}
    OBVIOUS
  <1> DEFINE since == IF c.since = Unset THEN 0 ELSE c.since
             due == c.last = Unset \/ c.last >= Pause
             last == IF due THEN 0 ELSE c.last
  <1>2. Failed(c) = [clock |-> [since |-> since, last |-> last],
                     restart |-> due, reset |-> due /\ since >= Stuck]
    BY DEF Failed
  <1>3. since \in 0 .. Stuck /\ (since >= Stuck <=> c.since = Stuck)
    BY <1>1, Numbers
  <1>4. due <=> c.last \in {Unset, Pause}
    BY <1>1, Numbers
  <1>5. last \in 0 .. Pause - 1 /\ last = IF c.last \in {Unset, Pause} THEN 0 ELSE c.last
    BY <1>1, <1>4, Numbers
  <1>6. c.since = Stuck => c.last # Unset
    BY Numbers
  <1> HIDE DEF since, due, last
  <1>7. due \in BOOLEAN
    BY DEF due
  <1>8. /\ Failed(c).clock = [since |-> since, last |-> last]
        /\ Failed(c).restart = due
        /\ Failed(c).reset = (due /\ since >= Stuck)
    BY <1>2
  <1>9. /\ Failed(c).clock.since = since /\ Failed(c).clock.last = last
        /\ Failed(c).clock \in [since : 0 .. Stuck, last : 0 .. Pause - 1]
    BY <1>3, <1>5, <1>8
  <1>10. Failed(c).reset <=> c.last = Pause /\ c.since = Stuck
    <2>1. (due /\ since >= Stuck) <=> c.last = Pause /\ c.since = Stuck
      BY <1>3, <1>4, <1>6
    <2> QED
      BY <1>8, <2>1
  <1>11. Failed(c).restart \in BOOLEAN
    BY <1>7, <1>8
  <1>12. Failed(c).clock.since = IF c.since = Unset THEN 0 ELSE c.since
    BY <1>9 DEF since
  <1> QED
    BY <1>5, <1>9, <1>10, <1>11, <1>12

LEMMA QuietFacts ==
    /\ Quiet \in [since : 0 .. Unset, last : (0 .. Pause) \cup {Unset}]
    /\ Quiet.since = Unset /\ Quiet.last = Unset
  BY Numbers DEF Quiet

(* What a packet makes of a clock that has just failed, or of any clock.    *)
LEMMA SentFacts ==
    ASSUME NEW c \in [since : 0 .. Unset, last : (0 .. Pause) \cup {Unset}],
           c.since = Unset <=> c.last = Unset,
           NEW way \in {"sent", "failed", "none"}
    PROVE  LET f == Sent(way, c) IN
           /\ f.clock \in [since : 0 .. Unset, last : (0 .. Pause) \cup {Unset}]
           /\ f.clock.since = Unset <=> f.clock.last = Unset
           /\ c.last \in 0 .. Pause - 1 /\ way # "sent" =>
                f.clock.since = c.since /\ f.clock.last = c.last /\ ~f.reset
           /\ f.reset \in BOOLEAN
  <1>1. CASE way = "sent"
    BY <1>1, QuietFacts DEF Sent, Fine
  <1>2. CASE way = "none"
    BY <1>2 DEF Sent, Fine
  <1>3. CASE way = "failed"
    <2>1. Sent(way, c) = Failed(c)
      BY <1>3 DEF Sent
    <2>2. /\ Failed(c).clock \in [since : 0 .. Stuck, last : 0 .. Pause - 1]
          /\ Failed(c).clock.since = IF c.since = Unset THEN 0 ELSE c.since
          /\ Failed(c).clock.last = IF c.last \in {Unset, Pause} THEN 0 ELSE c.last
          /\ Failed(c).reset <=> c.last = Pause /\ c.since = Stuck
      BY FailedFacts
    <2>3. Failed(c).reset \in BOOLEAN
      BY DEF Failed
    <2>4. /\ Failed(c).clock \in [since : 0 .. Unset, last : (0 .. Pause) \cup {Unset}]
          /\ Failed(c).clock.since # Unset /\ Failed(c).clock.last # Unset
      BY <2>2, Numbers
    <2>5. c.last \in 0 .. Pause - 1 =>
            c.last # Pause /\ c.last # Unset /\ c.since # Unset
      BY Numbers
    <2> QED
      BY <2>1, <2>2, <2>3, <2>4, <2>5
  <1> QED
    BY <1>1, <1>2, <1>3

(* Nothing has lasted: any clock that is set and unset as one will do.      *)
LEMMA NothingOutstanding ==
    ASSUME Ages', outage'.bare = 0, clock'.since = Unset <=> clock'.last = Unset
    PROVE  Patience'
  <1>1. clock'.since \in 0 .. Unset /\ clock'.last \in (0 .. Pause) \cup {Unset}
    BY DEF Ages
  <1> QED
    BY <1>1, Numbers DEF Patience

LEMMA LoopKeepsAges ==
    ASSUME Ages, Patience, NEW accepted \in BOOLEAN, Loop(accepted)
    PROVE  Ages' /\ Patience'
  <1>1. PICK way \in {"sent", "failed", "none"} :
          /\ way = "sent" => \E k \in Up : Linked(k)
          /\ clock' = Sent(way, Recovered.clock).clock
          /\ outage' = [bare |-> IF Up # {} \/ ~seeks \/ Recovered.reset
                                    \/ Sent(way, Recovered.clock).reset THEN 0 ELSE outage.bare,
                        mute |-> IF way = "sent" \/ ~seeks \/ Recovered.reset
                                    \/ Sent(way, Recovered.clock).reset THEN 0 ELSE outage.mute]
          /\ spoken' = TRUE /\ seeks' = seeks
    BY DEF Loop
  <1> DEFINE c == Recovered.clock
             g == Sent(way, c)
  <1>2. CASE Up = {} /\ seeks
    <2> DEFINE f == Failed(clock)
    <2>1. way # "sent" /\ Recovered = f
      BY <1>1, <1>2 DEF Recovered
    <2>2. /\ f.clock \in [since : 0 .. Stuck, last : 0 .. Pause - 1]
          /\ f.clock.since = IF clock.since = Unset THEN 0 ELSE clock.since
          /\ f.clock.last = IF clock.last \in {Unset, Pause} THEN 0 ELSE clock.last
          /\ f.reset <=> clock.last = Pause /\ clock.since = Stuck
      BY FailedFacts DEF Ages, Patience
    <2>3. clock' = g.clock /\ c = f.clock
      BY <1>1, <2>1
    <2>4. outage' = [bare |-> IF f.reset \/ g.reset THEN 0 ELSE outage.bare,
                     mute |-> IF f.reset \/ g.reset THEN 0 ELSE outage.mute]
      BY <1>1, <1>2, <2>1
    <2> HIDE DEF f
    <2>5. /\ c \in [since : 0 .. Unset, last : (0 .. Pause) \cup {Unset}]
          /\ c.since = Unset <=> c.last = Unset
          /\ c.last \in 0 .. Pause - 1
      BY <2>2, <2>3, Numbers
    <2> HIDE DEF c
    <2>6. /\ g.clock \in [since : 0 .. Unset, last : (0 .. Pause) \cup {Unset}]
          /\ g.clock.since = c.since /\ g.clock.last = c.last
          /\ ~g.reset
      BY <2>1, <2>5, SentFacts
    <2> HIDE DEF g
    <2>7. Ages'
      BY <1>1, <2>3, <2>4, <2>6, Numbers DEF Ages
    <2>8. /\ clock'.since = IF clock.since = Unset THEN 0 ELSE clock.since
          /\ clock'.last = IF clock.last \in {Unset, Pause} THEN 0 ELSE clock.last
          /\ clock'.since \in 0 .. Stuck /\ clock'.last \in 0 .. Pause - 1
          /\ outage'.bare = IF clock.last = Pause /\ clock.since = Stuck THEN 0 ELSE outage.bare
      BY <2>2, <2>3, <2>4, <2>6
    <2> QED
      BY <2>7, <2>8, Numbers DEF Ages, Patience
  <1>3. CASE Up # {} \/ ~seeks
    <2>1. /\ outage'.bare = 0 /\ outage'.mute \in {0, outage.mute}
          /\ outage' \in [bare : {0}, mute : {0, outage.mute}]
      BY <1>1, <1>3
    <2>2. c \in {clock, Quiet}
      BY <1>3 DEF Recovered, Fine, Ages
    <2>3. /\ c \in [since : 0 .. Unset, last : (0 .. Pause) \cup {Unset}]
          /\ c.since = Unset <=> c.last = Unset
      BY <2>2, QuietFacts DEF Ages, Patience
    <2> HIDE DEF c
    <2>4. /\ g.clock \in [since : 0 .. Unset, last : (0 .. Pause) \cup {Unset}]
          /\ g.clock.since = Unset <=> g.clock.last = Unset
      BY <2>3, SentFacts
    <2>5. clock' = g.clock
      BY <1>1 DEF c
    <2> HIDE DEF g
    <2>6. /\ clock' \in [since : 0 .. Unset, last : (0 .. Pause) \cup {Unset}]
          /\ clock'.since = Unset <=> clock'.last = Unset
      BY <2>4, <2>5
    <2>7. outage' \in [bare : 0 .. Worst, mute : 0 .. Worst] /\ spoken' \in BOOLEAN /\ seeks' \in BOOLEAN
      BY <1>1, <2>1, Numbers DEF Ages
    <2> QED
      BY <2>1, <2>6, <2>7, NothingOutstanding DEF Ages
  <1> QED
    BY <1>2, <1>3 DEF Ages

LEMMA TimeKeepsAges ==
    ASSUME Ages, Patience, TimePasses
    PROVE  Ages' /\ Patience'
  <1> DEFINE since == clock.since
             last == clock.last
             bare == outage.bare
             mute == outage.mute
  <1>1. /\ since \in 0 .. Unset /\ last \in (0 .. Pause) \cup {Unset}
        /\ bare \in 0 .. Worst /\ mute \in 0 .. Worst /\ spoken
    BY DEF Ages, TimePasses
  <1>2. /\ clock' = [since |-> IF since = Unset THEN Unset ELSE Older(since, Stuck),
                     last |-> IF last = Unset THEN Unset ELSE Older(last, Pause)]
        /\ outage' = [bare |-> Older(bare, Worst), mute |-> Older(mute, Worst)]
        /\ spoken' = FALSE /\ seeks' = seeks /\ seeks \in BOOLEAN
    BY DEF TimePasses, Ages
  <1>3. /\ Older(bare, Worst) \in 0 .. Worst /\ Older(bare, Worst) =< bare + 1
        /\ Older(mute, Worst) \in 0 .. Worst
    BY <1>1, Numbers DEF Older
  <1>4. /\ since = Unset <=> last = Unset
        /\ last = Pause => bare = 0
        /\ since = Unset => bare =< 0
        /\ since < Stuck => bare =< since + 1
        /\ since = Stuck => bare =< Stuck + last
    BY <1>1 DEF Patience
  <1> HIDE DEF since, last, bare, mute
  <1>5. CASE since = Unset
    <2>1. clock' = [since |-> Unset, last |-> Unset] /\ Older(bare, Worst) =< 1
      BY <1>1, <1>2, <1>3, <1>4, <1>5, Numbers
    <2>2. clock' \in [since : 0 .. Unset, last : (0 .. Pause) \cup {Unset}]
      BY <2>1, Numbers
    <2>3. outage' \in [bare : 0 .. Worst, mute : 0 .. Worst] /\ outage'.bare =< 1
      BY <1>2, <1>3, <2>1
    <2>4. clock'.since = Unset /\ clock'.last = Unset /\ spoken' = FALSE
      BY <1>2, <2>1
    <2>5. Ages'
      BY <1>2, <2>2, <2>3, <2>4 DEF Ages
    <2> QED
      BY <2>3, <2>4, <2>5, Numbers DEF Patience
  <1>6. CASE since # Unset
    <2>1. last \in 0 .. Pause /\ since \in 0 .. Stuck
      BY <1>1, <1>4, <1>6, Numbers
    <2>2. /\ clock'.last = IF last < Pause THEN last + 1 ELSE Pause
          /\ clock'.last \in 1 .. Pause
      BY <1>2, <1>4, <1>6, <2>1, Numbers DEF Older
    <2>3. clock'.since = IF since < Stuck THEN since + 1 ELSE Stuck
      BY <1>2, <1>6, <2>1, Numbers DEF Older
    <2>4. /\ clock'.since \in 1 .. Stuck /\ clock'.last \in 1 .. Pause
          /\ outage'.bare \in 0 .. Worst /\ outage'.bare =< bare + 1
          /\ outage'.mute \in 0 .. Worst
      BY <1>2, <1>3, <2>1, <2>2, <2>3, Numbers
    <2>5. /\ clock' = [since |-> clock'.since, last |-> clock'.last]
          /\ outage' = [bare |-> outage'.bare, mute |-> outage'.mute]
      BY <1>2
    <2>6. Ages'
      <3>1. clock'.since \in 0 .. Unset /\ clock'.last \in (0 .. Pause) \cup {Unset}
        BY <2>4, Numbers
      <3> QED
        BY <3>1, <2>4, <2>5, <1>2 DEF Ages
    <2>7. clock'.since < Stuck => outage'.bare =< clock'.since + 1
      BY <1>1, <1>4, <2>1, <2>3, <2>4, Numbers
    <2>8. clock'.since = Stuck => outage'.bare =< Stuck + clock'.last
      BY <1>1, <1>4, <2>1, <2>2, <2>3, <2>4, Numbers
    <2>9. clock'.since # Unset /\ clock'.last # Unset /\ spoken' = FALSE
      BY <1>2, <2>4, Numbers
    <2> QED
      BY <2>6, <2>7, <2>8, <2>9 DEF Patience
  <1> QED
    BY <1>5, <1>6

LEMMA SameAges ==
    ASSUME Ages, Patience, UNCHANGED <<clock, outage, spoken, seeks>>
    PROVE  Ages' /\ Patience'
  BY DEF Ages, Patience

LEMMA PacketKeepsAges ==
    ASSUME Ages, Patience, NEW k \in Conn, NEW id \in Id, Packet(k, id)
    PROVE  Ages' /\ Patience'
  <1>1. /\ clock' \in {clock, Quiet} /\ outage' = [outage EXCEPT !.bare = 0]
        /\ spoken' = spoken /\ seeks' = seeks
    BY DEF Packet
  <1>2. Ages' /\ outage'.bare = 0
    BY <1>1, QuietFacts, Numbers DEF Ages
  <1>3. clock'.since = Unset <=> clock'.last = Unset
    BY <1>1, QuietFacts DEF Patience
  <1> QED
    BY <1>2, <1>3, NothingOutstanding

LEMMA SeekingKeepsAges ==
    ASSUME Ages, Patience, SeeksOrNot
    PROVE  Ages' /\ Patience'
  <1>1. Ages' /\ outage'.bare = 0 /\ clock' = clock
    BY Numbers DEF Ages, SeeksOrNot
  <1> QED
    BY <1>1, NothingOutstanding DEF Patience
-----------------------------------------------------------------------------
(* The stack.                                                               *)
LEMMA RadioStays ==
    ASSUME radio \in Radio, [Next]_serverVars
    PROVE  radio' \in Radio
  <1>1. \A ks \in SUBSET Conn : Asked(ks) \in Radio
    BY DEF Asked, Radio, Linked
  <1>2. \A r \in Radio, b \in BOOLEAN : Announced(r, b) \in Radio
    BY DEF Announced, Radio
  <1>3. \A k \in Conn, s \in {"none", "new", "open", "closed"} :
          \A r \in Radio : [r EXCEPT !.link[k] = s] \in Radio
    BY DEF Radio
  <1>4. ASSUME NEW k \in Conn, NEW b \in BOOLEAN, Opened(k, b)  PROVE radio' \in Radio
    <2>1. radio.link[k] \in {"none", "new", "open", "closed"} /\ Asked({k}).link = radio.link
      BY DEF Asked, Radio
    <2>2. Asked({k}) \in Radio
      BY <1>1
    <2>3. /\ [radio EXCEPT !.link[k] = IF b THEN "open" ELSE @] \in Radio
          /\ [Asked({k}) EXCEPT !.link[k] = IF b THEN "open" ELSE @] \in Radio
      BY <2>1, <2>2, <1>3
    <2> QED
      BY <1>4, <2>3 DEF Opened
  <1>5. ASSUME NEW k \in Conn, Connected(k) \/ Paired(k) \/ Dials(k) \/ Closes(k) \/ CallbackLost(k)
        PROVE  radio' \in Radio
    <2>1. CASE Connected(k) \/ Paired(k)
      BY <1>4, <2>1 DEF Connected, Paired
    <2>2. CASE Dials(k)
      BY <2>2, <1>3 DEF Dials
    <2>3. CASE Closes(k)
      BY <2>3 DEF Closes, Radio
    <2>4. CASE CallbackLost(k)
      BY <2>4 DEF CallbackLost, Radio
    <2> QED
      BY <1>5, <2>1, <2>2, <2>3, <2>4
  <1>6. ASSUME NEW k \in Conn, NEW id \in Id, Packet(k, id)  PROVE radio' \in Radio
    BY <1>6 DEF Packet
  <1>7. ASSUME NEW k \in Conn, NEW b \in BOOLEAN, Disconnected(k, b)  PROVE radio' \in Radio
    BY <1>7, <1>2, <1>3 DEF Disconnected
  <1>8. ASSUME AnnouncementEnds  PROVE radio' \in Radio
    BY <1>8 DEF AnnouncementEnds, Radio
  <1>9. ASSUME NEW b \in BOOLEAN, Loop(b)  PROVE radio' \in Radio
    <2>1. {k \in Up : table[k].addressed} \in SUBSET Conn
      BY DEF Up
    <2>2. Asked({k \in Up : table[k].addressed}) \in Radio
      BY <1>1, <2>1
    <2>3. radio' \in {radio, Asked({k \in Up : table[k].addressed}), Announced(radio, b),
                      Announced(Asked({k \in Up : table[k].addressed}), b)}
      BY <1>9 DEF Loop
    <2> QED
      BY <2>2, <2>3, <1>2
  <1>10. ASSUME NEW b \in BOOLEAN, Reselects(b)  PROVE radio' \in Radio
    BY <1>10, <1>1, <1>2 DEF Reselects, Up
  <1>11. ASSUME SeeksOrNot \/ TimePasses \/ UNCHANGED serverVars  PROVE radio' \in Radio
    BY <1>11 DEF SeeksOrNot, TimePasses, serverVars
  <1> QED
    BY <1>5, <1>6, <1>7, <1>8, <1>9, <1>10, <1>11 DEF Next

LEMMA StartsSafe ==
    ASSUME ServerInit
    PROVE  ServerInv
  <1>1. Up = {}
    BY DEF ServerInit, Up, Free
  <1>2. Table
    BY <1>1, FS_EmptySet, Numbers DEF ServerInit, Table, Counted, OneConnPerParent, Free, Slot
  <1>3. Ages /\ Patience
    BY Numbers DEF ServerInit, Ages, Patience
  <1>4. radio \in Radio
    BY DEF ServerInit, Radio
  <1> QED
    BY <1>2, <1>3, <1>4 DEF ServerInv

LEMMA StepsKeepSafe ==
    ASSUME ServerInv, [Next]_serverVars
    PROVE  ServerInv'
  <1> USE DEF ServerInv
  <1>1. radio' \in Radio
    BY RadioStays
  <1>2. ASSUME NEW k \in Conn, Connected(k) \/ Paired(k)  PROVE Table' /\ Ages' /\ Patience'
    BY <1>2, OpenedKeepsTable, SameAges DEF Connected, Paired
  <1>3. ASSUME NEW k \in Conn, Dials(k) \/ Closes(k) \/ CallbackLost(k)
        PROVE  Table' /\ Ages' /\ Patience'
    BY <1>3, SameTable, SameAges DEF Dials, Closes, CallbackLost
  <1>4. ASSUME NEW k \in Conn, NEW id \in Id, Packet(k, id)  PROVE Table' /\ Ages' /\ Patience'
    BY <1>4, PacketKeepsTable, PacketKeepsAges
  <1>5. ASSUME NEW k \in Conn, NEW b \in BOOLEAN, Disconnected(k, b)
        PROVE  Table' /\ Ages' /\ Patience'
    BY <1>5, RemoveKeepsTable, SameAges DEF Disconnected
  <1>6. ASSUME AnnouncementEnds  PROVE Table' /\ Ages' /\ Patience'
    BY <1>6, SameTable, SameAges DEF AnnouncementEnds
  <1>7. ASSUME NEW b \in BOOLEAN, Loop(b)  PROVE Table' /\ Ages' /\ Patience'
    BY <1>7, SameTable, LoopKeepsAges DEF Loop
  <1>8. ASSUME NEW b \in BOOLEAN, Reselects(b)  PROVE Table' /\ Ages' /\ Patience'
    BY <1>8, SameTable, SameAges DEF Reselects
  <1>9. ASSUME TimePasses  PROVE Table' /\ Ages' /\ Patience'
    BY <1>9, SameTable, TimeKeepsAges DEF TimePasses
  <1>10. ASSUME UNCHANGED serverVars  PROVE Table' /\ Ages' /\ Patience'
    BY <1>10, SameTable, SameAges DEF serverVars
  <1>11. ASSUME SeeksOrNot  PROVE Table' /\ Ages' /\ Patience'
    BY <1>11, SameTable, SeekingKeepsAges DEF SeeksOrNot
  <1> QED
    BY <1>1, <1>2, <1>3, <1>4, <1>5, <1>6, <1>7, <1>8, <1>9, <1>10, <1>11 DEF Next

LEMMA InvImpliesSafe ==
    ASSUME ServerInv
    PROVE  ServerSafety /\ BareIsReset
  <1>1. ServerSafety
    BY DEF ServerInv, Table, Counted, Ages, ServerSafety, ServerTypeOK
  <1>2. BareIsReset
    <2>1. outage.bare \in Nat /\ clock.since \in 0 .. Unset /\ clock.last \in (0 .. Pause) \cup {Unset}
      BY Numbers DEF ServerInv, Ages
    <2>2. clock.since = Unset => outage.bare =< 1
      BY <2>1 DEF ServerInv, Patience
    <2>3. clock.since < Stuck => outage.bare =< Stuck
      BY <2>1, Numbers DEF ServerInv, Patience
    <2>4. clock.since = Stuck => outage.bare =< Stuck + Pause
      BY <2>1, Numbers DEF ServerInv, Patience
    <2> QED
      BY <2>1, <2>2, <2>3, <2>4, Numbers DEF BareIsReset
  <1> QED
    BY <1>1, <1>2

(* The count of the table is that of its slots and within its limit, and a  *)
(* parent has one connection at most (sle_uart_server_alloc_conn, _remove_- *)
(* conn and _bind_parent_conn), whichever callbacks are lost.               *)
THEOREM ServerStaysSafe == ServerSpec => []ServerSafety
  BY StartsSafe, StepsKeepSafe, InvImpliesSafe, PTL DEF ServerSpec

(* A member without a connection resets within Stuck and one Pause, again   *)
(* and again (team_member_upstream_recover_after_tx_fail), for any Pause    *)
(* that is no longer than Stuck.                                            *)
THEOREM BareResets == ServerSpec => []BareIsReset
  BY StartsSafe, StepsKeepSafe, InvImpliesSafe, PTL DEF ServerSpec
=============================================================================
