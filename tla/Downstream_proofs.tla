-------------------------- MODULE Downstream_proofs --------------------------
(***************************************************************************)
(* What holds on the way down a mesh: the connections of a link client to  *)
(* its children (SleClient), for any peers, members and connection ids,    *)
(* whatever callbacks the stack loses and whichever requests it refuses;   *)
(* and where packets go over them (RelayForward), for any members, relays  *)
(* and links, however many parents a node has and whatever a ROUTE_UPDATE  *)
(* names.  The two share nothing.  At the end: a mesh of two tiers is the  *)
(* channel of MeshChannel.                                                 *)
(***************************************************************************)
EXTENDS RelayForward, SleClient, FiniteSetTheorems, TLAPS

-----------------------------------------------------------------------------
(* The connections of a link client.                                        *)

(* The table has never more connections than the stack can serve.           *)
TableFits == Cardinality(Up(table)) =< MaxConns

(* A client that waits for the seek to stop has someone to dial.            *)
SomeoneChosen == client.stopping => client.remote \in Peer

ClientInv == ClientTypeOK /\ OneConnPerMember /\ TableFits /\ SomeoneChosen

(* The same of any table.                                                   *)
OneConnIn(t) == \A j, k \in Up(t) : t[j].id = t[k].id /\ t[j].id # NoId => j = k
GoodClient == {c \in Client : c.stopping => c.remote \in Peer}
GoodTable(t) == t \in [Conn -> Slot] /\ OneConnIn(t) /\ Cardinality(Up(t)) =< MaxConns

Outcome == [client : GoodClient, radio : Radio]

LEMMA InvParts == ClientInv <=> GoodTable(table) /\ client \in GoodClient /\ radio \in Radio
  BY DEF ClientInv, ClientTypeOK, OneConnPerMember, OneConnIn, TableFits, SomeoneChosen, GoodClient, GoodTable
-----------------------------------------------------------------------------
(* Seeking: whatever a request ends in is a state of the client and the     *)
(* stack.                                                                   *)

LEMMA Callbacks ==
    ASSUME NEW r \in Radio
    PROVE  /\ \A callback : [r EXCEPT !.owed = @ \ {callback}] \in Radio
           /\ StopAccepted(r) \in Radio
           /\ \A on \in BOOLEAN : [r EXCEPT !.scan = on] \in Radio
           /\ [r EXCEPT !.scan = TRUE, !.owed = @ \cup {"enabled"}] \in Radio
           /\ \A p \in Peer : [r EXCEPT !.dialled = @ \cup {p}] \in Radio
           /\ \A p : [r EXCEPT !.dialled = @ \ {p}] \in Radio
  BY DEF Radio, StopAccepted

LEMMA Outcomes ==
    ASSUME NEW c \in GoodClient, NEW r \in Radio
    PROVE  Seeking(c, r) \in Outcome
  BY DEF Seeking, Outcome

LEMMA StartScanTyped ==
    ASSUME NEW c \in GoodClient, NEW r \in Radio, NEW full
    PROVE  StartScan(c, r, full) \subseteq Outcome
  <1>1. [c EXCEPT !.recent = TRUE, !.seek = TRUE] \in GoodClient /\ [c EXCEPT !.recent = TRUE] \in GoodClient
    BY DEF GoodClient, Client
  <1>2. [r EXCEPT !.scan = TRUE, !.owed = @ \cup {"enabled"}] \in Radio
    BY Callbacks
  <1> QED
    BY <1>1, <1>2, Outcomes DEF StartScan

LEMMA ConnectPendingTyped ==
    ASSUME NEW c \in GoodClient, NEW r \in Radio, NEW full, c.remote \in Peer
    PROVE  ConnectPending(c, r, full) \subseteq Outcome
  <1> DEFINE idle == [c EXCEPT !.stopping = FALSE, !.stopAge = 0, !.seek = FALSE,
                               !.recent = FALSE, !.rescan = FALSE]
  <1>1. idle \in GoodClient
    <2>1. 0 \in 0 .. StopTimeout
      BY ClientAssumption
    <2> QED
      BY <2>1 DEF GoodClient, Client
  <1>2. [r EXCEPT !.dialled = @ \cup {c.remote}] \in Radio
    BY Callbacks
  <1>3. ConnectPending(c, r, full)
          = {Seeking(idle, [r EXCEPT !.dialled = @ \cup {c.remote}])} \cup StartScan(idle, r, full)
    BY DEF ConnectPending
  <1> QED
    BY <1>1, <1>2, <1>3, Outcomes, StartScanTyped

LEMMA ForceRescanTyped ==
    ASSUME NEW c \in GoodClient, NEW r \in Radio, NEW full
    PROVE  ForceRescan(c, r, full) \subseteq Outcome
  <1> DEFINE free == [c EXCEPT !.recent = FALSE]
             again == [free EXCEPT !.rescan = TRUE]
             anew == [free EXCEPT !.seek = FALSE, !.rescan = FALSE]
  <1>1. free \in GoodClient /\ again \in GoodClient /\ anew \in GoodClient
    BY DEF GoodClient, Client
  <1>2. StopAccepted(r) \in Radio
    BY Callbacks
  <1>3. ForceRescan(c, r, full) =
          IF full THEN {Seeking(c, r)}
          ELSE IF c.stopping THEN {Seeking(free, r)}
          ELSE IF c.seek THEN {Seeking(again, StopAccepted(r))} \cup StartScan(anew, r, full)
          ELSE StartScan(free, r, full)
    BY DEF ForceRescan
  <1> HIDE DEF free, again, anew
  <1> QED
    BY <1>1, <1>2, <1>3, Outcomes, StartScanTyped

LEMMA BecomeTyped ==
    ASSUME NEW outcomes \in SUBSET Outcome, Become(outcomes)
    PROVE  client' \in GoodClient /\ radio' \in Radio
  BY DEF Become, Outcome
-----------------------------------------------------------------------------
(* The table.                                                               *)

LEMMA UpFinite ==
    ASSUME NEW t
    PROVE  IsFiniteSet(Up(t))
  BY ClientAssumption, FS_Subset DEF Up

(* A slot taken, changed or kept, for a member that no other slot has.      *)
LEMMA SlotTaken ==
    ASSUME NEW t, NEW u, GoodTable(t), u \in [Conn -> Slot], OneConnIn(u),
           NEW k \in Conn, CanHold(t, k), Up(u) = Up(t) \cup {k}
    PROVE  GoodTable(u)
  <1>1. IsFiniteSet(Up(t)) /\ Cardinality(Up(t)) \in Nat
    BY UpFinite, FS_CardinalityType
  <1>2. CASE t[k].up
    <2>1. Up(u) = Up(t)
      BY <1>2 DEF Up
    <2> QED
      BY <2>1 DEF GoodTable
  <1>3. CASE ~t[k].up
    <2>1. Cardinality(Up(t)) < MaxConns
      BY <1>1, <1>3, ClientAssumption DEF CanHold, Full
    <2>2. Cardinality(Up(u)) = Cardinality(Up(t)) + 1
      BY <1>1, <1>3, FS_AddElement DEF Up
    <2> QED
      BY <1>1, <2>1, <2>2, ClientAssumption DEF GoodTable
  <1> QED
    BY <1>2, <1>3

LEMMA HeldSlot ==
    ASSUME NEW t, GoodTable(t), NEW k \in Conn
    PROVE  Held(t, k) \in Slot /\ Held(t, k).up /\ Held(t, k).id = (IF t[k].up THEN t[k].id ELSE NoId)
  <1>1. t[k] \in Slot
    BY DEF GoodTable
  <1>2. Free \in Slot /\ Free.id = NoId
    BY ClientAssumption DEF Free, Slot
  <1>3. /\ [Free EXCEPT !.up = TRUE] \in Slot /\ [Free EXCEPT !.up = TRUE].up
        /\ [Free EXCEPT !.up = TRUE].id = NoId
    BY <1>2 DEF Slot
  <1>4. t[k].up \in BOOLEAN
    BY <1>1 DEF Slot
  <1>5. CASE t[k].up
    BY <1>1, <1>5 DEF Held
  <1>6. CASE ~t[k].up
    BY <1>2, <1>3, <1>6 DEF Held
  <1> QED
    BY <1>5, <1>6

LEMMA Fewer ==
    ASSUME NEW t, NEW u, GoodTable(t), u \in [Conn -> Slot],
           Up(u) \subseteq Up(t), \A k \in Up(u) : u[k].id = t[k].id
    PROVE  GoodTable(u)
  <1>1. IsFiniteSet(Up(t))
    BY UpFinite
  <1>2. Cardinality(Up(u)) =< Cardinality(Up(t))
    BY <1>1, FS_Subset
  <1>3. Cardinality(Up(u)) \in Nat /\ Cardinality(Up(t)) \in Nat
    BY UpFinite, FS_CardinalityType
  <1>4. Cardinality(Up(u)) =< MaxConns
    BY <1>2, <1>3, ClientAssumption DEF GoodTable
  <1>5. OneConnIn(u)
    BY DEF GoodTable, OneConnIn
  <1> QED
    BY <1>4, <1>5 DEF GoodTable

LEMMA RemovedGood ==
    ASSUME NEW t, GoodTable(t), NEW gone
    PROVE  GoodTable(Without(t, gone))
  <1>1. Free \in Slot /\ ~Free.up
    BY ClientAssumption DEF Free, Slot
  <1>2. Without(t, gone) \in [Conn -> Slot]
    BY <1>1 DEF Without, GoodTable
  <1>3. Up(Without(t, gone)) \subseteq Up(t) /\ \A k \in Up(Without(t, gone)) : Without(t, gone)[k] = t[k]
    BY <1>1 DEF Up, Without
  <1> QED
    BY <1>2, <1>3, Fewer

LEMMA BindGood ==
    ASSUME NEW t, GoodTable(t), NEW id \in Id, NEW k \in Conn, CanHold(t, k)
    PROVE  GoodTable(BindSlots(t, id, k))
  <1> DEFINE u == BindSlots(t, id, k)
             mine == [Held(t, k) EXCEPT !.id = id]
  <1>1. mine \in Slot /\ mine.up /\ mine.id = id
    BY HeldSlot DEF Slot
  <1>2. \A j \in Conn : t[j] \in Slot /\ [t[j] EXCEPT !.id = NoId] \in Slot
    BY DEF GoodTable, Slot
  <1>3. u = [j \in Conn |-> IF j = k THEN mine
                            ELSE IF t[j].up /\ t[j].id = id THEN [t[j] EXCEPT !.id = NoId] ELSE t[j]]
    BY DEF BindSlots
  <1> HIDE DEF mine
  <1>4. u \in [Conn -> Slot]
    BY <1>1, <1>2, <1>3
  <1>5. \A j \in Conn \ {k} : /\ u[j].up = t[j].up
                              /\ u[j].id = IF t[j].up /\ t[j].id = id THEN NoId ELSE t[j].id
    BY <1>2, <1>3 DEF Slot
  <1>6. u[k].up /\ u[k].id = id
    BY <1>1, <1>3
  <1>7. Up(u) = Up(t) \cup {k}
    BY <1>5, <1>6 DEF Up
  <1>8. OneConnIn(u)
    BY <1>5, <1>6, <1>7, ClientAssumption DEF GoodTable, OneConnIn, Up
  <1> QED
    BY <1>4, <1>7, <1>8, SlotTaken

LEMMA PeerGood ==
    ASSUME NEW t, GoodTable(t), NEW p \in Peer, NEW k \in Conn, CanHold(t, k)
    PROVE  GoodTable([t EXCEPT ![k] = [Held(t, k) EXCEPT !.peer = p]])
  <1> DEFINE mine == [Held(t, k) EXCEPT !.peer = p]
             u == [t EXCEPT ![k] = mine]
  <1>1. mine \in Slot /\ mine.up /\ mine.id = (IF t[k].up THEN t[k].id ELSE NoId)
    BY HeldSlot DEF Slot
  <1> HIDE DEF mine
  <1>2. t \in [Conn -> Slot]
    BY DEF GoodTable
  <1>3. u \in [Conn -> Slot] /\ u[k] = mine /\ \A j \in Conn \ {k} : u[j] = t[j]
    BY <1>1, <1>2
  <1> HIDE DEF u
  <1>4. Up(u) = Up(t) \cup {k}
    BY <1>1, <1>3 DEF Up
  <1>5. OneConnIn(u)
    BY <1>1, <1>3, <1>4 DEF GoodTable, OneConnIn, Up
  <1> QED
    BY <1>3, <1>4, <1>5, SlotTaken DEF u, mine

(* Readings change no more than the count of failures.                      *)
LEMMA ReadingGood ==
    ASSUME NEW t, GoodTable(t), NEW u,
           u \in [Conn -> Slot], \A k \in Conn : u[k].up = t[k].up /\ u[k].id = t[k].id
    PROVE  GoodTable(u)
  <1>1. Up(u) = Up(t)
    BY DEF Up
  <1> QED
    BY <1>1, Fewer DEF Up

LEMMA Failures ==
    ASSUME NEW s \in Slot, NEW n \in {0, IF s.fails < RssiLimit THEN s.fails + 1 ELSE s.fails}
    PROVE  [s EXCEPT !.fails = n] \in Slot /\ [s EXCEPT !.fails = n].up = s.up
           /\ [s EXCEPT !.fails = n].id = s.id
  BY ClientAssumption DEF Slot

LEMMA RssiGood ==
    ASSUME NEW t, GoodTable(t), NEW accepted
    PROVE  GoodTable(AfterRssi(t, accepted))
  <1> DEFINE u == AfterRssi(t, accepted)
  <1>1. \A k \in Conn : t[k] \in Slot
    BY DEF GoodTable
  <1>2. \A k \in Conn : u[k] \in Slot /\ u[k].up = t[k].up /\ u[k].id = t[k].id
    BY <1>1, ClientAssumption DEF AfterRssi, Slot
  <1>3. u \in [Conn -> Slot]
    BY <1>2 DEF AfterRssi
  <1> HIDE DEF u
  <1>4. GoodTable(u)
    BY <1>2, <1>3, ReadingGood
  <1> QED
    BY <1>4 DEF u-----------------------------------------------------------------------------
(* The steps.                                                               *)

LEMMA OnlySeeking ==
    ASSUME ClientInv, UNCHANGED table, client' \in GoodClient, radio' \in Radio
    PROVE  ClientInv'
  BY DEF ClientInv, ClientTypeOK, OneConnPerMember, TableFits, SomeoneChosen, GoodClient, Up

LEMMA TableChanged ==
    ASSUME ClientInv, GoodTable(table'), client' \in GoodClient, radio' \in Radio
    PROVE  ClientInv'
  BY DEF ClientInv, ClientTypeOK, OneConnPerMember, TableFits, SomeoneChosen, GoodClient,
         GoodTable, OneConnIn

LEMMA AnswerTyped ==
    ASSUME ClientInv
    PROVE  \A callback : Answered(callback) \in Radio
  BY InvParts, Callbacks DEF Answered

LEMMA EnabledKeeps ==
    ASSUME ClientInv, NEW ok \in BOOLEAN, Enabled(ok)
    PROVE  ClientInv'
  <1> DEFINE idle == [client EXCEPT !.seek = FALSE, !.stopping = FALSE, !.stopAge = 0,
                                    !.rescan = FALSE]
             ready == [idle EXCEPT !.recent = FALSE]
             r == Answered("enable")
  <1>1. client \in GoodClient /\ r \in Radio
    BY InvParts, AnswerTyped
  <1>2. idle \in GoodClient
    <2>1. 0 \in 0 .. StopTimeout
      BY ClientAssumption
    <2> QED
      BY <1>1, <2>1 DEF GoodClient, Client
  <1>3. ready \in GoodClient
    BY <1>2 DEF GoodClient, Client
  <1>4. \/ Become(StartScan(ready, r, Full(table)))
        \/ client' = idle /\ radio' = r
        \/ Become(StartScan(client, r, Full(table)))
    BY DEF Enabled
  <1>5. UNCHANGED table
    BY DEF Enabled
  <1> HIDE DEF idle, ready, r
  <1>6. client' \in GoodClient /\ radio' \in Radio
    BY <1>1, <1>2, <1>3, <1>4, StartScanTyped, BecomeTyped
  <1> QED
    BY <1>5, <1>6, OnlySeeking

LEMMA SeekEnabledKeeps ==
    ASSUME ClientInv, NEW ok \in BOOLEAN, SeekEnabled(ok)
    PROVE  ClientInv'
  <1>1. client \in GoodClient /\ Answered("enabled") \in Radio
    BY InvParts, AnswerTyped
  <1>2. client' \in GoodClient
    BY <1>1 DEF SeekEnabled, GoodClient, Client
  <1>3. radio' \in Radio
    BY <1>1 DEF SeekEnabled, Radio
  <1> QED
    BY <1>2, <1>3, OnlySeeking DEF SeekEnabled

LEMMA SeekResultKeeps ==
    ASSUME ClientInv, NEW p \in Peer, NEW passes \in BOOLEAN, SeekResult(p, passes)
    PROVE  ClientInv'
  <1> DEFINE heard == [client EXCEPT !.recent = TRUE]
             chosen == [heard EXCEPT !.remote = p, !.stopping = TRUE, !.stopAge = 0]
  <1>1. client \in GoodClient /\ radio \in Radio
    BY InvParts
  <1>2. heard \in GoodClient
    BY <1>1 DEF GoodClient, Client
  <1>3. chosen \in GoodClient /\ chosen.remote \in Peer
    <2>1. 0 \in 0 .. StopTimeout
      BY ClientAssumption
    <2> QED
      BY <1>2, <2>1 DEF GoodClient, Client
  <1>4. \/ client' = heard /\ radio' = radio
        \/ Become({Seeking(chosen, StopAccepted(radio))} \cup ConnectPending(chosen, radio, Full(table)))
    BY DEF SeekResult
  <1>5. UNCHANGED table
    BY DEF SeekResult
  <1> HIDE DEF heard, chosen
  <1>6. {Seeking(chosen, StopAccepted(radio))} \cup ConnectPending(chosen, radio, Full(table))
          \subseteq Outcome
    BY <1>1, <1>3, Callbacks, Outcomes, ConnectPendingTyped
  <1>7. client' \in GoodClient /\ radio' \in Radio
    BY <1>1, <1>2, <1>4, <1>6, BecomeTyped
  <1> QED
    BY <1>5, <1>7, OnlySeeking

LEMMA SeekDisabledKeeps ==
    ASSUME ClientInv, SeekDisabled
    PROVE  ClientInv'
  <1> DEFINE idle == [client EXCEPT !.seek = FALSE, !.recent = FALSE]
             again == [idle EXCEPT !.rescan = FALSE, !.stopAge = 0]
             done == [idle EXCEPT !.stopAge = 0]
             r == Answered("disabled")
  <1>1. client \in GoodClient /\ r \in Radio
    BY InvParts, AnswerTyped
  <1>2. idle \in GoodClient /\ idle.remote = client.remote
    BY <1>1 DEF GoodClient, Client
  <1>3. 0 \in 0 .. StopTimeout
    BY ClientAssumption
  <1>4. again \in GoodClient /\ done \in GoodClient
    BY <1>2, <1>3 DEF GoodClient, Client
  <1>5. \/ client.stopping /\ Become(ConnectPending(idle, r, Full(table)))
        \/ Become(StartScan(again, r, Full(table)))
        \/ client' = done /\ radio' = r
    BY DEF SeekDisabled
  <1>6. client.stopping => idle.remote \in Peer
    BY <1>1, <1>2 DEF GoodClient
  <1>7. UNCHANGED table
    BY DEF SeekDisabled
  <1> HIDE DEF idle, again, done, r
  <1>8. client' \in GoodClient /\ radio' \in Radio
    BY <1>1, <1>2, <1>4, <1>5, <1>6, ConnectPendingTyped, StartScanTyped, BecomeTyped
  <1> QED
    BY <1>7, <1>8, OnlySeeking

LEMMA CallbackLostKeeps ==
    ASSUME ClientInv, NEW callback, CallbackLost(callback)
    PROVE  ClientInv'
  BY InvParts, AnswerTyped, OnlySeeking DEF CallbackLost

LEMMA TickKeeps ==
    ASSUME ClientInv, Tick
    PROVE  ClientInv'
  <1>1. client \in GoodClient /\ radio \in Radio /\ client.remote \in Peer
    BY InvParts DEF Tick, StopOverdue, GoodClient
  <1>2. client' \in GoodClient /\ radio' \in Radio
    BY <1>1, ConnectPendingTyped, BecomeTyped DEF Tick
  <1> QED
    BY <1>2, OnlySeeking DEF Tick

LEMMA RescanKeeps ==
    ASSUME ClientInv, Rescan
    PROVE  ClientInv'
  <1>1. client' \in GoodClient /\ radio' \in Radio
    BY InvParts, ForceRescanTyped, BecomeTyped DEF Rescan
  <1> QED
    BY <1>1, OnlySeeking DEF Rescan

LEMMA LinkTyped ==
    ASSUME NEW r \in Radio, NEW k \in Conn, NEW p \in Peer \cup {NoPeer}
    PROVE  [r EXCEPT !.link[k] = p] \in Radio
  BY DEF Radio

LEMMA ConnectedKeeps ==
    ASSUME ClientInv, NEW k \in Conn, NEW p \in Peer, Connected(k, p)
    PROVE  ClientInv'
  <1> DEFINE r == [radio EXCEPT !.dialled = @ \ {p}, !.link[k] = p]
  <1>1. GoodTable(table) /\ client \in GoodClient /\ radio \in Radio
    BY InvParts
  <1>2. r \in Radio
    BY <1>1 DEF Radio
  <1>3. [client EXCEPT !.recent = FALSE] \in GoodClient
    BY <1>1 DEF GoodClient, Client
  <1>4. radio' = r
    BY DEF Connected
  <1> HIDE DEF r
  <1>5. CASE CanHold(table, k)
    <2>1. /\ table' = [table EXCEPT ![k] = [Held(table, k) EXCEPT !.peer = p]]
          /\ client' = [client EXCEPT !.recent = FALSE]
      BY <1>5 DEF Connected
    <2> QED
      BY <1>1, <1>2, <1>3, <1>4, <1>5, <2>1, PeerGood, TableChanged
  <1>6. CASE ~CanHold(table, k)
    BY <1>1, <1>2, <1>4, <1>6, OnlySeeking DEF Connected
  <1> QED
    BY <1>5, <1>6

LEMMA DisconnectedKeeps ==
    ASSUME ClientInv, NEW k \in Conn, Disconnected(k)
    PROVE  ClientInv'
  <1>1. GoodTable(table) /\ client \in GoodClient /\ radio \in Radio
    BY InvParts
  <1>2. [radio EXCEPT !.link[k] = NoPeer] \in Radio
    BY <1>1, LinkTyped
  <1>3. client' \in GoodClient /\ radio' \in Radio
    BY <1>1, <1>2, StartScanTyped, BecomeTyped DEF Disconnected
  <1>4. GoodTable(table')
    BY <1>1, RemovedGood DEF Disconnected
  <1> QED
    BY <1>3, <1>4, TableChanged

LEMMA DialFailedKeeps ==
    ASSUME ClientInv, NEW p \in Peer, NEW reported \in BOOLEAN, DialFailed(p, reported)
    PROVE  ClientInv'
  <1> DEFINE r == [radio EXCEPT !.dialled = @ \ {p}]
  <1>1. client \in GoodClient /\ r \in Radio
    BY InvParts, Callbacks
  <1>2. Become(StartScan(client, r, Full(table))) \/ (client' = client /\ radio' = r)
    BY DEF DialFailed
  <1> HIDE DEF r
  <1>3. client' \in GoodClient /\ radio' \in Radio
    BY <1>1, <1>2, StartScanTyped, BecomeTyped
  <1> QED
    BY <1>3, OnlySeeking DEF DialFailed

LEMMA LinkLostKeeps ==
    ASSUME ClientInv, NEW k \in Conn, LinkLost(k)
    PROVE  ClientInv'
  BY InvParts, LinkTyped, OnlySeeking DEF LinkLost

LEMMA BindKeeps ==
    ASSUME ClientInv, NEW id \in Id, NEW k \in Conn, Bind(id, k)
    PROVE  ClientInv'
  <1>1. GoodTable(table')
    BY InvParts, BindGood DEF Bind
  <1> QED
    BY <1>1, InvParts, TableChanged DEF Bind

LEMMA ReadRssiKeeps ==
    ASSUME ClientInv, ReadRssi
    PROVE  ClientInv'
  <1>1. PICK accepted \in SUBSET Conn, stale \in SUBSET Conn :
          /\ table' = Without(AfterRssi(table, accepted), stale)
          /\ \/ UNCHANGED <<client, radio>>
             \/ Become(StartScan(client, radio, Full(table')))
    BY DEF ReadRssi, Up
  <1>2. GoodTable(table')
    BY <1>1, InvParts, RssiGood, RemovedGood
  <1>3. client' \in GoodClient /\ radio' \in Radio
    BY <1>1, InvParts, StartScanTyped, BecomeTyped
  <1> QED
    BY <1>2, <1>3, TableChanged

LEMMA RssiAnswerKeeps ==
    ASSUME ClientInv, NEW k \in Conn, NEW ok \in BOOLEAN, RssiAnswer(k, ok)
    PROVE  ClientInv'
  <1> DEFINE n == IF ok THEN 0 ELSE IF table[k].fails < RssiLimit THEN table[k].fails + 1
                               ELSE table[k].fails
  <1>1. GoodTable(table) /\ table \in [Conn -> Slot] /\ table[k] \in Slot
    BY InvParts DEF GoodTable
  <1>2. table' = [table EXCEPT ![k] = [table[k] EXCEPT !.fails = n]]
    BY <1>1 DEF RssiAnswer
  <1>3. n \in {0, IF table[k].fails < RssiLimit THEN table[k].fails + 1 ELSE table[k].fails}
    OBVIOUS
  <1> HIDE DEF n
  <1> DEFINE s == [table[k] EXCEPT !.fails = n]
  <1>4. s \in Slot /\ s.up = table[k].up /\ s.id = table[k].id
    BY <1>1, <1>3, Failures
  <1>5. table' = [table EXCEPT ![k] = s]
    BY <1>2
  <1> HIDE DEF s
  <1>6. table' \in [Conn -> Slot] /\ \A j \in Conn : table'[j].up = table[j].up /\ table'[j].id = table[j].id
    BY <1>1, <1>4, <1>5
  <1>7. GoodTable(table')
    BY <1>1, <1>6, ReadingGood
  <1> QED
    BY <1>7, InvParts, TableChanged DEF RssiAnswer

LEMMA IntervalKeeps ==
    ASSUME ClientInv, Interval
    PROVE  ClientInv'
  <1>1. client \in GoodClient /\ radio \in Radio
    BY InvParts
  <1>2. client' \in GoodClient
    <2> DEFINE age == IF client.stopping /\ client.stopAge < StopTimeout
                        THEN client.stopAge + 1 ELSE client.stopAge
    <2>1. age \in 0 .. StopTimeout
      BY <1>1, ClientAssumption DEF GoodClient, Client
    <2>2. client' = [client EXCEPT !.recent = FALSE, !.stopAge = age]
      BY <1>1 DEF Interval, GoodClient, Client
    <2> HIDE DEF age
    <2> QED
      BY <1>1, <2>1, <2>2 DEF GoodClient, Client
  <1> QED
    BY <1>1, <1>2, OnlySeeking DEF Interval

LEMMA ClientStarts == ClientInit => ClientInv
  <1> SUFFICES ASSUME ClientInit PROVE ClientInv
    OBVIOUS
  <1>1. table \in [Conn -> Slot] /\ \A k \in Conn : ~table[k].up
    BY ClientAssumption DEF ClientInit, Free, Slot
  <1>2. client \in GoodClient
    BY ClientAssumption DEF ClientInit, Quiet, GoodClient, Client
  <1>3. radio \in Radio
    BY DEF ClientInit, Radio
  <1>4. Up(table) = {}
    BY <1>1 DEF Up
  <1>5. GoodTable(table)
    BY <1>1, <1>4, FS_EmptySet, ClientAssumption DEF GoodTable, OneConnIn
  <1> QED
    BY <1>2, <1>3, <1>5, InvParts

LEMMA ClientSteps ==
    ASSUME ClientInv, [ClientNext]_clientVars
    PROVE  ClientInv'
  <1>1. CASE SeekCallback
    BY <1>1, EnabledKeeps, SeekEnabledKeeps, SeekResultKeeps, SeekDisabledKeeps, CallbackLostKeeps
       DEF SeekCallback
  <1>2. CASE LinkCallback
    BY <1>2, DisconnectedKeeps, LinkLostKeeps, ConnectedKeeps, DialFailedKeeps, RssiAnswerKeeps,
       BindKeeps DEF LinkCallback
  <1>3. CASE Tick \/ Rescan \/ ReadRssi \/ Interval
    BY <1>3, TickKeeps, RescanKeeps, ReadRssiKeeps, IntervalKeeps
  <1>4. CASE UNCHANGED clientVars
    BY <1>4, InvParts, OnlySeeking DEF clientVars
  <1> QED
    BY <1>1, <1>2, <1>3, <1>4 DEF ClientNext

LEMMA ClientInvariant == ClientSpec => []ClientInv
  <1>1. ClientInv /\ [ClientNext]_clientVars => ClientInv'
    BY ClientSteps
  <1> QED
    BY <1>1, ClientStarts, PTL DEF ClientSpec
-----------------------------------------------------------------------------
(* However often members come back on new connections while their old ones  *)
(* are still in the table, and whatever connections the table takes back    *)
(* from the packets that come over them, no member has two.                 *)
THEOREM MembersHaveOneConn == ClientSpec => []ClientSafety
  <1>1. ClientInv => ClientSafety
    BY DEF ClientInv, ClientSafety
  <1> QED
    BY <1>1, ClientInvariant, PTL

(* sle_uart_client_alloc_conn never takes more slots than the table has,    *)
(* through whichever of its callers a connection comes.                     *)
THEOREM ConnectionsFit == ClientSpec => []TableFits
  <1>1. ClientInv => TableFits
    BY DEF ClientInv
  <1> QED
    BY <1>1, ClientInvariant, PTL

(* A connect is only ever asked for an address that a seek result gave,     *)
(* however late the stack confirms that it stopped, or if it never does.    *)
THEOREM DialsTheChosen == ClientSpec => []SomeoneChosen
  <1>1. ClientInv => SomeoneChosen
    BY DEF ClientInv
  <1> QED
    BY <1>1, ClientInvariant, PTL
-----------------------------------------------------------------------------
(* The packets of the nodes.                                                *)

(* A connection of a parent is bound to a member that no other one is       *)
(* bound to.                                                                *)
BindingsUnique ==
    \A k, l \in up : k[1] = l[1] /\ bound[k] = bound[l] /\ bound[l] # None => k = l

(* The route of the member that a relay's connection is bound to goes over  *)
(* that connection, if there is one.                                        *)
RoutesFollow ==
    \A l \in up : l[1] \in Relay /\ bound[l] # None => route[l[1]][bound[l]].conn \in {l[2], None}

ForwardInv == ForwardTypeOK /\ BindingsUnique /\ RoutesFollow

Route == [conn : Member \cup {None}, next : Node \cup {None}]
Owner == Relay \cup {Leader}
-----------------------------------------------------------------------------
LEMMA AtMostOne ==
    ASSUME NEW S, \A x, y \in S : x = y
    PROVE  Cardinality(S) =< 1
  <1>1. CASE S = {}
    BY <1>1, FS_EmptySet
  <1>2. ASSUME NEW x \in S
        PROVE  Cardinality(S) =< 1
    <2>1. S = {x}
      BY <1>2
    <2> QED
      BY <2>1, FS_Singleton
  <1> QED
    BY <1>1, <1>2

(* The ids, and the ends of a link.                                         *)
LEMMA Ids ==
    /\ Leader \notin Relay /\ None \notin Node /\ Leader \in Node /\ Leader # None
    /\ Member \subseteq Node /\ Relay \subseteq Member
    /\ None \notin Member
    /\ \A l \in Link : l = <<l[1], l[2]>> /\ l[1] \in Owner /\ l[2] \in Member
  BY ForwardAssumption DEF Leader, None, Node, Owner

LEMMA UpLinks ==
    ASSUME ForwardTypeOK, NEW n, NEW c, <<n, c>> \in up
    PROVE  n \in Owner /\ c \in Member
  <1>1. <<n, c>> \in Link
    BY DEF ForwardTypeOK
  <1> QED
    BY <1>1, Ids

LEMMA BoundsAreNodes ==
    ASSUME ForwardTypeOK, NEW l \in up
    PROVE  l = <<l[1], l[2]>> /\ l[1] \in Owner /\ l[2] \in Member /\ bound[l] \in Node \cup {None}
  <1>1. l \in Link
    BY DEF ForwardTypeOK
  <1> QED
    BY <1>1, Ids DEF ForwardTypeOK
-----------------------------------------------------------------------------
(* Packets and queues.                                                      *)

LEMMA WaysOfLinks ==
    ASSUME NEW l, NEW way, <<l, way>> \in up \X Ways
    PROVE  l \in up
  OBVIOUS

LEMMA NewPacket ==
    ASSUME NEW kind \in Kinds \cup {"ack"}, NEW src \in Node, NEW dst \in Node \cup {None}, NEW claim \in Node
    PROVE  New(kind, src, dst, claim) \in Packet
  BY ForwardAssumption DEF New, Packet

LEMMA WithQueues ==
    ASSUME NEW D, NEW a \in [D -> Seq(Packet)], NEW ws, NEW q \in Packet
    PROVE  With(a, ws, q) \in [D -> Seq(Packet)]
  <1>1. \A w \in D : Append(a[w], q) \in Seq(Packet) /\ a[w] \in Seq(Packet)
    OBVIOUS
  <1> QED
    BY <1>1 DEF With

LEMMA TakenQueues ==
    ASSUME ForwardTypeOK, NEW w \in DOMAIN air, air[w] # << >>
    PROVE  Taken(w) \in [up \X Ways -> Seq(Packet)] /\ Head(air[w]) \in Packet
  <1>1. air \in [up \X Ways -> Seq(Packet)]
    BY DEF ForwardTypeOK
  <1>2. air[w] \in Seq(Packet)
    BY <1>1
  <1>3. Head(air[w]) \in Packet /\ Tail(air[w]) \in Seq(Packet)
    BY <1>2
  <1> QED
    BY <1>1, <1>3 DEF Taken

LEMMA PassedQueues ==
    ASSUME NEW D, NEW a \in [D -> Seq(Packet)], NEW n, NEW p \in Packet, NEW ws
    PROVE  Passed(a, n, p, ws) \in [D -> Seq(Packet)]
  <1>1. CASE Carries(n, p) /\ p.src # n /\ p.ttl > 1
    <2>1. [p EXCEPT !.ttl = @ - 1] \in Packet
      BY <1>1, ForwardAssumption DEF Packet
    <2> QED
      BY <1>1, <2>1, WithQueues DEF Passed
  <1>2. CASE ~(Carries(n, p) /\ p.src # n /\ p.ttl > 1)
    BY <1>2 DEF Passed
  <1> QED
    BY <1>1, <1>2
-----------------------------------------------------------------------------
(* What a packet teaches keeps bindings and routes together.                *)
LEMMA LearnedKeeps ==
    ASSUME ForwardInv, NEW n, NEW c, <<n, c>> \in up, NEW p \in Packet,
           Learned(n, c, p), up' = up
    PROVE  /\ bound' \in [up -> Node \cup {None}]
           /\ route' \in [Owner -> [Node -> Route]]
           /\ BindingsUnique' /\ RoutesFollow'
  <1> DEFINE owner == IF n = Leader THEN c ELSE p.src
  <1> USE DEF ForwardInv
  <1>1. n \in Owner /\ c \in Member /\ p.src \in Node /\ p.claim \in Node /\ owner \in Node
    BY UpLinks, Ids DEF Packet
  <1>2. bound' = [l \in up |-> IF l = <<n, c>> THEN owner
                               ELSE IF l[1] = n /\ bound[l] = owner THEN None ELSE bound[l]]
    BY DEF Learned
  <1>3. PICK hop \in HopsOf(n, c, p) :
          route' = [route EXCEPT ![n][p.src] = [conn |-> c, next |-> hop]]
    BY DEF Learned
  <1>4. hop \in Node
    BY <1>1, <1>3, Ids DEF HopsOf
  <1>5. route \in [Owner -> [Node -> Route]]
    BY DEF ForwardTypeOK, Owner, Route
  <1> HIDE DEF owner
  <1>6. \A l \in up : bound[l] \in Node \cup {None}
    BY BoundsAreNodes
  <1>7. bound' \in [up -> Node \cup {None}]
    BY <1>1, <1>2, <1>6
  <1>8. route' \in [Owner -> [Node -> Route]]
    <2>1. [conn |-> c, next |-> hop] \in Route
      BY <1>1, <1>4 DEF Route
    <2> QED
      BY <1>1, <1>3, <1>5, <2>1
  <1>9. BindingsUnique'
    <2> SUFFICES ASSUME NEW k \in up, NEW l \in up, k[1] = l[1], bound'[k] = bound'[l], bound'[l] # None
                 PROVE  k = l
      BY DEF BindingsUnique
    <2>1. CASE k = <<n, c>>
      BY <1>2, <2>1
    <2>2. CASE l = <<n, c>>
      BY <1>2, <2>2
    <2>3. CASE k # <<n, c>> /\ l # <<n, c>>
      BY <1>2, <2>3 DEF BindingsUnique
    <2> QED
      BY <2>1, <2>2, <2>3
  <1>10. RoutesFollow'
    <2> SUFFICES ASSUME NEW l \in up, l[1] \in Relay, bound'[l] # None
                 PROVE  route'[l[1]][bound'[l]].conn \in {l[2], None}
      BY DEF RoutesFollow
    <2>1. l[1] \in Owner /\ l[1] # Leader /\ l = <<l[1], l[2]>>
      BY Ids, BoundsAreNodes
    <2>2. CASE l = <<n, c>>
      <3>1. bound'[l] = p.src /\ l[1] = n /\ l[2] = c
        BY <1>2, <2>1, <2>2 DEF owner
      <3>2. route'[n][p.src] = [conn |-> c, next |-> hop]
        BY <1>1, <1>3, <1>5
      <3> QED
        BY <3>1, <3>2
    <2>3. CASE l # <<n, c>> /\ l[1] = n
      <3>1. bound'[l] = bound[l] /\ bound[l] # owner /\ owner = p.src
        BY <1>2, <2>1, <2>3 DEF owner
      <3>2. bound[l] \in Node
        BY <1>6, <3>1
      <3>3. route'[n][bound[l]] = route[n][bound[l]]
        BY <1>1, <1>3, <1>5, <3>1, <3>2
      <3> QED
        BY <2>3, <3>1, <3>3 DEF RoutesFollow
    <2>4. CASE l[1] # n
      <3>1. bound'[l] = bound[l]
        BY <1>2, <2>4, <2>1
      <3>2. route'[l[1]] = route[l[1]]
        BY <1>1, <1>3, <1>5, <2>1, <2>4
      <3> QED
        BY <3>1, <3>2 DEF RoutesFollow
    <2> QED
      BY <2>2, <2>3, <2>4
  <1> QED
    BY <1>7, <1>8, <1>9, <1>10
-----------------------------------------------------------------------------
(* The steps.  First those that touch the queues only.                      *)

LEMMA QueuesOnly ==
    ASSUME ForwardInv, air' \in [up \X Ways -> Seq(Packet)], waiting' \subseteq Member,
           left' \in 0 .. Budget, calm' \in BOOLEAN, UNCHANGED <<up, bound, route, mode>>
    PROVE  ForwardInv'
  BY DEF ForwardInv, ForwardTypeOK, BindingsUnique, RoutesFollow

LEMMA AfterLearning ==
    ASSUME ForwardInv, NEW n, NEW c, <<n, c>> \in up, NEW p \in Packet, Learned(n, c, p),
           air' \in [up \X Ways -> Seq(Packet)], UNCHANGED <<up, mode, waiting, left, calm>>
    PROVE  ForwardInv'
  <1>1. /\ bound' \in [up -> Node \cup {None}] /\ route' \in [Owner -> [Node -> Route]]
        /\ BindingsUnique' /\ RoutesFollow'
    BY LearnedKeeps
  <1> QED
    BY <1>1 DEF ForwardInv, ForwardTypeOK, Owner, Route

LEMMA MemberSendsKeeps ==
    ASSUME ForwardInv, NEW m \in Member, MemberSends(m), UNCHANGED calm
    PROVE  ForwardInv'
  <1>1. air \in [up \X Ways -> Seq(Packet)] /\ calm \in BOOLEAN /\ waiting \subseteq Member
        /\ left \in 0 .. Budget /\ Budget \in Nat
    BY ForwardAssumption DEF ForwardInv, ForwardTypeOK
  <1>2. PICK kind \in Kinds \cap {"hello", "route", "report"},
             claim \in Parents(m) \cup {Leader}, ws \in Upstream(m) :
          /\ air' = With(air, ws, New(kind, m, Leader, claim))
          /\ waiting' = IF kind = "hello" THEN waiting \cup {m} ELSE waiting
    BY DEF MemberSends
  <1>3. New(kind, m, Leader, claim) \in Packet
    BY Ids, NewPacket DEF Parents
  <1>4. air' \in [up \X Ways -> Seq(Packet)]
    BY <1>1, <1>2, <1>3, WithQueues
  <1>5. waiting' \subseteq Member /\ left' \in 0 .. Budget
    BY <1>1, <1>2 DEF MemberSends
  <1> QED
    BY <1>1, <1>4, <1>5, QueuesOnly DEF MemberSends

LEMMA LeaderSendsKeeps ==
    ASSUME ForwardInv, LeaderSends, UNCHANGED calm
    PROVE  ForwardInv'
  <1>1. air \in [up \X Ways -> Seq(Packet)] /\ calm \in BOOLEAN /\ waiting \subseteq Member
        /\ left \in 0 .. Budget /\ Budget \in Nat
    BY ForwardAssumption DEF ForwardInv, ForwardTypeOK
  <1>2. PICK kind \in Kinds \cap {"config", "beat"}, d \in Member \cup {None} :
          air' = With(air, Downstream(Leader, d), New(kind, Leader, d, Leader))
    BY DEF LeaderSends
  <1>3. New(kind, Leader, d, Leader) \in Packet
    BY Ids, NewPacket
  <1>4. air' \in [up \X Ways -> Seq(Packet)]
    BY <1>1, <1>2, <1>3, WithQueues
  <1>5. waiting' \subseteq Member /\ left' \in 0 .. Budget
    BY <1>1 DEF LeaderSends
  <1> QED
    BY <1>1, <1>4, <1>5, QueuesOnly DEF LeaderSends

LEMMA AtLeaderKeeps ==
    ASSUME ForwardInv, NEW c \in Member, AtLeader(c), UNCHANGED calm
    PROVE  ForwardInv'
  <1> DEFINE w == <<<<Leader, c>>, "up">>
             p == Head(air[w])
  <1>1. air \in [up \X Ways -> Seq(Packet)]
    BY DEF ForwardInv, ForwardTypeOK
  <1>2. w \in DOMAIN air /\ air[w] # << >>
    BY DEF AtLeader
  <1>3. <<Leader, c>> \in up
    <2>1. <<<<Leader, c>>, "up">> \in up \X Ways
      BY <1>1, <1>2
    <2> QED
      BY <2>1, WaysOfLinks
  <1>4. Taken(w) \in [up \X Ways -> Seq(Packet)] /\ p \in Packet
    BY <1>2, TakenQueues DEF ForwardInv
  <1>5. Learned(Leader, c, p) /\ UNCHANGED <<up, mode, waiting, left>>
    BY DEF AtLeader
  <1>6. PICK back : air' = With(Taken(w), back, New("ack", Leader, p.src, Leader))
    BY DEF AtLeader
  <1>7. New("ack", Leader, p.src, Leader) \in Packet
    BY <1>4, Ids, NewPacket DEF Packet
  <1> HIDE DEF w, p
  <1>8. air' \in [up \X Ways -> Seq(Packet)]
    BY <1>4, <1>6, <1>7, WithQueues
  <1> QED
    BY <1>3, <1>4, <1>5, <1>8, AfterLearning

LEMMA GoesUpKeeps ==
    ASSUME ForwardInv, NEW n \in Relay, NEW c \in Member, GoesUp(n, c), UNCHANGED calm
    PROVE  ForwardInv'
  <1> DEFINE w == <<<<n, c>>, "up">>
             p == Head(air[w])
  <1>1. air \in [up \X Ways -> Seq(Packet)]
    BY DEF ForwardInv, ForwardTypeOK
  <1>2. w \in DOMAIN air /\ air[w] # << >>
    BY DEF GoesUp
  <1>3. <<n, c>> \in up
    <2>1. <<<<n, c>>, "up">> \in up \X Ways
      BY <1>1, <1>2
    <2> QED
      BY <2>1, WaysOfLinks
  <1>4. Taken(w) \in [up \X Ways -> Seq(Packet)] /\ p \in Packet
    BY <1>2, TakenQueues DEF ForwardInv
  <1>5. Learned(n, c, p) /\ UNCHANGED <<up, mode, waiting, left>>
    BY DEF GoesUp
  <1>6. PICK ws : air' = Passed(Taken(w), n, p, ws)
    BY DEF GoesUp
  <1> HIDE DEF w, p
  <1>7. air' \in [up \X Ways -> Seq(Packet)]
    BY <1>4, <1>6, PassedQueues
  <1> QED
    BY <1>3, <1>4, <1>5, <1>7, AfterLearning

LEMMA GoesDownKeeps ==
    ASSUME ForwardInv, NEW q \in Node, NEW n \in Member, GoesDown(q, n), UNCHANGED calm
    PROVE  ForwardInv'
  <1> DEFINE w == <<<<q, n>>, "down">>
             p == Head(air[w])
  <1>1. air \in [up \X Ways -> Seq(Packet)] /\ calm \in BOOLEAN /\ waiting \subseteq Member
        /\ left \in 0 .. Budget
    BY DEF ForwardInv, ForwardTypeOK
  <1>2. w \in DOMAIN air /\ air[w] # << >>
    BY DEF GoesDown
  <1>3. Taken(w) \in [up \X Ways -> Seq(Packet)] /\ p \in Packet
    BY <1>2, TakenQueues DEF ForwardInv
  <1>4. /\ air' = IF p.dst = n \/ n \notin Relay THEN Taken(w)
                  ELSE Passed(Taken(w), n, p, Onward(n, p.dst))
        /\ waiting' = IF p.kind = "ack" /\ p.dst = n THEN waiting \ {n} ELSE waiting
        /\ UNCHANGED <<up, bound, route, mode, left>>
    BY DEF GoesDown
  <1> HIDE DEF w, p
  <1>5. air' \in [up \X Ways -> Seq(Packet)]
    BY <1>3, <1>4, PassedQueues
  <1> QED
    BY <1>1, <1>4, <1>5, QueuesOnly

LEMMA LinkUpKeeps ==
    ASSUME ForwardInv, NEW l \in Link, LinkUp(l), UNCHANGED calm
    PROVE  ForwardInv'
  <1> USE DEF ForwardInv, LinkUp
  <1>1. up' = up \cup {l} /\ l \notin up /\ up' \subseteq Link
    BY DEF ForwardTypeOK
  <1>2. air' \in [up' \X Ways -> Seq(Packet)]
    <2>1. \A w \in up' \X Ways : w[1] # l => w \in up \X Ways
      BY <1>1
    <2>2. << >> \in Seq(Packet)
      OBVIOUS
    <2> QED
      BY <2>1, <2>2 DEF ForwardTypeOK
  <1>3. /\ bound' = [k \in up' |-> IF k = l THEN None ELSE bound[k]]
        /\ \A k \in up : bound[k] \in Node \cup {None}
    BY BoundsAreNodes
  <1>4. bound' \in [up' -> Node \cup {None}]
    BY <1>1, <1>3
  <1>5. BindingsUnique'
    BY <1>1, <1>3 DEF BindingsUnique
  <1>6. RoutesFollow'
    BY <1>1, <1>3 DEF RoutesFollow
  <1> QED
    BY <1>1, <1>2, <1>4, <1>5, <1>6 DEF ForwardTypeOK

(* A table without some of its routes is still one, and agrees with the     *)
(* bindings that are left.                                                  *)
LEMMA ClearedKeeps ==
    ASSUME ForwardInv, NEW n \in Owner, NEW gone,
           up' \subseteq up,
           bound' = [k \in up' |-> bound[k]],
           route' = [route EXCEPT ![n] = [d \in Node |-> IF d \in gone THEN NoRoute ELSE @[d]]]
    PROVE  /\ bound' \in [up' -> Node \cup {None}]
           /\ route' \in [Owner -> [Node -> Route]]
           /\ BindingsUnique' /\ RoutesFollow'
  <1> USE DEF ForwardInv
  <1>1. route \in [Owner -> [Node -> Route]] /\ NoRoute \in Route /\ NoRoute.conn = None
    BY DEF ForwardTypeOK, Owner, Route, NoRoute
  <1>2. \A k \in up : k[1] \in Owner /\ bound[k] \in Node \cup {None}
    BY BoundsAreNodes
  <1>3. bound' \in [up' -> Node \cup {None}]
    BY <1>2
  <1>4. route' \in [Owner -> [Node -> Route]]
    BY <1>1
  <1>5. BindingsUnique'
    BY DEF BindingsUnique
  <1>6. \A o \in Owner, d \in Node : route'[o][d] \in {route[o][d], NoRoute}
    BY <1>1
  <1>7. RoutesFollow'
    <2> SUFFICES ASSUME NEW k \in up', k[1] \in Relay, bound'[k] # None
                 PROVE  route'[k[1]][bound'[k]].conn \in {k[2], None}
      BY DEF RoutesFollow
    <2>1. bound'[k] = bound[k] /\ k \in up /\ bound[k] \in Node /\ k[1] \in Owner
      BY <1>2
    <2>2. route[k[1]][bound[k]].conn \in {k[2], None}
      BY <2>1 DEF RoutesFollow
    <2>3. route'[k[1]][bound[k]] \in {route[k[1]][bound[k]], NoRoute}
      BY <1>6, <2>1
    <2> QED
      BY <1>1, <2>1, <2>2, <2>3
  <1> QED
    BY <1>3, <1>4, <1>5, <1>7

LEMMA LinkDownKeeps ==
    ASSUME ForwardInv, NEW l \in Link, LinkDown(l), UNCHANGED calm
    PROVE  ForwardInv'
  <1>1. /\ l \in up /\ up' = up \ {l}
        /\ air' = [w \in up' \X Ways |-> air[w]]
        /\ bound' = [k \in up' |-> bound[k]]
        /\ UNCHANGED <<mode, waiting, left>>
    BY DEF LinkDown
  <1>2. PICK kept : route' = [route EXCEPT ![l[1]] =
                 [d \in Node |-> IF @[d].conn = l[2] /\ d \notin kept THEN NoRoute ELSE @[d]]]
    BY DEF LinkDown
  <1>3. l[1] \in Owner
    BY Ids
  <1> DEFINE gone == {d \in Node : route[l[1]][d].conn = l[2] /\ d \notin kept}
  <1>4. route' = [route EXCEPT ![l[1]] = [d \in Node |-> IF d \in gone THEN NoRoute ELSE @[d]]]
    BY <1>2
  <1> HIDE DEF gone
  <1>5. /\ bound' \in [up' -> Node \cup {None}] /\ route' \in [Owner -> [Node -> Route]]
        /\ BindingsUnique' /\ RoutesFollow'
    BY <1>1, <1>3, <1>4, ClearedKeeps
  <1>6. air' \in [up' \X Ways -> Seq(Packet)]
    BY <1>1 DEF ForwardInv, ForwardTypeOK
  <1> QED
    BY <1>1, <1>5, <1>6 DEF ForwardInv, ForwardTypeOK, Owner, Route

LEMMA SetModeKeeps ==
    ASSUME ForwardInv, NEW r \in Relay, NEW to \in Mode, SetMode(r, to), UNCHANGED calm
    PROVE  ForwardInv'
  <1>1. UNCHANGED <<up, air, bound, waiting, left>> /\ mode' \in [Relay -> Mode]
    BY DEF SetMode, ForwardInv, ForwardTypeOK
  <1>2. CASE to = "plain"
    <2> DEFINE gone == {d \in Node : route[r][d].conn \in Children(r)}
    <2>1. route' = [route EXCEPT ![r] = [d \in Node |-> IF d \in gone THEN NoRoute ELSE @[d]]]
      BY <1>2 DEF SetMode
    <2> HIDE DEF gone
    <2>2. bound' = [k \in up' |-> bound[k]]
      BY <1>1 DEF ForwardInv, ForwardTypeOK
    <2>3. r \in Owner
      BY DEF Owner
    <2>4. /\ bound' \in [up' -> Node \cup {None}] /\ route' \in [Owner -> [Node -> Route]]
          /\ BindingsUnique' /\ RoutesFollow'
      BY <1>1, <2>1, <2>2, <2>3, ClearedKeeps
    <2> QED
      BY <1>1, <2>4 DEF ForwardInv, ForwardTypeOK, Owner, Route
  <1>3. CASE to = "unstarted"
    <2>1. route' = [route EXCEPT ![r] = [d \in Node |-> IF d \in Node THEN NoRoute ELSE @[d]]]
      BY <1>3 DEF SetMode
    <2>2. bound' = [k \in up' |-> bound[k]]
      BY <1>1 DEF ForwardInv, ForwardTypeOK
    <2>3. r \in Owner
      BY DEF Owner
    <2>4. /\ bound' \in [up' -> Node \cup {None}] /\ route' \in [Owner -> [Node -> Route]]
          /\ BindingsUnique' /\ RoutesFollow'
      BY <1>1, <2>1, <2>2, <2>3, ClearedKeeps
    <2> QED
      BY <1>1, <2>4 DEF ForwardInv, ForwardTypeOK, Owner, Route
  <1>4. CASE to # "plain" /\ to # "unstarted"
    BY <1>1, <1>4 DEF SetMode, ForwardInv, ForwardTypeOK, BindingsUnique, RoutesFollow
  <1> QED
    BY <1>2, <1>3, <1>4

LEMMA LostKeeps ==
    ASSUME ForwardInv, NEW w \in DOMAIN air, Lost(w), UNCHANGED calm
    PROVE  ForwardInv'
  <1>1. air' \in [up \X Ways -> Seq(Packet)]
    BY TakenQueues DEF Lost, ForwardInv
  <1> QED
    BY <1>1, QueuesOnly DEF Lost, ForwardInv, ForwardTypeOK

LEMMA ForwardStarts == ForwardInit => ForwardInv
  <1> SUFFICES ASSUME ForwardInit PROVE ForwardInv
    OBVIOUS
  <1>1. ForwardTypeOK
    <2>1. up \subseteq Link /\ waiting \subseteq Member /\ calm \in BOOLEAN /\ mode \in [Relay -> Mode]
      BY DEF ForwardInit, Mode
    <2>2. left \in 0 .. Budget
      BY ForwardAssumption DEF ForwardInit
    <2>3. air \in [up \X Ways -> Seq(Packet)] /\ bound \in [up -> Node \cup {None}]
      <3>1. \A w \in up \X Ways : << >> \in Seq(Packet)
        OBVIOUS
      <3> QED
        BY <3>1 DEF ForwardInit
    <2>4. NoRoute \in Route
      BY DEF NoRoute, Route
    <2>5. route \in [Owner -> [Node -> Route]]
      BY <2>4 DEF ForwardInit, Owner
    <2> QED
      BY <2>1, <2>2, <2>3, <2>5 DEF ForwardTypeOK, Owner, Route
  <1> QED
    BY <1>1 DEF ForwardInit, ForwardInv, BindingsUnique, RoutesFollow

LEMMA ForwardSteps ==
    ASSUME ForwardInv, [Move \/ Change \/ Settle]_forwardVars
    PROVE  ForwardInv'
  <1>1. CASE Move
    BY <1>1, MemberSendsKeeps, LeaderSendsKeeps, AtLeaderKeeps, GoesUpKeeps, GoesDownKeeps DEF Move
  <1>2. CASE Change
    BY <1>2, LinkUpKeeps, LinkDownKeeps, SetModeKeeps, LostKeeps DEF Change
  <1>3. CASE Settle
    BY <1>3, QueuesOnly DEF Settle, ForwardInv, ForwardTypeOK
  <1>4. CASE UNCHANGED forwardVars
    BY <1>4, QueuesOnly DEF forwardVars, ForwardInv, ForwardTypeOK
  <1> QED
    BY <1>1, <1>2, <1>3, <1>4

LEMMA ForwardInvariant == ForwardSpec => []ForwardInv
  <1>1. ForwardInv /\ [Move \/ Change \/ Settle]_forwardVars => ForwardInv'
    BY ForwardSteps
  <1> QED
    BY <1>1, ForwardStarts, PTL DEF ForwardSpec
-----------------------------------------------------------------------------
(* Where a packet goes, given the invariant.                                *)

LEMMA BoundToOne ==
    ASSUME ForwardInv, NEW n, NEW m
    PROVE  \A c, d \in BoundTo(n, m) : c = d
  <1> SUFFICES ASSUME NEW c \in BoundTo(n, m), NEW d \in BoundTo(n, m)
               PROVE  c = d
    OBVIOUS
  <1>1. <<n, c>> \in up /\ <<n, d>> \in up /\ bound[<<n, c>>] = m /\ bound[<<n, d>>] = m /\ m # None
    BY DEF BoundTo, Children
  <1>2. <<n, c>> = <<n, d>>
    BY <1>1 DEF ForwardInv, BindingsUnique
  <1> QED
    BY <1>2

LEMMA OneConn ==
    ASSUME ForwardInv, NEW n, NEW m
    PROVE  Cardinality(Conns(n, m)) =< 1
  <1>1. \A c, d \in ByRoute(n, m) : c = d
    BY BoundToOne DEF ByRoute
  <1>2. \A c, d \in Conns(n, m) : c = d
    BY <1>1, BoundToOne DEF Conns
  <1> QED
    BY <1>2, AtMostOne

LEMMA GoesBack ==
    ASSUME ForwardInv
    PROVE  ReplyGoesBack
  <1> SUFFICES ASSUME NEW l \in up, l[1] # Leader, bound[l] # None,
                      \/ DirectPeer(l[1], bound[l], route[l[1]][bound[l]].next)
                      \/ BoundTo(l[1], route[l[1]][bound[l]].next) \subseteq {l[2]}
               PROVE  Conns(l[1], bound[l]) = {l[2]}
    BY DEF ReplyGoesBack
  <1> DEFINE n == l[1]
             c == l[2]
             d == bound[l]
             r == route[n][d]
  <1>1. l = <<n, c>> /\ n \in Relay /\ c \in Member /\ d \in Node
    BY BoundsAreNodes DEF ForwardInv, Owner
  <1>2. c \in BoundTo(n, d) /\ c \in Children(n)
    BY <1>1 DEF BoundTo, Children
  <1>3. BoundTo(n, d) = {c}
    BY <1>2, BoundToOne
  <1>4. r.conn \in {c, None} /\ c # None
    BY <1>1, Ids DEF ForwardInv, RoutesFollow
  <1>5. ByRoute(n, d) \subseteq {c}
    <2>1. CASE DirectPeer(n, d, r.next)
      BY <1>4, <2>1 DEF ByRoute
    <2>2. CASE BoundTo(n, r.next) \subseteq {c}
      BY <1>4, <2>2 DEF ByRoute
    <2> QED
      BY <2>1, <2>2
  <1> QED
    BY <1>3, <1>5 DEF Conns

(* Whatever links come and go, however many parents a node has, whatever a  *)
(* member claims and a relay reads of it: a node has one connection at most *)
(* for a packet, and on a relay it is the one the addressee was last heard  *)
(* on, unless the next hop has been heard elsewhere since.                  *)
THEOREM PacketsFindTheWay == ForwardSpec => []ForwardSafety
  <1>1. ForwardInv => ForwardSafety
    <2> SUFFICES ASSUME ForwardInv PROVE ForwardSafety
      OBVIOUS
    <2>1. OneWay
      BY OneConn DEF OneWay
    <2> QED
      BY <2>1, GoesBack DEF ForwardSafety, ForwardInv
  <1> QED
    BY <1>1, ForwardInvariant, PTL
-----------------------------------------------------------------------------
(* A mesh that comes to rest in two tiers is a channel.                     *)

(* Nobody has two parents, and the relays that have children are connected  *)
(* to the leader.                                                           *)
RelaysLinked == \A l \in up : l[1] # Leader => <<Leader, l[1]>> \in up
OneParent == \A k, l \in up : k[2] = l[2] => k = l
Flat == OneParent /\ RelaysLinked

(* A relay reads the next hop that a member named, if members name any.     *)
NamesKept == BodyKept \/ "route" \notin Kinds

(* The packets that are m's: its request, and the answer to it.  In the     *)
(* queues a there is none of them, or one, p in the queue of w.             *)
IsOf(p, m) == (p.kind = "hello" /\ p.src = m) \/ (p.kind = "ack" /\ p.dst = m)
NoneOf(a, m) == \A w \in DOMAIN a : \A i \in DOMAIN a[w] : ~IsOf(a[w][i], m)
Single(a, m, w, p) ==
    \E i \in DOMAIN a[w] :
       /\ a[w][i] = p /\ IsOf(p, m)
       /\ \A v \in DOMAIN a : \A j \in DOMAIN a[v] : IsOf(a[v][j], m) => v = w /\ j = i

(* The routes r of relay n lead to its child m.  Where m's packet is, the   *)
(* way back is known, and the hops suffice.                                 *)
Points(r, n, m) == r[n][m].conn = m /\ DirectPeer(n, m, r[n][m].next)
HalfWay(r, m, w) ==
    w[1][1] = Leader /\ w[1][2] \in Relay /\ <<w[1][2], m>> \in up /\ Points(r, w[1][2], m)

Placed(r, m, w, p) ==
    \/ /\ p.kind = "hello" /\ w[2] = "up"
       /\ (w[1][2] = m /\ p.ttl = TTL) \/ HalfWay(r, m, w)
    \/ /\ p.kind = "ack" /\ p.src = Leader /\ w[2] = "down"
       /\ w[1][2] = m \/ (HalfWay(r, m, w) /\ p.ttl > 1)
Known(a, asked, r, m) ==
    \/ NoneOf(a, m) /\ m \notin asked
    \/ m \in asked /\ \E w \in DOMAIN a, p \in Packet : Single(a, m, w, p) /\ Placed(r, m, w, p)

(* What comes up to a relay is its child's own, and a claim names one of    *)
(* the parents there are.                                                   *)
Own(w, p) == p.src = w[1][2] /\ (p.kind = "route" => p.claim \in {w[1][1], Leader})
Uttered(a) == \A w \in DOMAIN a : w[2] = "up" /\ w[1][1] # Leader =>
                 \A i \in DOMAIN a[w] : Own(w, a[w][i])

Calmly == /\ \A r \in Relay : mode[r] = "relay"
          /\ RelaysLinked /\ Uttered(air)
          /\ \A m \in Member : Known(air, waiting, route, m)
TierInv == ForwardTypeOK /\ (calm => Calmly)
FlatInCalm == calm => Flat

-----------------------------------------------------------------------------
(* One packet taken from a queue, or added to some.                         *)
LEMMA HeadAndTail ==
    ASSUME NEW s \in Seq(Packet), s # << >>
    PROVE  /\ Head(s) = s[1] /\ Tail(s) \in Seq(Packet) /\ 1 \in DOMAIN s
           /\ \A i \in DOMAIN Tail(s) : i + 1 \in DOMAIN s /\ Tail(s)[i] = s[i + 1]
           /\ \A i \in DOMAIN s : i # 1 => i - 1 \in DOMAIN Tail(s) /\ Tail(s)[i - 1] = s[i]
           /\ \A i \in DOMAIN s : i \in Nat
  OBVIOUS

LEMMA Appended ==
    ASSUME NEW s \in Seq(Packet), NEW q \in Packet
    PROVE  /\ Append(s, q) \in Seq(Packet)
           /\ Len(s) + 1 \in DOMAIN Append(s, q) /\ Append(s, q)[Len(s) + 1] = q
           /\ \A i \in DOMAIN s : i \in DOMAIN Append(s, q) /\ Append(s, q)[i] = s[i]
           /\ \A i \in DOMAIN Append(s, q) : i \in DOMAIN s \/ i = Len(s) + 1
           /\ Len(s) + 1 \notin DOMAIN s
  OBVIOUS

(* What one queue loses at its head.                                        *)
TakenFrom(a, w) == [a EXCEPT ![w] = Tail(@)]

LEMMA NoneTaken ==
    ASSUME NEW D, NEW a \in [D -> Seq(Packet)], NEW v \in D, a[v] # << >>, NEW m, NoneOf(a, m)
    PROVE  NoneOf(TakenFrom(a, v), m)
  <1>1. TakenFrom(a, v) = [w \in D |-> IF w = v THEN Tail(a[v]) ELSE a[w]]
    BY DEF TakenFrom
  <1>2. \A i \in DOMAIN Tail(a[v]) : i + 1 \in DOMAIN a[v] /\ Tail(a[v])[i] = a[v][i + 1]
    BY HeadAndTail
  <1> QED
    BY <1>1, <1>2 DEF NoneOf

LEMMA SingleTaken ==
    ASSUME NEW D, NEW a \in [D -> Seq(Packet)], NEW v \in D, a[v] # << >>, NEW m, NEW w \in D, NEW p,
           Single(a, m, w, p), ~IsOf(Head(a[v]), m)
    PROVE  Single(TakenFrom(a, v), m, w, p)
  <1> DEFINE b == TakenFrom(a, v)
  <1>1. b = [u \in D |-> IF u = v THEN Tail(a[v]) ELSE a[u]]
    BY DEF TakenFrom
  <1>2. /\ Head(a[v]) = a[v][1]
        /\ \A i \in DOMAIN Tail(a[v]) : i + 1 \in DOMAIN a[v] /\ Tail(a[v])[i] = a[v][i + 1]
        /\ \A i \in DOMAIN a[v] : i # 1 => i - 1 \in DOMAIN Tail(a[v]) /\ Tail(a[v])[i - 1] = a[v][i]
        /\ \A i \in DOMAIN a[v] : i \in Nat
        /\ \A i \in DOMAIN Tail(a[v]) : i \in Nat
    <2>1. Tail(a[v]) \in Seq(Packet)
      BY HeadAndTail
    <2> QED
      BY <2>1, HeadAndTail
  <1>3. PICK i \in DOMAIN a[w] :
          /\ a[w][i] = p /\ IsOf(p, m)
          /\ \A u \in DOMAIN a : \A j \in DOMAIN a[u] : IsOf(a[u][j], m) => u = w /\ j = i
    BY DEF Single
  <1>4. DOMAIN b = D /\ DOMAIN a = D
    BY <1>1
  <1>5. CASE w = v
    <2>1. i # 1 /\ i \in Nat
      BY <1>2, <1>3, <1>5
    <2>2. i - 1 \in DOMAIN b[w] /\ b[w][i - 1] = p
      BY <1>1, <1>2, <1>3, <1>5, <2>1
    <2>3. ASSUME NEW u \in D, NEW j \in DOMAIN b[u], IsOf(b[u][j], m)
          PROVE  u = w /\ j = i - 1
      <3>1. CASE u = v
        <4>1. j + 1 \in DOMAIN a[v] /\ b[u][j] = a[v][j + 1] /\ j \in Nat
          BY <1>1, <1>2, <2>3, <3>1
        <4>2. j + 1 = i
          BY <1>3, <1>4, <2>3, <4>1
        <4> QED
          BY <1>5, <2>1, <3>1, <4>1, <4>2
      <3>2. CASE u # v
        BY <1>1, <1>3, <1>4, <1>5, <2>3, <3>2
      <3> QED
        BY <3>1, <3>2
    <2> QED
      BY <1>3, <1>4, <2>2, <2>3 DEF Single
  <1>6. CASE w # v
    <2>1. i \in DOMAIN b[w] /\ b[w][i] = p
      BY <1>1, <1>3, <1>6
    <2>2. ASSUME NEW u \in D, NEW j \in DOMAIN b[u], IsOf(b[u][j], m)
          PROVE  u = w /\ j = i
      <3>1. CASE u = v
        <4>1. j + 1 \in DOMAIN a[v] /\ b[u][j] = a[v][j + 1]
          BY <1>1, <1>2, <2>2, <3>1
        <4> QED
          BY <1>3, <1>4, <1>6, <2>2, <4>1, <3>1
      <3>2. CASE u # v
        BY <1>1, <1>3, <1>4, <2>2, <3>2
      <3> QED
        BY <3>1, <3>2
    <2> QED
      BY <1>3, <1>4, <2>1, <2>2 DEF Single
  <1> QED
    BY <1>5, <1>6

LEMMA HeadOfSingle ==
    ASSUME NEW D, NEW a \in [D -> Seq(Packet)], NEW v \in D, a[v] # << >>, NEW m, NEW w \in D, NEW p,
           Single(a, m, w, p), IsOf(Head(a[v]), m)
    PROVE  w = v /\ p = Head(a[v]) /\ NoneOf(TakenFrom(a, v), m)
  <1> DEFINE b == TakenFrom(a, v)
  <1>1. b = [u \in D |-> IF u = v THEN Tail(a[v]) ELSE a[u]]
    BY DEF TakenFrom
  <1>2. /\ Head(a[v]) = a[v][1] /\ 1 \in DOMAIN a[v]
        /\ \A i \in DOMAIN Tail(a[v]) : i + 1 \in DOMAIN a[v] /\ Tail(a[v])[i] = a[v][i + 1]
        /\ \A i \in DOMAIN Tail(a[v]) : i \in Nat /\ i > 0
    <2>1. Tail(a[v]) \in Seq(Packet)
      BY HeadAndTail
    <2> QED
      BY <2>1, HeadAndTail
  <1>3. PICK i \in DOMAIN a[w] :
          /\ a[w][i] = p /\ IsOf(p, m)
          /\ \A u \in DOMAIN a : \A j \in DOMAIN a[u] : IsOf(a[u][j], m) => u = w /\ j = i
    BY DEF Single
  <1>4. DOMAIN b = D /\ DOMAIN a = D
    BY <1>1
  <1>5. v = w /\ 1 = i
    BY <1>2, <1>3, <1>4
  <1>6. ASSUME NEW u \in D, NEW j \in DOMAIN b[u], IsOf(b[u][j], m)
        PROVE  FALSE
    <2>1. CASE u = v
      <3>1. j + 1 \in DOMAIN a[v] /\ b[u][j] = a[v][j + 1] /\ j \in Nat /\ j > 0
        BY <1>1, <1>2, <1>6, <2>1
      <3>2. j + 1 = 1
        BY <1>3, <1>4, <1>5, <1>6, <3>1
      <3> QED
        BY <3>1, <3>2
    <2>2. CASE u # v
      BY <1>1, <1>3, <1>4, <1>5, <1>6, <2>2
    <2> QED
      BY <2>1, <2>2
  <1> QED
    BY <1>2, <1>3, <1>4, <1>5, <1>6 DEF NoneOf

LEMMA NoneWith ==
    ASSUME NEW D, NEW a \in [D -> Seq(Packet)], NEW ws, NEW q \in Packet, NEW m, NoneOf(a, m), ~IsOf(q, m)
    PROVE  NoneOf(With(a, ws, q), m)
  <1>1. ASSUME NEW w \in D, NEW i \in DOMAIN Append(a[w], q) PROVE ~IsOf(Append(a[w], q)[i], m)
    BY <1>1, Appended DEF NoneOf
  <1> QED
    BY <1>1 DEF NoneOf, With

LEMMA SingleWith ==
    ASSUME NEW D, NEW a \in [D -> Seq(Packet)], NEW ws, NEW q \in Packet, NEW m, NEW w \in D, NEW p,
           Single(a, m, w, p), ~IsOf(q, m)
    PROVE  Single(With(a, ws, q), m, w, p)
  <1> DEFINE b == With(a, ws, q)
  <1>1. b = [u \in D |-> IF u \in ws THEN Append(a[u], q) ELSE a[u]]
    BY DEF With
  <1>3. PICK i \in DOMAIN a[w] :
          /\ a[w][i] = p /\ IsOf(p, m)
          /\ \A u \in DOMAIN a : \A j \in DOMAIN a[u] : IsOf(a[u][j], m) => u = w /\ j = i
    BY DEF Single
  <1>4. DOMAIN b = D /\ DOMAIN a = D
    BY <1>1
  <1>5. i \in DOMAIN b[w] /\ b[w][i] = p
    BY <1>1, <1>3, Appended
  <1>6. ASSUME NEW u \in D, NEW j \in DOMAIN b[u], IsOf(b[u][j], m)
        PROVE  u = w /\ j = i
    <2>1. j \in DOMAIN a[u] /\ b[u][j] = a[u][j]
      BY <1>1, <1>6, Appended
    <2> QED
      BY <1>3, <1>4, <1>6, <2>1
  <1> QED
    BY <1>3, <1>4, <1>5, <1>6 DEF Single

LEMMA NewSingle ==
    ASSUME NEW D, NEW a \in [D -> Seq(Packet)], NEW w \in D, NEW q \in Packet, NEW m, NoneOf(a, m), IsOf(q, m)
    PROVE  Single(With(a, {w}, q), m, w, q)
  <1> DEFINE b == With(a, {w}, q)
             i == Len(a[w]) + 1
  <1>1. b = [u \in D |-> IF u = w THEN Append(a[u], q) ELSE a[u]]
    BY DEF With
  <1>4. DOMAIN b = D /\ DOMAIN a = D
    BY <1>1
  <1>5. i \in DOMAIN b[w] /\ b[w][i] = q
    BY <1>1, Appended
  <1>6. ASSUME NEW u \in D, NEW j \in DOMAIN b[u], IsOf(b[u][j], m)
        PROVE  u = w /\ j = i
    <2>1. CASE u = w
      BY <1>1, <1>6, <2>1, Appended DEF NoneOf
    <2>2. CASE u # w
      BY <1>1, <1>6, <2>2 DEF NoneOf
    <2> QED
      BY <2>1, <2>2
  <1> QED
    BY <1>4, <1>5, <1>6 DEF Single

-----------------------------------------------------------------------------
(* Where m's request is.                                                    *)
Stage(a, asked, m) ==
    IF \E w \in DOMAIN a : \E i \in DOMAIN a[w] : a[w][i].kind = "hello" /\ a[w][i].src = m
      THEN "asked" ELSE IF m \in asked THEN "answered" ELSE "idle"

LEMMA StageOfNone ==
    ASSUME NEW a, NEW asked, NEW m, NoneOf(a, m), m \notin asked
    PROVE  Stage(a, asked, m) = "idle"
  BY DEF Stage, NoneOf, IsOf

LEMMA StageOfSingle ==
    ASSUME NEW a, NEW asked, NEW m, NEW w \in DOMAIN a, NEW p, Single(a, m, w, p)
    PROVE  /\ p.kind = "hello" => Stage(a, asked, m) = "asked"
           /\ p.kind = "ack" /\ m \in asked => Stage(a, asked, m) = "answered"
  <1>1. PICK i \in DOMAIN a[w] :
          /\ a[w][i] = p /\ IsOf(p, m)
          /\ \A u \in DOMAIN a : \A j \in DOMAIN a[u] : IsOf(a[u][j], m) => u = w /\ j = i
    BY DEF Single
  <1>2. CASE p.kind = "hello"
    BY <1>1, <1>2 DEF Stage, IsOf
  <1>3. CASE p.kind = "ack"
    <2>1. ~\E u \in DOMAIN a : \E j \in DOMAIN a[u] : a[u][j].kind = "hello" /\ a[u][j].src = m
      BY <1>1, <1>3 DEF IsOf
    <2> QED
      BY <1>3, <2>1 DEF Stage
  <1> QED
    BY <1>2, <1>3

(* What is m's, and where, is the same in both.                             *)
Same(a, b, m) ==
    /\ DOMAIN b = DOMAIN a
    /\ NoneOf(a, m) => NoneOf(b, m)
    /\ \A w \in DOMAIN a : \A p \in Packet : Single(a, m, w, p) => Single(b, m, w, p)

LEMMA SameTaken ==
    ASSUME NEW D, NEW a \in [D -> Seq(Packet)], NEW v \in D, a[v] # << >>, NEW m, ~IsOf(Head(a[v]), m)
    PROVE  Same(a, TakenFrom(a, v), m)
  <1>1. DOMAIN TakenFrom(a, v) = DOMAIN a
    BY DEF TakenFrom
  <1> QED
    BY <1>1, NoneTaken, SingleTaken DEF Same

LEMMA SameWith ==
    ASSUME NEW D, NEW a \in [D -> Seq(Packet)], NEW ws, NEW q \in Packet, NEW m, ~IsOf(q, m)
    PROVE  Same(a, With(a, ws, q), m)
  <1>1. DOMAIN With(a, ws, q) = DOMAIN a
    BY DEF With
  <1> QED
    BY <1>1, NoneWith, SingleWith DEF Same

LEMMA SameBoth ==
    ASSUME NEW a, NEW b, NEW c, NEW m, Same(a, b, m), Same(b, c, m)
    PROVE  Same(a, c, m)
  BY DEF Same

(* r2 points wherever r does.                                               *)
Keeps(r, r2) == \A n \in Relay, m \in Member : Points(r, n, m) => Points(r2, n, m)

LEMMA PlacedKeeps ==
    ASSUME NEW r, NEW r2, Keeps(r, r2), NEW m \in Member, NEW w, NEW p, Placed(r, m, w, p)
    PROVE  Placed(r2, m, w, p)
  <1>1. HalfWay(r, m, w) => HalfWay(r2, m, w)
    BY DEF Keeps, HalfWay
  <1> QED
    BY <1>1 DEF Placed

LEMMA SameKnown ==
    ASSUME NEW a, NEW b, NEW asked, NEW asked2, NEW r, NEW r2, NEW m \in Member, Same(a, b, m), Keeps(r, r2),
           m \in asked2 <=> m \in asked, Known(a, asked, r, m)
    PROVE  Known(b, asked2, r2, m) /\ Stage(b, asked2, m) = Stage(a, asked, m)
  <1>1. CASE NoneOf(a, m) /\ m \notin asked
    <2>1. NoneOf(b, m) /\ m \notin asked2
      BY <1>1 DEF Same
    <2>2. Stage(b, asked2, m) = "idle" /\ Stage(a, asked, m) = "idle"
      BY <1>1, <2>1, StageOfNone
    <2> QED
      BY <2>1, <2>2 DEF Known
  <1>2. ASSUME m \in asked, NEW w \in DOMAIN a, NEW p \in Packet, Single(a, m, w, p), Placed(r, m, w, p)
        PROVE  Known(b, asked2, r2, m) /\ Stage(b, asked2, m) = Stage(a, asked, m)
    <2>1. w \in DOMAIN b /\ Single(b, m, w, p) /\ m \in asked2
      BY <1>2 DEF Same
    <2>2. Placed(r2, m, w, p)
      BY <1>2, PlacedKeeps
    <2>3. Known(b, asked2, r2, m)
      BY <2>1, <2>2 DEF Known
    <2>4. p.kind = "hello" \/ p.kind = "ack"
      BY <1>2 DEF Placed, HalfWay
    <2>5. Stage(b, asked2, m) = Stage(a, asked, m)
      BY <1>2, <2>1, <2>4, StageOfSingle
    <2> QED
      BY <2>3, <2>5
  <1> QED
    BY <1>1, <1>2 DEF Known

(* The packet at the head of a queue, if it is m's.                         *)
LEMMA KnownHead ==
    ASSUME NEW D, NEW a \in [D -> Seq(Packet)], NEW v \in D, a[v] # << >>, NEW asked, NEW r, NEW m,
           Known(a, asked, r, m), IsOf(Head(a[v]), m)
    PROVE  /\ m \in asked /\ Placed(r, m, v, Head(a[v])) /\ NoneOf(TakenFrom(a, v), m)
           /\ Single(a, m, v, Head(a[v]))
  <1>1. Head(a[v]) = a[v][1] /\ 1 \in DOMAIN a[v] /\ DOMAIN a = D
    BY HeadAndTail
  <1>2. ~NoneOf(a, m)
    BY <1>1 DEF NoneOf
  <1>3. PICK w \in DOMAIN a, p \in Packet : Single(a, m, w, p) /\ Placed(r, m, w, p)
    BY <1>2 DEF Known
  <1>4. w = v /\ p = Head(a[v]) /\ NoneOf(TakenFrom(a, v), m)
    BY <1>1, <1>3, HeadOfSingle
  <1>5. m \in asked
    BY <1>2 DEF Known
  <1> QED
    BY <1>3, <1>4, <1>5

LEMMA UtteredTaken ==
    ASSUME NEW D, NEW a \in [D -> Seq(Packet)], NEW v \in D, a[v] # << >>, Uttered(a)
    PROVE  Uttered(TakenFrom(a, v))
  <1>1. TakenFrom(a, v) = [w \in D |-> IF w = v THEN Tail(a[v]) ELSE a[w]] /\ DOMAIN a = D
    BY DEF TakenFrom
  <1>2. \A i \in DOMAIN Tail(a[v]) : i + 1 \in DOMAIN a[v] /\ Tail(a[v])[i] = a[v][i + 1]
    BY HeadAndTail
  <1> QED
    BY <1>1, <1>2 DEF Uttered

LEMMA UtteredWith ==
    ASSUME NEW D, NEW a \in [D -> Seq(Packet)], NEW ws, NEW q \in Packet, Uttered(a),
           \A w \in ws : w[2] = "up" /\ w[1][1] # Leader => Own(w, q)
    PROVE  Uttered(With(a, ws, q))
  <1>1. With(a, ws, q) = [w \in D |-> IF w \in ws THEN Append(a[w], q) ELSE a[w]] /\ DOMAIN a = D
    BY DEF With
  <1>2. ASSUME NEW w \in D, w[2] = "up", w[1][1] # Leader, NEW i \in DOMAIN With(a, ws, q)[w]
        PROVE  Own(w, With(a, ws, q)[w][i])
    <2>1. CASE w \in ws
      BY <1>1, <1>2, <2>1, Appended DEF Uttered
    <2>2. CASE w \notin ws
      BY <1>1, <1>2, <2>2 DEF Uttered
    <2> QED
      BY <2>1, <2>2
  <1> QED
    BY <1>1, <1>2 DEF Uttered

-----------------------------------------------------------------------------
(* One step of the mesh is one step of the channel, or none.                *)
Unmoved == \A k \in Member : Stage(air', waiting', k) = Stage(air, waiting, k)
Moves(m, from, to) ==
    /\ Stage(air, waiting, m) = from /\ Stage(air', waiting', m) = to
    /\ \A k \in Member \ {m} : Stage(air', waiting', k) = Stage(air, waiting, k)
ChannelMoves ==
    \/ Unmoved
    \/ \E m \in Member : \/ Moves(m, "idle", "asked") \/ Moves(m, "asked", "answered")
                         \/ Moves(m, "answered", "idle")
KnownThen == \A k \in Member : Known(air', waiting', route', k)

LEMMA StaysCalm ==
    ASSUME Calmly, UNCHANGED <<up, mode>>, Uttered(air'), KnownThen
    PROVE  Calmly'
  <1>1. (\A r \in Relay : mode[r] = "relay")' /\ RelaysLinked'
    BY DEF Calmly, RelaysLinked
  <1>2. ASSUME NEW m \in Member
        PROVE  Known(air, waiting, route, m)'
    <2>1. Known(air', waiting', route', m)
      BY <1>2 DEF KnownThen
    <2>2. CASE NoneOf(air', m) /\ m \notin waiting'
      BY <2>2 DEF Known
    <2>3. ASSUME m \in waiting', NEW w \in DOMAIN air', NEW p \in Packet, Single(air', m, w, p),
                 Placed(route', m, w, p)
          PROVE  Known(air, waiting, route, m)'
      <3>1. Placed(route, m, w, p)'
        BY <2>3 DEF Placed, HalfWay
      <3> QED
        BY <2>3, <3>1 DEF Known
    <2> QED
      BY <2>1, <2>2, <2>3 DEF Known
  <1>3. Uttered(air)'
    OBVIOUS
  <1> QED
    BY <1>1, <1>2, <1>3 DEF Calmly

(* The way up from a node that has one parent.                              *)
LEMMA OneWayUp ==
    ASSUME ForwardTypeOK, OneParent, NEW n, NEW q, <<q, n>> \in up, NEW ws \in Upstream(n)
    PROVE  Parents(n) = {q} /\ ws = {<<<<q, n>>, "up">>}
  <1>1. q \in Parents(n)
    BY UpLinks, Ids DEF Parents, Owner
  <1>2. ASSUME NEW p \in Parents(n) PROVE p = q
    <2>1. <<p, n>> \in up /\ <<p, n>>[2] = n /\ <<q, n>>[2] = n
      BY DEF Parents
    <2>2. <<p, n>> = <<q, n>>
      BY <2>1 DEF OneParent
    <2> QED
      BY <2>2
  <1>3. Parents(n) = {q}
    BY <1>1, <1>2
  <1> QED
    BY <1>3 DEF Upstream

LEMMA MemberSendsMoves ==
    ASSUME ForwardTypeOK, OneParent, Calmly, NEW m \in Member, MemberSends(m)
    PROVE  Calmly' /\ ChannelMoves
  <1>1. PICK kind \in Kinds \cap {"hello", "route", "report"},
             claim \in Parents(m) \cup {Leader}, ws \in Upstream(m) :
          /\ kind = "hello" => ~Waits(m)
          /\ air' = With(air, ws, New(kind, m, Leader, claim))
          /\ waiting' = IF kind = "hello" THEN waiting \cup {m} ELSE waiting
    BY DEF MemberSends
  <1>2. UNCHANGED <<up, bound, route, mode>> /\ Parents(m) # {}
    BY DEF MemberSends
  <1>3. PICK q : <<q, m>> \in up
    BY <1>2 DEF Parents
  <1> DEFINE w == <<<<q, m>>, "up">>
             p == New(kind, m, Leader, claim)
  <1>4. Parents(m) = {q} /\ ws = {w}
    BY <1>3, OneWayUp
  <1>5. air \in [up \X Ways -> Seq(Packet)] /\ w \in up \X Ways
    BY <1>3 DEF ForwardTypeOK, Ways
  <1>6. p \in Packet
    BY Ids, NewPacket DEF Parents
  <1>7. p.kind = kind /\ p.src = m /\ p.ttl = TTL /\ p.claim = claim /\ claim \in {q, Leader}
    BY <1>4 DEF New
  <1>8. air' = With(air, {w}, p)
    BY <1>1, <1>4
  <1>9. w[2] = "up" /\ w[1][1] = q /\ w[1][2] = m
    OBVIOUS
  <1> HIDE DEF w, p
  <1>10. Uttered(air')
    <2>1. \A v \in {w} : v[2] = "up" /\ v[1][1] # Leader => Own(v, p)
      BY <1>7, <1>9 DEF Own
    <2> QED
      BY <1>5, <1>6, <1>8, <2>1, UtteredWith DEF Calmly
  <1>11. Keeps(route, route')
    BY <1>2 DEF Keeps
  <1>12. ASSUME NEW k \in Member, ~IsOf(p, k), k \in waiting' <=> k \in waiting
         PROVE  Known(air', waiting', route', k) /\ Stage(air', waiting', k) = Stage(air, waiting, k)
    <2>1. Same(air, air', k)
      BY <1>5, <1>6, <1>8, <1>12, SameWith
    <2>2. Known(air, waiting, route, k)
      BY DEF Calmly
    <2> QED
      BY <1>11, <1>12, <2>1, <2>2, SameKnown
  <1>13. CASE kind # "hello"
    <2>1. \A k \in Member : ~IsOf(p, k) /\ (k \in waiting' <=> k \in waiting)
      BY <1>1, <1>7, <1>13 DEF IsOf
    <2>2. KnownThen /\ Unmoved
      BY <1>12, <2>1 DEF KnownThen, Unmoved
    <2> QED
      BY <1>2, <1>10, <2>2, StaysCalm DEF ChannelMoves
  <1>14. CASE kind = "hello"
    <2>1. \A k \in Member \ {m} : ~IsOf(p, k) /\ (k \in waiting' <=> k \in waiting)
      BY <1>1, <1>7, <1>14 DEF IsOf
    <2>2. NoneOf(air, m)
      BY <1>1, <1>14 DEF NoneOf, Waits, IsOf
    <2>3. m \notin waiting
      <3> SUFFICES ASSUME m \in waiting PROVE FALSE
        OBVIOUS
      <3>1. PICK v \in DOMAIN air, x \in Packet : Single(air, m, v, x)
        BY DEF Calmly, Known
      <3> QED
        BY <2>2, <3>1 DEF NoneOf, Single
    <2>4. IsOf(p, m) /\ m \in waiting'
      BY <1>1, <1>7, <1>14 DEF IsOf
    <2>5. Single(air', m, w, p) /\ w \in DOMAIN air'
      BY <1>5, <1>6, <1>8, <2>2, <2>4, NewSingle DEF With
    <2>6. Placed(route', m, w, p)
      BY <1>7, <1>9, <1>14 DEF Placed, HalfWay
    <2>7. Known(air', waiting', route', m)
      BY <1>6, <2>4, <2>5, <2>6 DEF Known
    <2>8. Stage(air, waiting, m) = "idle" /\ Stage(air', waiting', m) = "asked"
      BY <1>7, <1>14, <2>2, <2>3, <2>5, StageOfNone, StageOfSingle
    <2>9. KnownThen /\ Moves(m, "idle", "asked")
      BY <1>12, <2>1, <2>7, <2>8 DEF KnownThen, Moves
    <2> QED
      BY <1>2, <1>10, <2>9, StaysCalm DEF ChannelMoves
  <1> QED
    BY <1>13, <1>14

LEMMA LeaderSendsMoves ==
    ASSUME ForwardTypeOK, Calmly, LeaderSends
    PROVE  Calmly' /\ ChannelMoves
  <1>1. PICK kind \in Kinds \cap {"config", "beat"}, d \in Member \cup {None} :
          air' = With(air, Downstream(Leader, d), New(kind, Leader, d, Leader))
    BY DEF LeaderSends
  <1>2. UNCHANGED <<up, bound, route, mode, waiting>>
    BY DEF LeaderSends
  <1> DEFINE p == New(kind, Leader, d, Leader)
             ws == Downstream(Leader, d)
  <1>3. air \in [up \X Ways -> Seq(Packet)]
    BY DEF ForwardTypeOK
  <1>4. p \in Packet
    BY Ids, NewPacket
  <1>5. p.kind = kind
    BY DEF New
  <1>6. \A v \in ws : v[2] = "down"
    BY DEF Downstream
  <1> HIDE DEF p, ws
  <1>7. air' = With(air, ws, p)
    BY <1>1 DEF p, ws
  <1>8. Uttered(air')
    <2>1. \A v \in ws : v[2] = "up" /\ v[1][1] # Leader => Own(v, p)
      BY <1>6
    <2> QED
      BY <1>3, <1>4, <1>7, <2>1, UtteredWith DEF Calmly
  <1>9. ASSUME NEW k \in Member
        PROVE  Known(air', waiting', route', k) /\ Stage(air', waiting', k) = Stage(air, waiting, k)
    <2>1. ~IsOf(p, k)
      BY <1>5 DEF IsOf
    <2>2. Same(air, air', k)
      BY <1>3, <1>4, <1>7, <2>1, SameWith
    <2>3. Keeps(route, route') /\ Known(air, waiting, route, k) /\ (k \in waiting' <=> k \in waiting)
      BY <1>2 DEF Keeps, Calmly
    <2> QED
      BY <2>2, <2>3, SameKnown
  <1>10. KnownThen /\ Unmoved
    BY <1>9 DEF KnownThen, Unmoved
  <1> QED
    BY <1>2, <1>8, <1>10, StaysCalm DEF ChannelMoves

LEMMA QueueOfLink ==
    ASSUME ForwardTypeOK, NEW l, NEW way, <<l, way>> \in DOMAIN air
    PROVE  l \in up /\ DOMAIN air = up \X Ways
  BY WaysOfLinks DEF ForwardTypeOK

LEMMA AnswersTheAsker ==
    ASSUME ForwardTypeOK, NEW c, <<Leader, c>> \in up, NEW p \in Packet, p.kind = "hello", p.src \in Member,
           Learned(Leader, c, p), up' = up
    PROVE  Downstream(Leader, p.src)' = {<<<<Leader, c>>, "down">>}
  <1> DEFINE m == p.src
  <1>1. c \in Member /\ c # None /\ m \in Node /\ m # None /\ Leader \in Owner
    BY UpLinks, Ids DEF Packet, Owner
  <1>2. bound' = [l \in up |-> IF l = <<Leader, c>> THEN c
                               ELSE IF l[1] = Leader /\ bound[l] = c THEN None ELSE bound[l]]
    BY DEF Learned
  <1>3. HopsOf(Leader, c, p) = {c}
    BY DEF HopsOf
  <1>4. route' = [route EXCEPT ![Leader][m] = [conn |-> c, next |-> c]]
    BY <1>3 DEF Learned
  <1>5. route \in [Owner -> [Node -> Route]]
    BY DEF ForwardTypeOK, Owner, Route
  <1>6. route'[Leader][m] = [conn |-> c, next |-> c]
    BY <1>1, <1>4, <1>5
  <1>7. c \in Children(Leader)'
    BY <1>1 DEF Children
  <1>8. BoundTo(Leader, c)' = {c}
    <2>1. c \in BoundTo(Leader, c)'
      BY <1>1, <1>2, <1>7 DEF BoundTo
    <2>2. ASSUME NEW k \in BoundTo(Leader, c)' PROVE k = c
      <3>1. <<Leader, k>> \in up /\ bound'[<<Leader, k>>] = c
        BY <2>2 DEF BoundTo, Children
      <3>2. <<Leader, k>>[1] = Leader
        OBVIOUS
      <3>3. <<Leader, k>> = <<Leader, c>>
        BY <1>1, <1>2, <3>1, <3>2
      <3> QED
        BY <3>3
    <2> QED
      BY <2>1, <2>2
  <1>9. ByRoute(Leader, m)' = {c}
    BY <1>1, <1>6, <1>7, <1>8 DEF ByRoute
  <1>10. Conns(Leader, m)' = {c}
    BY <1>9 DEF Conns
  <1> QED
    BY <1>1, <1>10 DEF Downstream

LEMMA WithNone ==
    ASSUME NEW D, NEW a \in [D -> Seq(Packet)], NEW q
    PROVE  With(a, {}, q) = a
  BY DEF With

LEMMA AtLeaderMoves ==
    ASSUME ForwardTypeOK, Calmly, NEW c \in Member, AtLeader(c), TTL > 1
    PROVE  Calmly' /\ ChannelMoves
  <1> DEFINE w == <<<<Leader, c>>, "up">>
             v == <<<<Leader, c>>, "down">>
  <1>1. air \in [up \X Ways -> Seq(Packet)] /\ w \in DOMAIN air /\ air[w] # << >>
    BY DEF AtLeader, ForwardTypeOK
  <1>2. <<Leader, c>> \in up /\ v \in up \X Ways /\ w \in up \X Ways
    BY <1>1, QueueOfLink DEF Ways
  <1>0. PICK p \in {Head(air[w])} :
          /\ Learned(Leader, c, p)
          /\ \E back \in {IF p.kind = "hello" THEN Downstream(Leader, p.src)' ELSE {}} :
               air' = With(Taken(w), back, New("ack", Leader, p.src, Leader))
    BY DEF AtLeader
  <1> DEFINE q == New("ack", Leader, p.src, Leader)
  <1>3. /\ Taken(w) \in [up \X Ways -> Seq(Packet)] /\ p \in Packet
        /\ Taken(w) = TakenFrom(air, w) /\ p = Head(air[w])
    BY <1>0, <1>1, TakenQueues DEF Taken, TakenFrom
  <1>4. Learned(Leader, c, p) /\ UNCHANGED <<up, mode, waiting, left>>
    BY <1>0 DEF AtLeader
  <1>5. /\ p.kind = "hello" => air' = With(Taken(w), Downstream(Leader, p.src)', q)
        /\ p.kind # "hello" => air' = With(Taken(w), {}, q)
    BY <1>0
  <1>6. q \in Packet /\ q.kind = "ack" /\ q.dst = p.src /\ q.src = Leader /\ q.ttl = TTL
    BY <1>3, Ids, NewPacket DEF Packet, New
  <1>7. w[2] = "up" /\ w[1][1] = Leader /\ w[1][2] = c /\ v[2] = "down" /\ v[1][1] = Leader /\ v[1][2] = c
    OBVIOUS
  <1> HIDE DEF w, v, q
  <1>8. Keeps(route, route')
    <2>1. PICK hop : route' = [route EXCEPT ![Leader][p.src] = [conn |-> c, next |-> hop]]
      BY <1>4 DEF Learned
    <2>2. \A n \in Relay : route'[n] = route[n]
      BY <2>1, Ids DEF ForwardTypeOK
    <2> QED
      BY <2>2 DEF Keeps, Points
  <1>9. Uttered(Taken(w))
    BY <1>1, <1>3, UtteredTaken DEF Calmly
  <1>10. ASSUME NEW k \in Member, Same(air, air', k)
         PROVE  Known(air', waiting', route', k) /\ Stage(air', waiting', k) = Stage(air, waiting, k)
    <2>1. Known(air, waiting, route, k) /\ (k \in waiting' <=> k \in waiting)
      BY <1>4 DEF Calmly
    <2> QED
      BY <1>8, <1>10, <2>1, SameKnown
  <1>11. \A k \in Member : ~IsOf(p, k) => Same(air, Taken(w), k)
    BY <1>1, <1>3, SameTaken
  <1>12. ASSUME NEW k \in Member, IsOf(p, k)
         PROVE  /\ k \in waiting /\ Placed(route, k, w, p) /\ NoneOf(Taken(w), k) /\ Single(air, k, w, p)
                /\ p.kind = "hello" /\ p.src = k
    <2>1. Known(air, waiting, route, k)
      BY DEF Calmly
    <2> DEFINE D == up \X Ways
    <2>a. air \in [D -> Seq(Packet)] /\ w \in D /\ p = Head(air[w]) /\ IsOf(Head(air[w]), k)
      BY <1>1, <1>2, <1>3, <1>12
    <2> HIDE DEF D
    <2>2. k \in waiting /\ Placed(route, k, w, p) /\ NoneOf(TakenFrom(air, w), k) /\ Single(air, k, w, p)
      BY <1>1, <2>a, <2>1, KnownHead
    <2> QED
      BY <1>3, <1>7, <1>12, <2>2 DEF Placed, HalfWay, IsOf
  <1>13. CASE p.kind # "hello"
    <2>1. air' = Taken(w)
      BY <1>3, <1>5, <1>13, WithNone
    <2>2. \A k \in Member : Same(air, air', k)
      BY <1>11, <1>12, <1>13, <2>1
    <2>3. KnownThen /\ Unmoved
      BY <1>10, <2>2 DEF KnownThen, Unmoved
    <2> QED
      BY <1>4, <1>9, <2>1, <2>3, StaysCalm DEF ChannelMoves
  <1>14. CASE p.kind = "hello" /\ p.src \notin Member
    <2> DEFINE ws == Downstream(Leader, p.src)'
    <2>1. air' = With(Taken(w), ws, q) /\ \A x \in ws : x[2] = "down"
      BY <1>5, <1>14 DEF Downstream
    <2> HIDE DEF ws
    <2>2. \A k \in Member : ~IsOf(p, k) /\ ~IsOf(q, k)
      BY <1>6, <1>14 DEF IsOf
    <2>3. \A k \in Member : Same(air, air', k)
      BY <1>3, <1>6, <1>11, <2>1, <2>2, SameWith, SameBoth
    <2>4. KnownThen /\ Unmoved
      BY <1>10, <2>3 DEF KnownThen, Unmoved
    <2>5. Uttered(air')
      BY <1>3, <1>6, <1>9, <2>1, UtteredWith
    <2> QED
      BY <1>4, <2>4, <2>5, StaysCalm DEF ChannelMoves
  <1>15. CASE p.kind = "hello" /\ p.src \in Member
    <2> DEFINE m == p.src
    <2>1. air' = With(Taken(w), {v}, q)
      <3>1. Downstream(Leader, p.src)' = {v}
        BY <1>2, <1>3, <1>4, <1>15, AnswersTheAsker DEF v
      <3> QED
        BY <1>5, <1>15, <3>1
    <2>2. IsOf(p, m) /\ IsOf(q, m) /\ \A k \in Member \ {m} : ~IsOf(p, k) /\ ~IsOf(q, k)
      BY <1>6, <1>15 DEF IsOf
    <2>3. m \in waiting /\ Placed(route, m, w, p) /\ NoneOf(Taken(w), m) /\ Single(air, m, w, p)
      BY <1>12, <1>15, <2>2
    <2>4. Single(air', m, v, q) /\ v \in DOMAIN air'
      <3> DEFINE D == up \X Ways
      <3>1. Taken(w) \in [D -> Seq(Packet)] /\ v \in D
        BY <1>2, <1>3
      <3>2. DOMAIN air' = DOMAIN Taken(w) /\ v \in DOMAIN air'
        BY <2>1, <3>1 DEF With
      <3> HIDE DEF D
      <3>3. Single(With(Taken(w), {v}, q), m, v, q)
        BY <1>6, <2>2, <2>3, <3>1, NewSingle
      <3> QED
        BY <2>1, <3>2, <3>3
    <2>5. Placed(route', m, v, q)
      <3>1. c = m \/ (c \in Relay /\ <<c, m>> \in up /\ Points(route, c, m))
        BY <1>7, <1>15, <2>3 DEF Placed, HalfWay
      <3>2. c = m \/ (c \in Relay /\ <<c, m>> \in up /\ Points(route', c, m))
        BY <1>8, <1>15, <3>1 DEF Keeps
      <3> QED
        BY <1>6, <1>7, <3>2 DEF Placed, HalfWay
    <2>6. Known(air', waiting', route', m)
      BY <1>4, <1>6, <2>3, <2>4, <2>5 DEF Known
    <2>7. Stage(air, waiting, m) = "asked" /\ Stage(air', waiting', m) = "answered"
      <3>0. Single(air, m, w, p) /\ w \in DOMAIN air
        BY <1>1, <2>3
      <3>1. Stage(air, waiting, m) = "asked"
        BY <1>15, <3>0, StageOfSingle
      <3>2. m \in waiting'
        BY <1>4, <2>3
      <3>3. Stage(air', waiting', m) = "answered"
        BY <1>6, <2>4, <3>2, StageOfSingle
      <3> QED
        BY <3>1, <3>3
    <2>8. \A k \in Member \ {m} : Same(air, air', k)
      BY <1>3, <1>6, <1>11, <2>1, <2>2, SameWith, SameBoth
    <2>9. KnownThen /\ Moves(m, "asked", "answered")
      BY <1>10, <2>6, <2>7, <2>8 DEF KnownThen, Moves
    <2>10. Uttered(air')
      <3>1. \A x \in {v} : x[2] = "up" /\ x[1][1] # Leader => Own(x, q)
        BY <1>7
      <3> QED
        BY <1>3, <1>6, <1>9, <2>1, <3>1, UtteredWith
    <2> QED
      BY <1>4, <1>15, <2>9, <2>10, StaysCalm DEF ChannelMoves
  <1> QED
    BY <1>13, <1>14, <1>15

-----------------------------------------------------------------------------
(* A relay that passes a packet on.                                         *)
OneHopLess(p) == [p EXCEPT !.ttl = @ - 1]
GoesOn(n, p) == Carries(n, p) /\ p.src # n /\ p.ttl > 1

LEMMA HopLess ==
    ASSUME NEW p \in Packet, p.ttl > 1
    PROVE  LET x == OneHopLess(p) IN
           x \in Packet /\ x.kind = p.kind /\ x.src = p.src /\ x.dst = p.dst /\ x.claim = p.claim
  BY ForwardAssumption DEF Packet, OneHopLess

LEMMA PassedSame ==
    ASSUME NEW D, NEW a \in [D -> Seq(Packet)], NEW v \in D, a[v] # << >>, NEW m,
           NEW p \in Packet, p = Head(a[v]), ~IsOf(p, m), NEW n, NEW ws
    PROVE  Same(a, Passed(TakenFrom(a, v), n, p, ws), m)
  <1>1. Same(a, TakenFrom(a, v), m)
    BY SameTaken
  <1>2. TakenFrom(a, v) \in [D -> Seq(Packet)]
    BY HeadAndTail DEF TakenFrom
  <1>3. CASE Carries(n, p) /\ p.src # n /\ p.ttl > 1
    <2>1. OneHopLess(p) \in Packet /\ ~IsOf(OneHopLess(p), m)
      BY <1>3, HopLess DEF IsOf
    <2>2. Same(TakenFrom(a, v), With(TakenFrom(a, v), ws, OneHopLess(p)), m)
      BY <1>2, <2>1, SameWith
    <2>3. Passed(TakenFrom(a, v), n, p, ws) = With(TakenFrom(a, v), ws, OneHopLess(p))
      BY <1>3 DEF Passed, OneHopLess
    <2> QED
      BY <1>1, <2>2, <2>3, SameBoth
  <1>4. CASE ~(Carries(n, p) /\ p.src # n /\ p.ttl > 1)
    BY <1>1, <1>4 DEF Passed
  <1> QED
    BY <1>3, <1>4

LEMMA UtteredPassed ==
    ASSUME NEW D, NEW a \in [D -> Seq(Packet)], Uttered(a), NEW p \in Packet, NEW n, NEW ws,
           \A w \in ws : w[2] = "down" \/ w[1][1] = Leader
    PROVE  Uttered(Passed(a, n, p, ws))
  <1>1. CASE Carries(n, p) /\ p.src # n /\ p.ttl > 1
    <2>1. OneHopLess(p) \in Packet
      BY <1>1, HopLess
    <2>2. \A w \in ws : w[2] = "up" /\ w[1][1] # Leader => Own(w, OneHopLess(p))
      OBVIOUS
    <2>3. Passed(a, n, p, ws) = With(a, ws, OneHopLess(p))
      BY <1>1 DEF Passed, OneHopLess
    <2> QED
      BY <2>1, <2>2, <2>3, UtteredWith
  <1>2. CASE ~(Carries(n, p) /\ p.src # n /\ p.ttl > 1)
    BY <1>2 DEF Passed
  <1> QED
    BY <1>1, <1>2

(* m's packet goes from the head of one queue to the end of another.        *)
LEMMA PassedSingle ==
    ASSUME NEW D, NEW a \in [D -> Seq(Packet)], NEW m, NoneOf(a, m),
           NEW p \in Packet, IsOf(p, m), NEW n, GoesOn(n, p), NEW u \in D
    PROVE  Single(Passed(a, n, p, {u}), m, u, OneHopLess(p)) /\ DOMAIN Passed(a, n, p, {u}) = D
  <1>2. OneHopLess(p) \in Packet /\ IsOf(OneHopLess(p), m)
    BY HopLess DEF IsOf, GoesOn
  <1>3. Passed(a, n, p, {u}) = With(a, {u}, OneHopLess(p))
    BY DEF Passed, OneHopLess, GoesOn
  <1>4. Single(With(a, {u}, OneHopLess(p)), m, u, OneHopLess(p))
    BY <1>2, NewSingle
  <1>5. DOMAIN With(a, {u}, OneHopLess(p)) = D
    BY DEF With
  <1> QED
    BY <1>3, <1>4, <1>5

LEMMA GoesUpMoves ==
    ASSUME ForwardTypeOK, OneParent, NamesKept, Calmly, TTL > 1,
           NEW n, NEW c, GoesUp(n, c)
    PROVE  Calmly' /\ ChannelMoves
  <1> DEFINE D == up \X Ways
             w == <<<<n, c>>, "up">>
             u == <<<<Leader, n>>, "up">>
             p == Head(air[w])
  <1>1. n \in Relay /\ w \in DOMAIN air /\ air[w] # << >> /\ air \in [D -> Seq(Packet)] /\ w \in D
    BY DEF GoesUp, ForwardTypeOK
  <1>2. <<n, c>> \in up /\ n # Leader /\ n # c /\ c \in Member
    <2>1. <<n, c>> \in up
      BY <1>1, QueueOfLink
    <2>2. <<n, c>> \in Link
      BY <2>1 DEF ForwardTypeOK
    <2>3. <<n, c>>[1] = n /\ <<n, c>>[2] = c
      OBVIOUS
    <2>4. n # c
      BY <2>2, <2>3, ForwardAssumption
    <2> QED
      BY <1>1, <2>1, <2>4, UpLinks, Ids
  <1>3. <<Leader, n>> \in up /\ u \in D
    <2>1. <<n, c>>[1] = n
      OBVIOUS
    <2>2. <<Leader, n>> \in up
      BY <1>2, <2>1 DEF Calmly, RelaysLinked
    <2> QED
      BY <2>2 DEF Ways
  <1>4. Learned(n, c, p) /\ UNCHANGED <<up, mode, waiting, left>>
    BY DEF GoesUp
  <1>5. air' = Passed(TakenFrom(air, w), n, p, {u})
    <2>1. PICK ws \in Upstream(n) : air' = Passed(Taken(w), n, p, ws)
      BY DEF GoesUp
    <2>2. ws = {u}
      BY <1>3, <2>1, OneWayUp
    <2> QED
      BY <2>1, <2>2 DEF Taken, TakenFrom
  <1>6. p \in Packet
    BY <1>1, TakenQueues
  <1>7. w[2] = "up" /\ w[1][1] = n /\ w[1][2] = c /\ u[2] = "up" /\ u[1][1] = Leader /\ u[1][2] = n
    OBVIOUS
  <1>8. p.src = c /\ (p.kind = "route" => p.claim \in {n, Leader})
    <2>1. p = air[w][1] /\ 1 \in DOMAIN air[w]
      BY <1>1, HeadAndTail
    <2>2. Uttered(air)
      BY DEF Calmly
    <2>3. Own(w, p)
      BY <1>1, <1>2, <1>7, <2>1, <2>2 DEF Uttered
    <2> QED
      BY <1>7, <2>3 DEF Own
  <1> HIDE DEF w, u, p, D
  <1>9. Keeps(route, route') /\ Points(route', n, c)
    <2>1. PICK hop \in HopsOf(n, c, p) : route' = [route EXCEPT ![n][c] = [conn |-> c, next |-> hop]]
      BY <1>4, <1>8 DEF Learned
    <2>2. hop \in {n, Leader, c}
      <3>1. CASE p.kind = "route"
        <4>1. "route" \in Kinds
          BY <1>6, <3>1 DEF Packet
        <4>2. BodyKept
          BY <4>1 DEF NamesKept
        <4> QED
          BY <1>8, <2>1, <3>1, <4>2 DEF HopsOf
      <3>2. CASE p.kind # "route"
        BY <2>1, <3>2 DEF HopsOf
      <3> QED
        BY <3>1, <3>2
    <2>3. route \in [Owner -> [Node -> Route]] /\ n \in Owner /\ c \in Node
      BY <1>1, <1>2, Ids DEF ForwardTypeOK, Owner, Route
    <2>4. route'[n][c] = [conn |-> c, next |-> hop]
      BY <2>1, <2>3
    <2>5. Points(route', n, c)
      BY <2>2, <2>4 DEF Points, DirectPeer
    <2>6. ASSUME NEW x \in Relay, NEW m \in Member, ~(x = n /\ m = c)
          PROVE  route'[x][m] = route[x][m]
      <3>1. x \in Owner /\ m \in Node
        BY <2>6, Ids DEF Owner
      <3> QED
        BY <2>1, <2>3, <2>6, <3>1
    <2> QED
      BY <2>5, <2>6 DEF Keeps, Points
  <1>10. Uttered(air')
    <2>1. Uttered(TakenFrom(air, w)) /\ TakenFrom(air, w) \in [D -> Seq(Packet)]
      BY <1>1, UtteredTaken, HeadAndTail DEF TakenFrom, Calmly
    <2>2. \A x \in {u} : x[2] = "down" \/ x[1][1] = Leader
      BY <1>7
    <2> QED
      BY <1>5, <1>6, <2>1, <2>2, UtteredPassed
  <1>11. ASSUME NEW k \in Member
         PROVE  Known(air', waiting', route', k) /\ Stage(air', waiting', k) = Stage(air, waiting, k)
    <2>0. Known(air, waiting, route, k) /\ (k \in waiting' <=> k \in waiting)
      BY <1>4 DEF Calmly
    <2>1. CASE ~IsOf(p, k)
      <3>1. p = Head(air[w])
        BY DEF p
      <3>2. Same(air, air', k)
        BY <1>1, <1>5, <1>6, <2>1, <3>1, PassedSame
      <3> QED
        BY <1>9, <2>0, <3>2, SameKnown
    <2>2. CASE IsOf(p, k)
      <3>1. p = Head(air[w])
        BY DEF p
      <3>2. /\ k \in waiting /\ Placed(route, k, w, p) /\ NoneOf(TakenFrom(air, w), k)
            /\ Single(air, k, w, p)
        BY <1>1, <2>0, <2>2, <3>1, KnownHead
      <3>3. p.kind = "hello" /\ k = c /\ p.ttl = TTL
        BY <1>2, <1>7, <3>2 DEF Placed, HalfWay
      <3>4. p.ttl > 1 /\ p.src # n /\ Carries(n, p)
        BY <1>1, <1>2, <1>8, <3>3 DEF Carries, Calmly
      <3>5. Single(air', k, u, OneHopLess(p)) /\ DOMAIN air' = D
        <4>0. GoesOn(n, p)
          BY <3>4 DEF GoesOn
        <4>1. TakenFrom(air, w) \in [D -> Seq(Packet)] /\ u \in D
          BY <1>1, <1>3, HeadAndTail DEF TakenFrom
        <4>2. /\ Single(Passed(TakenFrom(air, w), n, p, {u}), k, u, OneHopLess(p))
              /\ DOMAIN Passed(TakenFrom(air, w), n, p, {u}) = D
          BY <1>6, <2>2, <3>2, <4>0, <4>1, PassedSingle
        <4> QED
          BY <1>5, <4>2
      <3>6. OneHopLess(p) \in Packet /\ OneHopLess(p).kind = "hello"
        BY <1>6, <3>3, <3>4, HopLess
      <3>7. Placed(route', k, u, OneHopLess(p))
        BY <1>1, <1>2, <1>7, <1>9, <3>3, <3>6 DEF Placed, HalfWay
      <3>8. Known(air', waiting', route', k)
        BY <1>3, <2>0, <3>2, <3>5, <3>6, <3>7 DEF Known
      <3>9. w \in DOMAIN air /\ u \in DOMAIN air'
        BY <1>1, <1>3, <3>5
      <3>10. Stage(air, waiting, k) = "asked"
        BY <3>2, <3>3, <3>9, StageOfSingle
      <3>11. Stage(air', waiting', k) = "asked"
        BY <3>5, <3>6, <3>9, StageOfSingle
      <3> QED
        BY <3>8, <3>10, <3>11
    <2> QED
      BY <2>1, <2>2
  <1>12. KnownThen /\ Unmoved
    BY <1>11 DEF KnownThen, Unmoved
  <1> QED
    BY <1>4, <1>10, <1>12, StaysCalm DEF ChannelMoves

LEMMA GoesDownMoves ==
    ASSUME ForwardTypeOK, Calmly, NEW q, NEW n \in Member, GoesDown(q, n)
    PROVE  Calmly' /\ ChannelMoves
  <1> DEFINE D == up \X Ways
             w == <<<<q, n>>, "down">>
             p == Head(air[w])
             ws == Onward(n, p.dst)
  <1>1. w \in DOMAIN air /\ air[w] # << >> /\ air \in [D -> Seq(Packet)] /\ w \in D
    BY DEF GoesDown, ForwardTypeOK
  <1>2. UNCHANGED <<up, bound, route, mode, left>>
    BY DEF GoesDown
  <1>3. /\ p.dst = n \/ n \notin Relay => air' = TakenFrom(air, w)
        /\ ~(p.dst = n \/ n \notin Relay) => air' = Passed(TakenFrom(air, w), n, p, ws)
    BY DEF GoesDown, Taken, TakenFrom
  <1>4. waiting' = IF p.kind = "ack" /\ p.dst = n THEN waiting \ {n} ELSE waiting
    BY DEF GoesDown
  <1>5. p \in Packet /\ TakenFrom(air, w) \in [D -> Seq(Packet)]
    BY <1>1, TakenQueues, HeadAndTail DEF TakenFrom
  <1>6. w[2] = "down" /\ w[1][1] = q /\ w[1][2] = n
    OBVIOUS
  <1>7. \A x \in ws : x[2] = "down" \/ x[1][1] = Leader
    BY DEF Downstream, Onward
  <1>8. p = Head(air[w])
    OBVIOUS
  <1>9. ws = Onward(n, p.dst)
    OBVIOUS
  <1> HIDE DEF w, p, D, ws
  <1>10. Uttered(air')
    <2>1. Uttered(TakenFrom(air, w))
      BY <1>1, UtteredTaken DEF Calmly
    <2>2. Uttered(Passed(TakenFrom(air, w), n, p, ws))
      BY <1>5, <1>7, <2>1, UtteredPassed
    <2> QED
      BY <1>3, <2>1, <2>2
  <1>11. Keeps(route, route')
    BY <1>2 DEF Keeps
  <1>12. ASSUME NEW k \in Member, ~IsOf(p, k), k \in waiting' <=> k \in waiting
         PROVE  Known(air', waiting', route', k) /\ Stage(air', waiting', k) = Stage(air, waiting, k)
    <2>1. Known(air, waiting, route, k)
      BY DEF Calmly
    <2>2. Same(air, TakenFrom(air, w), k)
      BY <1>1, <1>8, <1>12, SameTaken
    <2>3. Same(air, Passed(TakenFrom(air, w), n, p, ws), k)
      BY <1>1, <1>5, <1>8, <1>12, PassedSame
    <2>4. Same(air, air', k)
      BY <1>3, <2>2, <2>3
    <2> QED
      BY <1>11, <1>12, <2>1, <2>4, SameKnown
  <1>13. ASSUME NEW k \in Member, IsOf(p, k)
         PROVE  /\ k \in waiting /\ Placed(route, k, w, p) /\ NoneOf(TakenFrom(air, w), k)
                /\ Single(air, k, w, p) /\ p.kind = "ack" /\ p.dst = k /\ Stage(air, waiting, k) = "answered"
    <2>1. Known(air, waiting, route, k)
      BY DEF Calmly
    <2>2. /\ k \in waiting /\ Placed(route, k, w, p) /\ NoneOf(TakenFrom(air, w), k)
          /\ Single(air, k, w, p)
      BY <1>1, <1>8, <1>13, <2>1, KnownHead
    <2>3. p.kind = "ack" /\ p.dst = k
      BY <1>6, <1>13, <2>2 DEF Placed, HalfWay, IsOf
    <2>4. Stage(air, waiting, k) = "answered"
      BY <1>1, <2>2, <2>3, StageOfSingle
    <2> QED
      BY <2>2, <2>3, <2>4
  <1>14. CASE p.kind = "ack" /\ p.dst = n
    <2>1. IsOf(p, n) /\ \A k \in Member \ {n} : ~IsOf(p, k)
      BY <1>14 DEF IsOf
    <2>2. air' = TakenFrom(air, w) /\ waiting' = waiting \ {n}
      BY <1>3, <1>4, <1>14
    <2>3. NoneOf(air', n) /\ n \notin waiting'
      BY <1>13, <2>1, <2>2
    <2>4. Stage(air, waiting, n) = "answered" /\ Stage(air', waiting', n) = "idle"
      BY <1>13, <2>1, <2>3, StageOfNone
    <2>5. \A k \in Member \ {n} : k \in waiting' <=> k \in waiting
      BY <2>2
    <2>6. Known(air', waiting', route', n)
      BY <2>3 DEF Known
    <2>7. KnownThen /\ Moves(n, "answered", "idle")
      BY <1>12, <2>1, <2>4, <2>5, <2>6 DEF KnownThen, Moves
    <2> QED
      BY <1>2, <1>10, <2>7, StaysCalm DEF ChannelMoves
  <1>15. CASE ~(p.kind = "ack" /\ p.dst = n)
    <2>1. waiting' = waiting
      BY <1>4, <1>15
    <2>2. ASSUME NEW k \in Member, IsOf(p, k)
          PROVE  Known(air', waiting', route', k) /\ Stage(air', waiting', k) = Stage(air, waiting, k)
      <3>1. /\ k \in waiting /\ Placed(route, k, w, p) /\ NoneOf(TakenFrom(air, w), k)
            /\ Single(air, k, w, p) /\ p.kind = "ack" /\ p.dst = k /\ Stage(air, waiting, k) = "answered"
        BY <1>13, <2>2
      <3> DEFINE d == <<<<n, k>>, "down">>
      <3>2. k # n /\ n \in Relay /\ <<n, k>> \in up /\ Points(route, n, k) /\ p.ttl > 1 /\ p.src = Leader
        BY <1>6, <1>15, <3>1 DEF Placed, HalfWay
      <3>3. k # None /\ n # Leader
        BY <3>2, Ids
      <3>4. ws = {d}
        <4>1. k \in Children(n)
          BY <3>2 DEF Children
        <4>2. ByRoute(n, k) = {k}
          BY <3>2, <3>3, <4>1 DEF ByRoute, Points
        <4>3. Conns(n, k) = {k}
          BY <4>2 DEF Conns
        <4>4. Downstream(n, k) = {d}
          BY <3>3, <4>3 DEF Downstream
        <4>5. mode[n] = "relay"
          BY <3>2 DEF Calmly
        <4> QED
          BY <1>9, <3>1, <4>4, <4>5 DEF Onward
      <3>5. d \in D /\ d[2] = "down" /\ d[1][2] = k
        BY <3>2 DEF D, Ways
      <3> HIDE DEF d
      <3>6. GoesOn(n, p)
        BY <3>2, <3>3 DEF Carries, Calmly, GoesOn
      <3>7. air' = Passed(TakenFrom(air, w), n, p, {d})
        BY <1>3, <3>1, <3>2, <3>4
      <3>8. /\ Single(Passed(TakenFrom(air, w), n, p, {d}), k, d, OneHopLess(p))
            /\ DOMAIN Passed(TakenFrom(air, w), n, p, {d}) = D
        <4>1. TakenFrom(air, w) \in [D -> Seq(Packet)] /\ p \in Packet /\ d \in D
          BY <1>5, <3>5
        <4>2. NoneOf(TakenFrom(air, w), k)
          BY <3>1
        <4> QED
          BY <2>2, <3>6, <4>1, <4>2, PassedSingle
      <3>9. Single(air', k, d, OneHopLess(p)) /\ d \in DOMAIN air'
        BY <3>5, <3>7, <3>8
      <3>10. OneHopLess(p) \in Packet /\ OneHopLess(p).kind = "ack" /\ OneHopLess(p).src = Leader
        BY <1>5, <3>1, <3>2, HopLess
      <3>11. Placed(route', k, d, OneHopLess(p))
        BY <3>5, <3>10 DEF Placed, HalfWay
      <3>12. k \in waiting'
        BY <2>1, <3>1
      <3>13. Known(air', waiting', route', k)
        BY <3>9, <3>10, <3>11, <3>12 DEF Known
      <3>14. Stage(air', waiting', k) = "answered"
        BY <3>9, <3>10, <3>12, StageOfSingle
      <3> QED
        BY <3>1, <3>13, <3>14
    <2>3. KnownThen /\ Unmoved
      BY <1>12, <2>1, <2>2 DEF KnownThen, Unmoved
    <2> QED
      BY <1>2, <1>10, <2>3, StaysCalm DEF ChannelMoves
  <1> QED
    BY <1>14, <1>15

-----------------------------------------------------------------------------
(* Nothing is under way in a mesh that has settled.                         *)
LEMMA SettleCalms ==
    ASSUME ForwardTypeOK, Settle, RelaysLinked'
    PROVE  Calmly'
  <1>1. UNCHANGED <<up, air, bound, route, mode, waiting, left>>
    BY DEF Settle
  <1>2. waiting = {} /\ (\A w \in DOMAIN air : air[w] = << >>) /\ (\A r \in Relay : mode[r] = "relay")
    BY DEF Settle
  <1>3. (\A r \in Relay : mode[r] = "relay")'
    BY <1>1, <1>2
  <1>4. Uttered(air)'
    BY <1>1, <1>2 DEF Uttered
  <1>5. \A m \in Member : Known(air, waiting, route, m)'
    BY <1>1, <1>2 DEF Known, NoneOf
  <1> QED
    BY <1>3, <1>4, <1>5 DEF Calmly

LEMMA StutterCalms ==
    ASSUME Calmly, UNCHANGED <<up, air, route, mode, waiting>>
    PROVE  Calmly'
  <1>1. Uttered(air')
    BY DEF Calmly
  <1>2. KnownThen
    BY DEF Calmly, KnownThen
  <1> QED
    BY <1>1, <1>2, StaysCalm

LEMMA CalmMoves ==
    ASSUME ForwardTypeOK, OneParent, NamesKept, TTL > 1, Calmly, Move
    PROVE  Calmly' /\ ChannelMoves
  BY MemberSendsMoves, LeaderSendsMoves, AtLeaderMoves, GoesUpMoves, GoesDownMoves DEF Move

LEMMA TierSteps ==
    ASSUME NamesKept, TTL > 1, ForwardInv, TierInv, FlatInCalm, FlatInCalm', [Move \/ Change \/ Settle]_forwardVars
    PROVE  TierInv'
  <1>1. ForwardTypeOK' /\ ForwardTypeOK
    BY ForwardSteps DEF ForwardInv, TierInv
  <1>2. CASE Move
    <2>1. calm' => calm /\ Calmly /\ OneParent
      BY <1>2 DEF Move, TierInv, FlatInCalm, Flat
    <2> QED
      BY <1>1, <1>2, <2>1, CalmMoves DEF TierInv
  <1>3. CASE Change
    BY <1>1, <1>3 DEF Change, TierInv
  <1>4. CASE Settle
    <2>1. RelaysLinked'
      BY <1>4 DEF Settle, FlatInCalm, Flat
    <2> QED
      BY <1>1, <1>4, <2>1, SettleCalms DEF TierInv
  <1>5. CASE UNCHANGED forwardVars
    BY <1>1, <1>5, StutterCalms DEF TierInv, forwardVars
  <1> QED
    BY <1>2, <1>3, <1>4, <1>5

LEMMA TierStarts == ForwardInit /\ ForwardTypeOK => TierInv
  BY DEF ForwardInit, TierInv

LEMMA StageBarIs ==
    stageBar = [m \in Member |-> IF ~calm THEN "idle" ELSE Stage(air, waiting, m)]
  BY DEF stageBar, Stage

LEMMA ChannelSteps ==
    ASSUME NamesKept, TTL > 1, TierInv, FlatInCalm, [Move \/ Change \/ Settle]_forwardVars
    PROVE  [Channel!ChannelNext]_stageBar
  <1>0. stageBar' = [m \in Member |-> IF ~calm' THEN "idle" ELSE Stage(air', waiting', m)]
    BY DEF stageBar, Stage
  <1>1. CASE calm /\ Move
    <2>1. ChannelMoves /\ calm'
      BY <1>1, CalmMoves DEF TierInv, FlatInCalm, Flat, Move
    <2>2. CASE Unmoved
      BY <1>0, <1>1, <2>1, <2>2, StageBarIs DEF Unmoved
    <2>3. ASSUME NEW m \in Member, NEW from, NEW to, Moves(m, from, to)
          PROVE  Channel!Step(m, from, to)
      <3>1. stageBar[m] = from
        BY <1>1, <2>3, StageBarIs DEF Moves
      <3>2. stageBar' = [stageBar EXCEPT ![m] = to]
        BY <1>0, <1>1, <2>1, <2>3, StageBarIs DEF Moves
      <3> QED
        BY <3>1, <3>2 DEF Channel!Step
    <2> QED
      BY <2>1, <2>2, <2>3 DEF ChannelMoves, Channel!ChannelNext, Channel!Ask, Channel!Answer, Channel!Hear
  <1>2. CASE ~calm /\ ~calm'
    BY <1>0, <1>2, StageBarIs
  <1>3. CASE Settle
    <2>1. ASSUME NEW m \in Member PROVE Stage(air', waiting', m) = "idle"
      <3>1. NoneOf(air', m) /\ m \notin waiting'
        BY <1>3 DEF Settle, NoneOf
      <3> QED
        BY <3>1, StageOfNone
    <2>2. ~calm
      BY <1>3 DEF Settle
    <2> QED
      BY <1>0, <2>1, <2>2, StageBarIs
  <1>4. CASE UNCHANGED forwardVars
    BY <1>0, <1>4, StageBarIs DEF forwardVars
  <1>5. Move \/ Change \/ Settle \/ UNCHANGED forwardVars
    OBVIOUS
  <1>6. calm \in BOOLEAN
    BY DEF TierInv, ForwardTypeOK
  <1>7. (Move => UNCHANGED calm) /\ (Change => UNCHANGED calm /\ ~calm)
    BY DEF Move, Change
  <1> QED
    BY <1>1, <1>2, <1>3, <1>4, <1>5, <1>6, <1>7

(* Links and relays come and go, members hold several parents at once, and  *)
(* then the mesh rests.  If in that calm each node has one parent and each  *)
(* relay with children has the leader for its own, and no ROUTE_UPDATE is   *)
(* read from a stack frame that has been overwritten (NamesKept), each      *)
(* request is one request at the leader, each answer one answer, and the    *)
(* answer is the asker's; none is lost, doubled or heard unasked, whatever  *)
(* is left in the tables.  With two parents a HELLO may go up both ways     *)
(* (sle_uart_server_send_report_by_handle) and is answered twice: there is  *)
(* no such channel.                                                         *)
THEOREM MeshIsChannel ==
    ASSUME NamesKept, TTL > 1
    PROVE  ForwardSpec /\ [](calm => Flat) => Channel!ChannelInit /\ [][Channel!ChannelNext]_stageBar
  <1>1. ForwardInit => Channel!ChannelInit
    BY DEF ForwardInit, Channel!ChannelInit, stageBar
  <1>2. ForwardInit /\ ForwardInv => TierInv
    BY TierStarts DEF ForwardInv
  <1>3. /\ ForwardInv /\ TierInv /\ (calm => Flat) /\ (calm => Flat)' /\ [Move \/ Change \/ Settle]_forwardVars
        => TierInv'
    BY TierSteps DEF FlatInCalm
  <1>4. TierInv /\ (calm => Flat) /\ [Move \/ Change \/ Settle]_forwardVars => [Channel!ChannelNext]_stageBar
    BY ChannelSteps DEF FlatInCalm
  <1> QED
    BY <1>1, <1>2, <1>3, <1>4, ForwardInvariant, PTL DEF ForwardSpec
=============================================================================
