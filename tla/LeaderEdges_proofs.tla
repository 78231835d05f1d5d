------------------------- MODULE LeaderEdges_proofs -------------------------
(***************************************************************************)
(* What holds at the edges of a leader for any members, slots, lengths of  *)
(* lines and numbers of connections: what it is told (Cli), what it shows  *)
(* (Display), whom it connects to (LeaderScan), whom it tells to move      *)
(* (RouteHints) and the bytes it sends and hears (PacketCodec).  The five  *)
(* share nothing.                                                          *)
(***************************************************************************)
EXTENDS Cli, Display, LeaderScan, RouteHints, PacketCodec, FiniteSetTheorems, SequenceTheorems, TLAPS

-----------------------------------------------------------------------------
(* The console.                                                             *)

(* While everything typed fits the buffer, it is what the buffer holds.     *)
LineIsTyped == Len(typed) =< Width => line = typed

CliInv == CliSafety /\ LineIsTyped

(* What may be asked of the node.                                           *)
Fair(a) ==
    /\ DOMAIN a \subseteq {"op", "dst", "ids", "words"} /\ {"op", "words"} \subseteq DOMAIN a
    /\ "ids" \in DOMAIN a => a.ids \subseteq Id

LEMMA FairAsks ==
    /\ \A op, words : Fair(Ask(op, words)) /\ Fair(Usage(words))
    /\ \A op, words, dst : Fair([op |-> op, words |-> words, dst |-> dst])
    /\ \A op, words : \A ids \in SUBSET Id : Fair(AskIds(op, words, ids))
  BY DEF Fair, Ask, Usage, AskIds

LEMMA ParsedIds ==
    ASSUME NEW w, ParsesId(w)
    PROVE  Number[w] \in Id
  BY CliAssumption DEF ParsesId, Parses, Id

LEMMA FairAllow ==
    ASSUME NEW words, NEW ws
    PROVE  Fair(Allow(words, ws))
  <1>1. ASSUME \A i \in 3 .. Len(ws) : ParsesId(ws[i])
        PROVE  {Number[ws[i]] : i \in 3 .. Len(ws)} \in SUBSET Id
    BY <1>1, ParsedIds
  <1>2. ParsesId(ws[3]) => {Number[ws[3]]} \in SUBSET Id
    BY ParsedIds
  <1> QED
    BY <1>1, <1>2, FairAsks DEF Allow

LEMMA FairSends ==
    ASSUME NEW op, NEW words
    PROVE  Fair(SendPlain(op, words)) /\ Fair(SendFields(op, words))
  <1>1. Fair(SendPlain(op, words))
    BY FairAsks DEF SendPlain
  <1>2. Fair(SendFields(op, words))
    BY FairAsks DEF SendFields
  <1> QED
    BY <1>1, <1>2

LEMMA FairOthers ==
    ASSUME NEW words, NEW ws
    PROVE  Fair(Pairing(words, ws)) /\ Fair(Join(words, ws))
  <1>1. ParsesId(ws[3]) => {Number[ws[3]]} \in SUBSET Id
    BY ParsedIds
  <1>2. Fair(Pairing(words, ws))
    BY <1>1, FairAsks DEF Pairing
  <1>3. Fair(Join(words, ws))
    BY <1>1, FairAsks DEF Join
  <1> QED
    BY <1>2, <1>3

LEMMA FairCommand ==
    ASSUME NEW words
    PROVE  Fair(NodeCommand(words))
  BY FairAsks, FairAllow, FairSends, FairOthers DEF NodeCommand

LEMMA CliParts ==
    CliInv <=> /\ line \in Seq(Word) /\ Len(line) =< Width
               /\ queue \in Seq(Message) /\ Len(queue) =< QueueLen
               /\ role \in {"none"} \cup Roles /\ saved \in {"none"} \cup Roles
               /\ typed \in Seq(Word) /\ clean \in BOOLEAN /\ left \in 0 .. Budget
               /\ Fair(asked) /\ GoodLinesWhole /\ LineIsTyped
  BY DEF CliInv, CliSafety, CliTypeOK, IdsAreIds, Fair

LEMMA Queues ==
    ASSUME NEW T, NEW q \in Seq(T)
    PROVE  /\ \A x \in T : /\ Append(q, x) \in Seq(T) /\ Len(Append(q, x)) = Len(q) + 1
                         /\ \A i \in DOMAIN Append(q, x) :
                               Append(q, x)[i] = x \/ (i \in DOMAIN q /\ Append(q, x)[i] = q[i])
           /\ q # << >> => /\ Tail(q) \in Seq(T) /\ Len(Tail(q)) = Len(q) - 1
                           /\ \A i \in DOMAIN Tail(q) :
                                 i + 1 \in DOMAIN q /\ Tail(q)[i] = q[i + 1]
           /\ Len(q) \in Nat
  OBVIOUS

LEMMA CliStarts == CliInit => CliInv
  <1> SUFFICES ASSUME CliInit PROVE CliInv
    OBVIOUS
  <1>1. Fair(asked)
    BY DEF CliInit, Nothing, Fair
  <1> QED
    BY <1>1, CliParts, CliAssumption DEF CliInit, GoodLinesWhole, LineIsTyped

LEMMA ReceiveOK ==
    ASSUME CliInv, NEW w \in Word, Receive(w)
    PROVE  CliInv'
  <1>1. /\ line \in Seq(Word) /\ Len(line) =< Width /\ typed \in Seq(Word)
        /\ left \in 0 .. Budget /\ GoodLinesWhole /\ LineIsTyped /\ Fair(asked)
    BY CliParts
  <1>2. line' \in Seq(Word) /\ Len(line') =< Width
    BY <1>1, CliAssumption DEF Receive, Room
  <1>3. typed' \in Seq(Word) /\ left' \in 0 .. Budget
    BY <1>1, CliAssumption DEF Receive
  <1>4. LineIsTyped'
    BY <1>1, CliAssumption DEF Receive, Room, LineIsTyped
  <1>5. GoodLinesWhole' /\ Fair(asked')
    BY <1>1 DEF Receive, GoodLinesWhole
  <1> QED
    BY <1>2, <1>3, <1>4, <1>5, CliParts DEF Receive, CliInv, CliSafety, CliTypeOK, IdsAreIds, Fair

LEMMA ReceiveEndOK ==
    ASSUME CliInv, ReceiveEnd
    PROVE  CliInv'
  <1> DEFINE msg == [words |-> line, typed |-> typed, clean |-> clean]
  <1>1. /\ line \in Seq(Word) /\ typed \in Seq(Word) /\ clean \in BOOLEAN
        /\ queue \in Seq(Message) /\ Len(queue) =< QueueLen
        /\ left \in 0 .. Budget /\ GoodLinesWhole /\ LineIsTyped /\ Fair(asked)
    BY CliParts
  <1>2. msg \in Message /\ (Len(msg.typed) =< Width => msg.words = msg.typed)
    BY <1>1 DEF Message, LineIsTyped
  <1> HIDE DEF msg
  <1>3. queue' = queue \/ (Len(queue) # QueueLen /\ queue' = Append(queue, msg))
    BY DEF ReceiveEnd, msg
  <1>4. queue' \in Seq(Message) /\ Len(queue') =< QueueLen
    <2> HIDE DEF Message
    <2>1. CASE queue' = queue
      BY <1>1, <2>1
    <2>2. CASE Len(queue) # QueueLen /\ queue' = Append(queue, msg)
      <3>1. Append(queue, msg) \in Seq(Message) /\ Len(Append(queue, msg)) = Len(queue) + 1
        BY <1>1, <1>2, Queues
      <3>2. Len(queue) \in Nat
        BY <1>1, Queues
      <3> QED
        BY <1>1, <2>2, <3>1, <3>2, CliAssumption
    <2> QED
      BY <1>3, <2>1, <2>2
  <1>5. GoodLinesWhole'
    <2>1. CASE queue' = queue
      BY <1>1, <2>1 DEF GoodLinesWhole
    <2>2. CASE queue' = Append(queue, msg)
      <3>1. \A i \in DOMAIN queue' : queue'[i] = msg \/ (i \in DOMAIN queue /\ queue'[i] = queue[i])
        BY <1>1, <1>2, <2>2, Queues
      <3> QED
        BY <1>1, <1>2, <3>1 DEF GoodLinesWhole
    <2> QED
      BY <1>3, <2>1, <2>2
  <1>6. /\ line' = << >> /\ typed' = << >> /\ clean' = TRUE /\ left' \in 0 .. Budget
    BY <1>1, CliAssumption DEF ReceiveEnd, Restarted
  <1> QED
    BY <1>1, <1>4, <1>5, <1>6, CliParts, CliAssumption
    DEF ReceiveEnd, CliInv, CliSafety, CliTypeOK, IdsAreIds, Fair, LineIsTyped

LEMMA HandleOK ==
    ASSUME CliInv, Handle
    PROVE  CliInv'
  <1> DEFINE words == Head(queue).words
  <1>1. queue \in Seq(Message) /\ Len(queue) =< QueueLen /\ GoodLinesWhole /\ LineIsTyped
    BY CliParts
  <1>2. queue # << >> /\ queue' = Tail(queue)
    BY DEF Handle
  <1>3. queue' \in Seq(Message) /\ Len(queue') =< QueueLen /\ GoodLinesWhole'
    <2>1. /\ queue' \in Seq(Message) /\ Len(queue') = Len(queue) - 1 /\ Len(queue) \in Nat
          /\ \A i \in DOMAIN queue' : i + 1 \in DOMAIN queue /\ queue'[i] = queue[i + 1]
      BY <1>1, <1>2, Queues
    <2>2. Len(queue') =< QueueLen
      BY <1>1, <2>1, CliAssumption
    <2>3. GoodLinesWhole'
      BY <1>1, <2>1 DEF GoodLinesWhole
    <2> QED
      BY <2>1, <2>2, <2>3
  <1>4. Fair(asked')
    BY FairAsks, FairCommand DEF Handle
  <1>5. role' \in {"none"} \cup Roles /\ saved' \in {"none"} \cup Roles
    <2>1. RoleOf(words) \in {"none"} \cup Roles /\ Loadable(words) \in {"none"} \cup Roles
      BY DEF RoleOf, Loadable, Roles
    <2> HIDE DEF words
    <2>2. role \in {"none"} \cup Roles /\ saved \in {"none"} \cup Roles
      BY CliParts
    <2>3. /\ role' \in {role, RoleOf(words), "none"}
          /\ saved' \in {saved, Loadable(words), "none"}
      BY DEF Handle, words
    <2> QED
      BY <2>1, <2>2, <2>3
  <1> QED
    BY <1>2, <1>3, <1>4, <1>5, CliParts
    DEF Handle, CliInv, CliSafety, CliTypeOK, IdsAreIds, Fair, LineIsTyped

LEMMA CliOthersOK ==
    ASSUME CliInv, ReceiveError \/ Restart \/ UNCHANGED cliVars
    PROVE  CliInv'
  <1>1. CASE ReceiveError
    <2>1. left \in 0 .. Budget
      BY CliParts
    <2>2. left > 0 /\ left' = left - 1 /\ clean' = FALSE
      BY <1>1, Zenon DEF ReceiveError
    <2>3. left' \in 0 .. Budget
      BY <2>1, <2>2, CliAssumption
    <2> QED
      BY <1>1, <2>2, <2>3
      DEF ReceiveError, CliInv, CliSafety, CliTypeOK, IdsAreIds, LineIsTyped, GoodLinesWhole
  <1>2. CASE Restart
    <2>1. Fair(asked')
      BY <1>2 DEF Restart, Nothing, Fair
    <2> QED
      BY <1>2, <2>1, CliParts, CliAssumption
      DEF Restart, CliInv, CliSafety, CliTypeOK, IdsAreIds, Fair, LineIsTyped, GoodLinesWhole
  <1>3. CASE UNCHANGED cliVars
    BY <1>3 DEF cliVars, CliInv, CliSafety, CliTypeOK, IdsAreIds, LineIsTyped, GoodLinesWhole
  <1> QED
    BY <1>1, <1>2, <1>3

(* A line that fits and was received without an error is executed whole,    *)
(* whatever was typed before it and however long the queue is, and every id *)
(* that the node is given is a member's (team_uart_rx_cb,                   *)
(* sle_team_cli_handle_line).                                               *)
THEOREM LinesAreWhole == CliSpec => []CliSafety
  <1>1. CliInv /\ [CliNext]_cliVars => CliInv'
    BY ReceiveOK, ReceiveEndOK, HandleOK, CliOthersOK DEF CliNext
  <1>2. CliInv => CliSafety
    BY DEF CliInv
  <1> QED
    BY <1>1, <1>2, CliStarts, PTL DEF CliSpec
-----------------------------------------------------------------------------
(* The screen.                                                              *)

(* While the task draws, what it copied or what the screen shows is the     *)
(* last that was written.                                                   *)
CopiedIsLast ==
    task.busy =>
        /\ ~event.dirty => (IF task.draws THEN task.event ELSE panel.event) = event.show
        /\ ~status.dirty => (IF task.counts THEN task.status ELSE panel.status) = status.show

(* Who left before it was lost is noted offline then already.               *)
LeftIsNoted == \A m \in DOMAIN noted : noted[m].last = "LEFT" => noted[m].offline

DisplayInv == DisplaySafety /\ CopiedIsLast /\ LeftIsNoted

(* The invariant of any records, notes and written lines.                   *)
Record == [on : BOOLEAN, seen : 0 .. MaxNow]
Note == [offline : BOOLEAN, last : {e.type : e \in Event}]
RecOK(r) == DOMAIN r \subseteq Mate /\ Cardinality(DOMAIN r) =< Records /\ \A m \in DOMAIN r : r[m] \in Record
NotedOK(n, l) ==
    /\ DOMAIN n \subseteq Mate /\ Cardinality(DOMAIN n) =< Records
    /\ \A m \in DOMAIN n : n[m] \in Note
    /\ \A m \in DOMAIN n : l[m] \in {"lost", "left"} => n[m].offline
    /\ \A m \in DOMAIN n : n[m].last = "LEFT" => n[m].offline
Life == [Mate -> {"unheard", "joined", "silent", "lost", "left"}]
Written == [show : Shown, dirty : BOOLEAN]
WrittenCounts == [show : Counts, dirty : BOOLEAN]
Tasks == {[busy |-> FALSE]} \cup
         [busy : {TRUE}, event : Shown, draws : BOOLEAN, status : Counts, counts : BOOLEAN]
Panel == [event : Shown, status : Counts]

LEMMA DisplayParts ==
    DisplayInv <=> /\ RecOK(rec) /\ NotedOK(noted, life) /\ life \in Life
                   /\ event \in Written /\ status \in WrittenCounts /\ panel \in Panel /\ task \in Tasks
                   /\ lastOnline \in 0 .. Records /\ loop \in {"tick", "ticked"} /\ recent \in BOOLEAN
                   /\ now \in 1 .. MaxNow /\ NothingForgotten /\ CopiedIsLast
  <1>1. RecOK(rec) <=> /\ DOMAIN rec \subseteq Mate /\ Cardinality(DOMAIN rec) =< Records
                      /\ \A m \in DOMAIN rec : rec[m] \in [on : BOOLEAN, seen : 0 .. MaxNow]
    BY DEF RecOK, Record
  <1>2. NotedOK(noted, life) <=>
          /\ DOMAIN noted \subseteq Mate /\ Cardinality(DOMAIN noted) =< Records
          /\ \A m \in DOMAIN noted : noted[m] \in [offline : BOOLEAN, last : {e.type : e \in Event}]
          /\ LostIsNoted /\ LeftIsNoted
    BY Zenon DEF NotedOK, Note, LostIsNoted, LeftIsNoted
  <1> QED
    BY <1>1, <1>2, Zenon DEF DisplayInv, DisplaySafety, DisplayTypeOK, Life, Written, WrittenCounts, Panel, Tasks

LEMMA DisplayPartsNext ==
    DisplayInv' <=> /\ RecOK(rec') /\ NotedOK(noted', life') /\ life' \in Life
                    /\ event' \in Written /\ status' \in WrittenCounts /\ panel' \in Panel /\ task' \in Tasks
                    /\ lastOnline' \in 0 .. Records /\ loop' \in {"tick", "ticked"} /\ recent' \in BOOLEAN
                    /\ now' \in 1 .. MaxNow /\ NothingForgotten' /\ CopiedIsLast'
  <1>1. RecOK(rec') <=> /\ DOMAIN rec' \subseteq Mate /\ Cardinality(DOMAIN rec') =< Records
                      /\ \A m \in DOMAIN rec' : rec'[m] \in [on : BOOLEAN, seen : 0 .. MaxNow]
    BY DEF RecOK, Record
  <1>2. NotedOK(noted', life') <=>
          /\ DOMAIN noted' \subseteq Mate /\ Cardinality(DOMAIN noted') =< Records
          /\ \A m \in DOMAIN noted' : noted'[m] \in [offline : BOOLEAN, last : {e.type : e \in Event}]
          /\ LostIsNoted' /\ LeftIsNoted'
    BY Zenon DEF NotedOK, Note, LostIsNoted, LeftIsNoted
  <1> QED
    BY <1>1, <1>2, Zenon DEF DisplayInv, DisplaySafety, DisplayTypeOK, Life, Written, WrittenCounts, Panel, Tasks

LEMMA Slotted ==
    ASSUME NEW S, S \subseteq Mate
    PROVE  /\ IsFiniteSet(S) /\ Cardinality(S) \in Nat
           /\ \A T \in SUBSET S : IsFiniteSet(T) /\ Cardinality(T) \in Nat /\ Cardinality(T) =< Cardinality(S)
           /\ \A m \in Mate : Cardinality(S \cup {m}) = (IF m \in S THEN Cardinality(S) ELSE Cardinality(S) + 1)
  <1>1. IsFiniteSet(S)
    BY DisplayAssumption, FS_Subset
  <1> QED
    BY <1>1, FS_Subset, FS_CardinalityType, FS_AddElement

LEMMA CountsFit ==
    ASSUME NEW r, RecOK(r)
    PROVE  CountsOf(r) \in Counts /\ CountsOf(r).on \in 0 .. Records
  <1> DEFINE on == {m \in DOMAIN r : r[m].on}
             off == {m \in DOMAIN r : ~r[m].on}
  <1>1. DOMAIN r \subseteq Mate /\ Cardinality(DOMAIN r) =< Records
    BY DEF RecOK
  <1>2. on \in SUBSET DOMAIN r /\ off \in SUBSET DOMAIN r
    OBVIOUS
  <1>3. CountsOf(r) = [on |-> Cardinality(on), off |-> Cardinality(off)]
    BY DEF CountsOf
  <1> HIDE DEF on, off
  <1>4. Cardinality(on) \in 0 .. Records /\ Cardinality(off) \in 0 .. Records
    BY <1>1, <1>2, Slotted, DisplayAssumption
  <1> QED
    BY <1>3, <1>4 DEF Counts

(* g is f but for m, and fits.                                              *)
PutIn(g, f, m, v) ==
    /\ DOMAIN g \subseteq Mate /\ Cardinality(DOMAIN g) =< Records
    /\ \A x \in DOMAIN g : IF x = m THEN g[x] = v ELSE x \in DOMAIN f /\ g[x] = f[x]

LEMMA PutFits ==
    ASSUME NEW f, DOMAIN f \subseteq Mate, Cardinality(DOMAIN f) =< Records,
           NEW m \in Mate, NEW v, m \in DOMAIN f \/ Cardinality(DOMAIN f) < Records
    PROVE  PutIn(Put(f, m, v), f, m, v)
  <1>1. DOMAIN Put(f, m, v) = DOMAIN f \cup {m}
    BY DEF Put
  <1>2. Cardinality(DOMAIN f \cup {m}) =< Records
    BY Slotted, DisplayAssumption
  <1> QED
    BY <1>1, <1>2 DEF Put, PutIn

LEMMA NotedFits ==
    ASSUME NEW l \in Life, NotedOK(noted, l), NEW m \in Mate, NEW v \in Note,
           v.last = "LEFT" => v.offline, l[m] \in {"lost", "left"} => v.offline
    PROVE  NotedOK(IF HasSlot(m) THEN Put(noted, m, v) ELSE noted, l)
  <1>1. CASE HasSlot(m)
    <2> DEFINE n == Put(noted, m, v)
    <2>1. PutIn(n, noted, m, v)
      BY <1>1, PutFits DEF NotedOK, HasSlot
    <2> HIDE DEF n
    <2>2. NotedOK(n, l)
      BY <2>1 DEF NotedOK, PutIn
    <2> QED
      BY <1>1, <2>2 DEF n
  <1> QED
    BY <1>1

(* Another slot of a member that is not noted may still say what it likes.  *)
LEMMA LifeChanges ==
    ASSUME NEW n, NEW l, NotedOK(n, l), NEW later,
           \A m \in DOMAIN n : later[m] \in {"lost", "left"} => l[m] \in {"lost", "left"} \/ n[m].offline
    PROVE  NotedOK(n, later)
  BY DEF NotedOK

LEMMA HeardFits ==
    ASSUME DisplayInv, NEW m \in Mate, Heard(m)
    PROVE  RecOK(rec')
  <1> DEFINE v == [on |-> TRUE, seen |-> now]
             r == Put(rec, m, v)
  <1>1. v \in Record
    BY DisplayParts, DisplayAssumption DEF Record
  <1>2. RecOK(rec)
    BY DisplayParts
  <1>3. rec' = r /\ (m \in DOMAIN rec \/ Cardinality(DOMAIN rec) < Records)
    BY DEF Heard
  <1>4. PutIn(r, rec, m, v)
    BY <1>2, <1>3, PutFits DEF RecOK
  <1> HIDE DEF r, v
  <1>5. RecOK(r)
    BY <1>1, <1>2, <1>4 DEF RecOK, PutIn
  <1> QED
    BY <1>3, <1>5

(* What the callbacks and the main loop write for the task.                 *)
LEMMA ShowWrites ==
    ASSUME NEW type \in {"JOIN", "REJOIN", "LEFT", "LOST", "TIMEOUT"}, NEW m \in Mate, Show(type, m)
    PROVE  event' \in Written /\ event'.dirty
  BY DEF Show, Written, Shown, Event

LEMMA RefreshWrites ==
    ASSUME RecOK(rec'), Refresh
    PROVE  status' \in WrittenCounts /\ status'.dirty
  BY CountsFit DEF Refresh, WrittenCounts

(* What is written while the task is where it was is not forgotten.         *)
LEMMA WrittenNotForgotten ==
    ASSUME DisplayInv, UNCHANGED <<task, panel>>,
           event' = event \/ event'.dirty, status' = status \/ status'.dirty
    PROVE  NothingForgotten' /\ CopiedIsLast'
  BY DisplayParts DEF NothingForgotten, CopiedIsLast

LEMMA HelloOK ==
    ASSUME DisplayInv, NEW m \in Mate, Hello(m)
    PROVE  DisplayInv'
  <1> DEFINE type == IF m \in DOMAIN noted /\ noted[m].offline THEN "REJOIN" ELSE "JOIN"
             v == [offline |-> FALSE, last |-> type]
  <1>1. RecOK(rec')
    BY HeardFits DEF Hello
  <1>2. life' \in Life /\ NotedOK(noted, life')
    <2>1. life \in Life /\ life' = [life EXCEPT ![m] = "joined"] /\ NotedOK(noted, life)
      BY DisplayParts DEF Hello
    <2>2. life' \in Life /\ \A x \in Mate : life'[x] = life[x] \/ life'[x] = "joined"
      BY <2>1 DEF Life
    <2>3. DOMAIN noted \subseteq Mate
      BY <2>1 DEF NotedOK
    <2> QED
      BY <2>1, <2>2, <2>3, LifeChanges
  <1>3. v \in Note /\ v.last # "LEFT" /\ type \in {"JOIN", "REJOIN", "LEFT", "LOST", "TIMEOUT"}
    <2>1. [type |-> type, of |-> m] \in Event
      BY DEF Event
    <2> QED
      BY <2>1 DEF Note
  <1>4. life'[m] = "joined"
    BY DisplayParts DEF Hello, Life
  <1>5. \/ UNCHANGED <<noted, event>>
        \/ noted' = (IF HasSlot(m) THEN Put(noted, m, v) ELSE noted) /\ Show(type, m)
    BY DEF Hello, Joined
  <1> HIDE DEF v, type
  <1>6. NotedOK(noted', life')
    BY <1>2, <1>3, <1>4, <1>5, NotedFits
  <1>7. (event' = event \/ event'.dirty) /\ event' \in Written
    BY <1>3, <1>5, ShowWrites, DisplayParts
  <1>8. status' \in WrittenCounts /\ status'.dirty
    BY <1>1, RefreshWrites DEF Hello, Joined
  <1>9. lastOnline' \in 0 .. Records
    BY <1>1, CountsFit DEF Hello, Joined
  <1>10. UNCHANGED <<loop, task, panel, recent, now>>
    BY DEF Hello
  <1>11. NothingForgotten' /\ CopiedIsLast'
    BY <1>7, <1>8, <1>10, WrittenNotForgotten
  <1> QED
    BY <1>1, <1>2, <1>6, <1>7, <1>8, <1>9, <1>10, <1>11, DisplayParts, DisplayPartsNext

LEMMA ReportOK ==
    ASSUME DisplayInv, NEW m \in Mate, NEW position \in BOOLEAN, Report(m, position)
    PROVE  DisplayInv'
  <1>1. RecOK(rec')
    BY HeardFits DEF Report
  <1>2. Refresh \/ status' = status
    BY DEF Report
  <1>3. status' \in WrittenCounts /\ (status' = status \/ status'.dirty)
    BY <1>1, <1>2, RefreshWrites, DisplayParts
  <1>4. UNCHANGED <<noted, lastOnline, loop, event, task, panel, recent, now, life>>
    BY DEF Report
  <1>5. NothingForgotten' /\ CopiedIsLast'
    BY <1>3, <1>4, WrittenNotForgotten
  <1> QED
    BY <1>1, <1>3, <1>4, <1>5, DisplayParts, DisplayPartsNext

LEMMA GoesOK ==
    ASSUME DisplayInv, NEW m \in Mate, NEW disconnect \in BOOLEAN, Goes(m, disconnect)
    PROVE  DisplayInv'
  <1> DEFINE type == IF disconnect THEN "LOST" ELSE "LEFT"
             v == [offline |-> TRUE, last |-> type]
             w == IF disconnect THEN "lost" ELSE "left"
  <1>1. /\ m \in DOMAIN rec /\ RecOK(rec) /\ NotedOK(noted, life) /\ life \in Life
        /\ UNCHANGED <<loop, task, panel, recent, now>>
    BY DisplayParts DEF Goes
  <1>2. v \in Note /\ v.offline /\ type \in {"JOIN", "REJOIN", "LEFT", "LOST", "TIMEOUT"}
    <2>1. [type |-> type, of |-> m] \in Event
      BY DEF Event
    <2> QED
      BY <2>1 DEF Note
  <1>3. CASE Offline(m, disconnect)
    <2> DEFINE x == [on |-> FALSE, seen |-> IF rec[m].seen = 0 THEN now ELSE rec[m].seen]
    <2>1. x \in Record
      BY <1>1, DisplayParts, DisplayAssumption DEF Record, RecOK
    <2>2. rec' = [rec EXCEPT ![m] = x]
      BY <1>3 DEF Goes
    <2> HIDE DEF x
    <2>3. RecOK(rec')
      BY <1>1, <2>1, <2>2 DEF RecOK
    <2>4. noted' = (IF HasSlot(m) THEN Put(noted, m, v) ELSE noted) /\ Show(type, m)
      BY <1>3 DEF Goes, NoteOffline
    <2>5. life' \in Life /\ \A c \in Mate : c # m => life'[c] = life[c]
      <3>1. life' = life \/ life' = [life EXCEPT ![m] = w]
        BY DEF Goes
      <3> QED
        BY <1>1, <3>1 DEF Life
    <2> HIDE DEF v, type, w
    <2>6. NotedOK(noted', life')
      <3> DEFINE n == IF HasSlot(m) THEN Put(noted, m, v) ELSE noted
      <3>1. NotedOK(n, life)
        BY <1>1, <1>2, NotedFits
      <3>2. m \in DOMAIN n => n[m].offline
        BY <1>2 DEF HasSlot, Put
      <3>3. DOMAIN n \subseteq Mate
        BY <3>1 DEF NotedOK
      <3> HIDE DEF n
      <3>4. NotedOK(n, life')
        BY <2>5, <3>1, <3>2, <3>3, LifeChanges
      <3> QED
        BY <2>4, <3>4 DEF n
    <2>7. event' \in Written /\ event'.dirty
      BY <1>2, <2>4, ShowWrites
    <2>8. Refresh /\ lastOnline' = CountsOf(rec').on
      BY <1>3 DEF Goes
    <2>9. status' \in WrittenCounts /\ status'.dirty /\ lastOnline' \in 0 .. Records
      BY <2>3, <2>8, RefreshWrites, CountsFit
    <2>10. NothingForgotten' /\ CopiedIsLast'
      BY <1>1, <2>7, <2>9, WrittenNotForgotten
    <2> QED
      BY <1>1, <2>3, <2>5, <2>6, <2>7, <2>9, <2>10, DisplayParts, DisplayPartsNext
  <1>4. CASE ~Offline(m, disconnect)
    <2>1. UNCHANGED <<rec, noted, event, lastOnline, status>>
      BY <1>4 DEF Goes
    <2>2. /\ life' \in Life
          /\ \A c \in DOMAIN noted : life'[c] = life[c] \/ noted[c].offline
      <3>1. DOMAIN noted \subseteq Mate /\ (m \in DOMAIN noted /\ noted[m].last = "LEFT" => noted[m].offline)
        BY <1>1 DEF NotedOK
      <3>2. CASE disconnect
        <4>1. m \in DOMAIN noted /\ noted[m].last = "LEFT"
          BY <1>4, <3>2 DEF Offline
        <4>2. life' = [life EXCEPT ![m] = "lost"]
          BY <3>2 DEF Goes
        <4> QED
          BY <1>1, <3>1, <4>1, <4>2 DEF Life
      <3>3. CASE ~disconnect
        <4>1. life' = life
          BY <1>4, <3>3 DEF Offline, Goes
        <4> QED
          BY <1>1, <4>1
      <3> QED
        BY <3>2, <3>3
    <2>3. NotedOK(noted, life')
      BY <1>1, <2>2, LifeChanges
    <2>4. NothingForgotten' /\ CopiedIsLast'
      BY <1>1, <2>1, WrittenNotForgotten
    <2> QED
      BY <1>1, <2>1, <2>2, <2>3, <2>4, DisplayParts, DisplayPartsNext
  <1> QED
    BY <1>3, <1>4

(* The steps that touch nothing but the records, and a tick that marks the  *)
(* silent.                                                                  *)
LEMMA RecordsOK ==
    ASSUME DisplayInv, RecOK(rec'), UNCHANGED <<noted, lastOnline, loop, event, status, task, panel, recent, now, life>>
    PROVE  DisplayInv'
  <1>1. NothingForgotten' /\ CopiedIsLast'
    BY WrittenNotForgotten
  <1> QED
    BY <1>1, DisplayParts, DisplayPartsNext

LEMMA ForgetOK ==
    ASSUME DisplayInv, ForgetOffline
    PROVE  DisplayInv'
  <1> DEFINE S == {m \in DOMAIN rec : rec[m].on}
  <1>1. RecOK(rec) /\ rec' = Restrict(rec, S)
    BY DisplayParts DEF ForgetOffline
  <1>2. S \in SUBSET DOMAIN rec
    OBVIOUS
  <1> HIDE DEF S
  <1>3. DOMAIN rec' = S /\ \A m \in S : rec'[m] = rec[m]
    BY <1>1 DEF Restrict
  <1>4. Cardinality(S) =< Records
    BY <1>1, <1>2, Slotted, DisplayAssumption DEF RecOK
  <1>5. RecOK(rec')
    BY <1>1, <1>2, <1>3, <1>4 DEF RecOK
  <1> QED
    BY <1>5, RecordsOK DEF ForgetOffline

LEMMA AllowListOK ==
    ASSUME DisplayInv, NEW ms \in SUBSET Mate, Cardinality(ms) =< Records, AllowList(ms)
    PROVE  DisplayInv'
  <1>1. RecOK(rec')
    <2>1. RecOK(rec)
      BY DisplayParts
    <2>2. [on |-> FALSE, seen |-> 0] \in Record
      BY DisplayAssumption DEF Record
    <2>3. DOMAIN rec' = ms
      BY DEF AllowList
    <2>4. \A m \in ms : rec'[m] = IF m \in DOMAIN rec THEN rec[m] ELSE [on |-> FALSE, seen |-> 0]
      BY DEF AllowList
    <2> QED
      BY <2>1, <2>2, <2>3, <2>4 DEF RecOK
  <1> QED
    BY <1>1, RecordsOK DEF AllowList

LEMMA TickOK ==
    ASSUME DisplayInv, NEW spared, Tick(spared)
    PROVE  DisplayInv'
  <1> DEFINE gone == {m \in DOMAIN rec : Expired(m)} \ spared
  <1>1. RecOK(rec) /\ NotedOK(noted, life) /\ life \in Life
    BY DisplayParts
  <1>2. /\ UNCHANGED <<noted, lastOnline, event, status, task, panel, recent, now>> /\ loop' = "ticked"
        /\ rec' = [m \in DOMAIN rec |-> [rec[m] EXCEPT !.on = @ /\ m \notin gone]]
        /\ life' = [m \in Mate |-> IF m \in gone THEN "silent" ELSE life[m]]
    BY DEF Tick
  <1> HIDE DEF gone
  <1>3. RecOK(rec')
    <2>1. DOMAIN rec' = DOMAIN rec
      BY <1>2
    <2>2. ASSUME NEW m \in DOMAIN rec PROVE rec'[m] \in Record
      <3>1. rec[m] \in Record
        BY <1>1 DEF RecOK
      <3>2. rec'[m] = [rec[m] EXCEPT !.on = @ /\ m \notin gone]
        BY <1>2
      <3>3. (rec[m].on /\ m \notin gone) \in BOOLEAN
        OBVIOUS
      <3> QED
        BY <3>1, <3>2, <3>3 DEF Record
    <2> QED
      BY <1>1, <2>1, <2>2 DEF RecOK
  <1>4. life' \in Life /\ \A m \in Mate : life'[m] = life[m] \/ life'[m] = "silent"
    BY <1>1, <1>2 DEF Life
  <1>5. NotedOK(noted, life')
    <2>1. DOMAIN noted \subseteq Mate
      BY <1>1 DEF NotedOK
    <2> QED
      BY <1>1, <1>4, <2>1, LifeChanges
  <1>6. NothingForgotten' /\ CopiedIsLast'
    BY <1>2, WrittenNotForgotten
  <1> QED
    BY <1>2, <1>3, <1>4, <1>5, <1>6, DisplayParts, DisplayPartsNext

LEMMA AlertedOK ==
    ASSUME DisplayInv, NEW m \in Mate, Alerted(m)
    PROVE  DisplayInv'
  <1>1. RecOK(rec) /\ NotedOK(noted, life) /\ life \in Life
    BY DisplayParts
  <1>2. /\ UNCHANGED <<rec, lastOnline, loop, status, task, panel, recent, now, life>>
        /\ NoteOffline(m, "TIMEOUT") /\ Show("TIMEOUT", m)
    BY DEF Alerted
  <1> DEFINE v == [offline |-> TRUE, last |-> "TIMEOUT"]
  <1>3. v \in Note /\ v.offline
    <2>1. [type |-> "TIMEOUT", of |-> m] \in Event
      BY DEF Event
    <2> QED
      BY <2>1 DEF Note
  <1>4. noted' = IF HasSlot(m) THEN Put(noted, m, v) ELSE noted
    BY <1>2 DEF NoteOffline
  <1> HIDE DEF v
  <1>5. NotedOK(noted', life)
    BY <1>1, <1>3, <1>4, NotedFits
  <1>6. event' \in Written /\ event'.dirty
    BY <1>2, ShowWrites
  <1>7. NothingForgotten' /\ CopiedIsLast'
    BY <1>2, <1>6, WrittenNotForgotten
  <1> QED
    BY <1>1, <1>2, <1>5, <1>6, <1>7, DisplayParts, DisplayPartsNext

LEMMA NoteDeltaOK ==
    ASSUME DisplayInv, NoteDelta
    PROVE  DisplayInv'
  <1>1. RecOK(rec) /\ NotedOK(noted, life) /\ life \in Life
    BY DisplayParts
  <1>2. /\ UNCHANGED <<rec, task, panel, recent, now, life>> /\ loop' = "tick"
        /\ lastOnline' \in 0 .. Records
    BY <1>1, CountsFit DEF NoteDelta
  <1>3. \/ UNCHANGED <<noted, event, status>>
        \/ \E m \in LatestLost : NoteOffline(m, "TIMEOUT") /\ Show("TIMEOUT", m) /\ ShowNoCounts
    BY DEF NoteDelta
  <1>4. /\ NotedOK(noted', life) /\ event' \in Written /\ status' \in WrittenCounts
        /\ event' = event \/ event'.dirty
        /\ status' = status \/ status'.dirty
    <2>1. CASE UNCHANGED <<noted, event, status>>
      BY <1>1, <2>1, DisplayParts
    <2>2. ASSUME NEW m \in LatestLost, NoteOffline(m, "TIMEOUT"), Show("TIMEOUT", m), ShowNoCounts
          PROVE  /\ NotedOK(noted', life) /\ event' \in Written /\ status' \in WrittenCounts
                 /\ event'.dirty /\ status'.dirty
      <3> DEFINE v == [offline |-> TRUE, last |-> "TIMEOUT"]
      <3>1. m \in Mate
        BY <1>1 DEF LatestLost, RecOK
      <3>2. v \in Note /\ v.offline
        <4>1. [type |-> "TIMEOUT", of |-> m] \in Event
          BY <3>1 DEF Event
        <4> QED
          BY <4>1 DEF Note
      <3>3. noted' = IF HasSlot(m) THEN Put(noted, m, v) ELSE noted
        BY <2>2 DEF NoteOffline
      <3> HIDE DEF v
      <3>4. NotedOK(noted', life)
        BY <1>1, <3>1, <3>2, <3>3, NotedFits
      <3>5. event' \in Written /\ event'.dirty
        BY <2>2, <3>1, ShowWrites
      <3>6. status' \in WrittenCounts /\ status'.dirty
        BY <2>2, DisplayParts DEF ShowNoCounts, WrittenCounts
      <3> QED
        BY <3>4, <3>5, <3>6
    <2> QED
      BY <1>3, <2>1, <2>2
  <1> QED
    BY <1>1, <1>2, <1>4, WrittenNotForgotten, DisplayParts, DisplayPartsNext

LEMMA CopiesOK ==
    ASSUME DisplayInv, Copies
    PROVE  DisplayInv'
  <1>1. event \in Written /\ status \in WrittenCounts /\ panel \in Panel /\ NothingForgotten /\ ~task.busy
    BY DisplayParts DEF Copies
  <1>2. /\ event' \in Written /\ event'.show = event.show
        /\ status' \in WrittenCounts /\ status'.show = status.show
    BY <1>1 DEF Copies, Written, WrittenCounts
  <1>3. /\ task' = [busy |-> TRUE, event |-> event.show, draws |-> event.dirty,
                    status |-> status.show, counts |-> status.dirty]
        /\ UNCHANGED <<rec, noted, lastOnline, loop, panel, recent, now, life>>
    BY DEF Copies
  <1>4. task' \in Tasks
    BY <1>1, <1>3 DEF Tasks, Written, WrittenCounts
  <1>5. CopiedIsLast'
    BY <1>1, <1>2, <1>3 DEF CopiedIsLast, NothingForgotten
  <1>6. NothingForgotten'
    BY <1>3 DEF NothingForgotten
  <1> QED
    BY <1>2, <1>3, <1>4, <1>5, <1>6, DisplayParts, DisplayPartsNext

LEMMA DrawsOK ==
    ASSUME DisplayInv, Draws
    PROVE  DisplayInv'
  <1>1. /\ task.busy /\ task \in Tasks /\ event \in Written /\ status \in WrittenCounts
        /\ panel \in Panel /\ CopiedIsLast /\ recent \in BOOLEAN
    BY DisplayParts DEF Draws
  <1>2. /\ task.event \in Shown /\ task.draws \in BOOLEAN
        /\ task.status \in Counts /\ task.counts \in BOOLEAN
    <2>1. task # [busy |-> FALSE]
      BY <1>1
    <2>2. task \in [busy : {TRUE}, event : Shown, draws : BOOLEAN, status : Counts, counts : BOOLEAN]
      BY <1>1, <2>1 DEF Tasks
    <2> QED
      BY <2>2
  <1>3. /\ panel' = [event |-> EventDrawn, status |-> StatusDrawn] /\ status' = LeavesEarly
        /\ recent' = (recent \/ task.counts) /\ task' = [busy |-> FALSE]
        /\ UNCHANGED <<rec, noted, lastOnline, loop, event, now, life>>
    BY DEF Draws
  <1>4. panel' \in Panel
    BY <1>1, <1>2, <1>3 DEF Panel, EventDrawn, StatusDrawn
  <1>5. status' \in WrittenCounts /\ status'.show = status.show
        /\ (status'.dirty = IF task.counts /\ recent THEN TRUE ELSE status.dirty)
    BY <1>1, <1>3 DEF LeavesEarly, WrittenCounts
  <1>6. task' \in Tasks /\ ~task'.busy /\ recent' \in BOOLEAN
    BY <1>1, <1>2, <1>3 DEF Tasks
  <1>7. NothingForgotten'
    <2>1. ~event'.dirty => panel'.event = event'.show
      BY <1>1, <1>3 DEF EventDrawn, CopiedIsLast
    <2>2. ~status'.dirty => panel'.status = status'.show
      BY <1>1, <1>3, <1>5 DEF StatusDrawn, CopiedIsLast
    <2> QED
      BY <2>1, <2>2 DEF NothingForgotten
  <1>8. CopiedIsLast'
    BY <1>6 DEF CopiedIsLast
  <1> QED
    BY <1>3, <1>4, <1>5, <1>6, <1>7, <1>8, DisplayParts, DisplayPartsNext

LEMMA DisplayOthersOK ==
    ASSUME DisplayInv, Settles \/ TimePasses \/ UNCHANGED displayVars
    PROVE  DisplayInv'
  <1>1. /\ UNCHANGED <<rec, noted, lastOnline, loop, event, status, task, panel, life>>
        /\ recent' \in BOOLEAN /\ now' \in 1 .. MaxNow
    <2>1. recent \in BOOLEAN /\ now \in 1 .. MaxNow
      BY DisplayParts
    <2>2. CASE Settles
      BY <2>1, <2>2 DEF Settles
    <2>3. CASE TimePasses
      BY <2>1, <2>3, DisplayAssumption DEF TimePasses
    <2>4. CASE UNCHANGED displayVars
      BY <2>1, <2>4 DEF displayVars
    <2> QED
      BY <2>2, <2>3, <2>4
  <1>2. NothingForgotten' /\ CopiedIsLast'
    BY <1>1, WrittenNotForgotten
  <1> QED
    BY <1>1, <1>2, DisplayParts, DisplayPartsNext

LEMMA DisplayStarts == DisplayInit => DisplayInv
  <1> SUFFICES ASSUME DisplayInit PROVE DisplayInv
    OBVIOUS
  <1>1. DOMAIN rec = {} /\ DOMAIN noted = {} /\ Cardinality({}) = 0
    BY FS_EmptySet DEF DisplayInit
  <1>2. RecOK(rec) /\ NotedOK(noted, life)
    BY <1>1, DisplayAssumption DEF RecOK, NotedOK
  <1>3. [on |-> 0, off |-> 0] \in Counts
    BY DisplayAssumption DEF Counts
  <1>4. event \in Written /\ status \in WrittenCounts /\ panel \in Panel /\ task \in Tasks
    BY <1>3 DEF DisplayInit, Written, WrittenCounts, Panel, Tasks, Shown
  <1>5. NothingForgotten /\ CopiedIsLast
    BY DEF DisplayInit, NothingForgotten, CopiedIsLast
  <1>6. life \in Life /\ loop \in {"tick", "ticked"} /\ recent \in BOOLEAN
    BY DEF DisplayInit, Life
  <1>7. lastOnline \in 0 .. Records /\ now \in 1 .. MaxNow
    BY DisplayAssumption DEF DisplayInit
  <1> QED
    BY <1>2, <1>4, <1>5, <1>6, <1>7, DisplayParts

(* Who leaves or is lost stays noted as offline until it is heard again     *)
(* (team_leader_mark_member_offline), and no event or count that was        *)
(* written is lost between the callbacks and the task that draws, however   *)
(* they interleave (team_display_flush_pending_once).                       *)
THEOREM ScreenIsRight == DisplaySpec => []DisplaySafety
  <1>1. DisplayInv /\ [DisplayNext]_displayVars => DisplayInv'
    BY HelloOK, ReportOK, AlertedOK, GoesOK, ForgetOK, AllowListOK, TickOK, NoteDeltaOK, CopiesOK, DrawsOK,
       DisplayOthersOK DEF DisplayNext
  <1>2. DisplayInv => DisplaySafety
    BY DEF DisplayInv
  <1> QED
    BY <1>1, <1>2, DisplayStarts, PTL DEF DisplaySpec
-----------------------------------------------------------------------------
(* The scan.                                                                *)

StepSpares ==
    \A i \in bound : conns[i] \in Online /\ conns'[i] = Free => table'[conns[i]] # "online"
Scanned == ScanTypeOK' /\ StepSpares

LEMMA ScanStarts == ScanInit => ScanTypeOK
  <1> SUFFICES ASSUME ScanInit PROVE ScanTypeOK
    OBVIOUS
  <1>1. rotate \in 0 .. MaxConn - 1
    BY ScanAssumption DEF ScanInit
  <1>2. /\ table \in [Talker -> {"none", "pending", "offline", "online"}]
        /\ relays \subseteq Online /\ allowed \subseteq Talker /\ sought \subseteq Talker
        /\ pairing \in BOOLEAN /\ conns \in [ConnSlots -> Talker \cup {Silent, Free}] /\ bound \subseteq Used
    BY DEF ScanInit
  <1> QED
    BY <1>1, <1>2 DEF ScanTypeOK

LEMMA SlotsFit ==
    ASSUME ScanTypeOK, Used # {}
    PROVE  Cardinality(Used) \in 1 .. MaxConn
  <1>1. Used \subseteq 1 .. MaxConn
    BY DEF Used, ConnSlots
  <1>2. IsFiniteSet(1 .. MaxConn) /\ Cardinality(1 .. MaxConn) = MaxConn
    BY FS_Interval, ScanAssumption
  <1>3. IsFiniteSet(Used) /\ Cardinality(Used) =< MaxConn
    BY <1>1, <1>2, FS_Subset
  <1> QED
    BY <1>3, FS_CardinalityType, FS_EmptySet, ScanAssumption

(* What each step keeps of the connections.                                 *)
ConnsOK(cs, b) ==
    /\ cs \in [ConnSlots -> Talker \cup {Silent, Free}]
    /\ b \subseteq {i \in ConnSlots : cs[i] # Free}
TableOK(t, rs, al) ==
    /\ t \in [Talker -> {"none", "pending", "offline", "online"}]
    /\ al \subseteq Talker
    /\ rs \subseteq {d \in Talker : t[d] = "online"}
Rotation == 0 .. MaxConn - 1

LEMMA ScanParts ==
    ScanTypeOK <=> /\ TableOK(table, relays, allowed) /\ sought \subseteq Talker /\ pairing \in BOOLEAN
                /\ ConnsOK(conns, bound) /\ rotate \in Rotation
  BY Zenon DEF ScanTypeOK, Online, Used, ConnsOK, TableOK, Rotation

LEMMA ScanPartsNext ==
    ScanTypeOK' <=> /\ TableOK(table', relays', allowed') /\ sought' \subseteq Talker /\ pairing' \in BOOLEAN
                 /\ ConnsOK(conns', bound') /\ rotate' \in Rotation
  BY Zenon DEF ScanTypeOK, Online, Used, ConnsOK, TableOK, Rotation

(* A connection that goes leaves the others.                                *)
LEMMA ConnGoes ==
    ASSUME ConnsOK(conns, bound), NEW i
    PROVE  ConnsOK([conns EXCEPT ![i] = Free], bound \ {i})
  BY DEF ConnsOK

LEMMA NobodyIsCut ==
    ASSUME conns' = conns, ConnsOK(conns, bound)
    PROVE  StepSpares
  BY DEF StepSpares, ConnsOK

LEMMA RotateOK ==
    ASSUME ScanTypeOK, Rotate
    PROVE  Scanned
  <1>1. /\ TableOK(table, relays, allowed) /\ sought \subseteq Talker /\ pairing \in BOOLEAN
        /\ ConnsOK(conns, bound) /\ rotate \in Rotation
        /\ UNCHANGED <<table, relays, allowed, pairing, sought>>
    BY ScanParts DEF Rotate
  <1>3. ASSUME TooMany(Cardinality(Kept)), NEW n \in Cuts(rotate),
               conns' = [conns EXCEPT ![Nth(n)] = Free], bound' = bound \ {Nth(n)},
               rotate' = (n + 1) % Cardinality(Used)
        PROVE  Scanned
    <2> DEFINE k == Nth(n)
               count == Cardinality(Used)
    <2>1. k \notin Kept
      BY <1>3 DEF Cuts
    <2>2. count \in 1 .. MaxConn
      <3>1. Used # {}
        <4>1. Cardinality(Used) > Keep
          BY <1>3 DEF TooMany
        <4> QED
          BY <4>1, FS_EmptySet, ScanAssumption
      <3> QED
        BY <3>1, SlotsFit
    <2>3. \E j \in 0 .. count - 1 : n = (rotate + j) % count
      BY <1>3 DEF Cuts
    <2> HIDE DEF k, count
    <2>4. n \in Nat
      BY <1>1, <2>2, <2>3, ScanAssumption DEF Rotation
    <2>5. (n + 1) % count \in 0 .. MaxConn - 1
      BY <2>2, <2>4, ScanAssumption
    <2>6. rotate' \in Rotation
      BY <1>3, <2>5 DEF Rotation, count
    <2>7. ConnsOK(conns', bound')
      BY <1>1, <1>3, ConnGoes
    <2>8. StepSpares
      <3>1. ASSUME NEW i \in bound, conns[i] \in Online, conns'[i] = Free PROVE FALSE
        <4>1. i \in ConnSlots /\ conns[i] # Free
          BY <1>1 DEF ConnsOK
        <4>2. i = k
          BY <1>1, <1>3, <3>1, <4>1 DEF ConnsOK, k
        <4>3. i \in Kept
          BY <3>1 DEF Kept, Admitted, Online
        <4> QED
          BY <2>1, <4>2, <4>3
      <3> QED
        BY <3>1 DEF StepSpares
    <2> QED
      BY <1>1, <2>6, <2>7, <2>8, ScanPartsNext DEF Scanned
  <1> QED
    BY <1>3 DEF Rotate

LEMMA GoneOK ==
    ASSUME ScanTypeOK, NEW d \in Online, Gone(d)
    PROVE  TableOK(table', relays', allowed) /\ sought' \subseteq Talker /\ table'[d] = "offline"
  <1>1. TableOK(table, relays, allowed) /\ sought \subseteq Talker
    BY ScanParts
  <1>2. d \in Talker /\ table[d] = "online"
    BY DEF Online
  <1>3. table' = [table EXCEPT ![d] = "offline"] /\ relays' = relays \ {d}
    BY DEF Gone
  <1>4. TableOK(table', relays', allowed) /\ table'[d] = "offline"
    BY <1>1, <1>2, <1>3 DEF TableOK
  <1>5. sought' \subseteq Talker
    BY <1>1, <1>2 DEF Gone
  <1> QED
    BY <1>4, <1>5

LEMMA ScanLinkDownOK ==
    ASSUME ScanTypeOK, NEW i \in ConnSlots, LinkDown(i)
    PROVE  Scanned
  <1> DEFINE d == conns[i]
  <1>1. /\ TableOK(table, relays, allowed) /\ sought \subseteq Talker /\ pairing \in BOOLEAN
        /\ ConnsOK(conns, bound) /\ rotate \in Rotation
    BY ScanParts
  <1>2. /\ conns' = [conns EXCEPT ![i] = Free] /\ bound' = bound \ {i}
        /\ UNCHANGED <<allowed, pairing, rotate>>
        /\ IF d \in Online THEN Gone(d) ELSE UNCHANGED <<table, relays, sought>>
    BY DEF LinkDown
  <1> HIDE DEF d
  <1>3. TableOK(table', relays', allowed) /\ sought' \subseteq Talker /\ (d \in Online => table'[d] = "offline")
    BY <1>1, <1>2, GoneOK
  <1>4. ConnsOK(conns', bound')
    BY <1>1, <1>2, ConnGoes
  <1>5. StepSpares
    <2>1. ASSUME NEW j \in bound, conns[j] \in Online, conns'[j] = Free PROVE table'[conns[j]] # "online"
      <3>1. j = i
        BY <1>1, <1>2, <2>1 DEF ConnsOK
      <3> QED
        BY <1>3, <2>1, <3>1 DEF d
    <2> QED
      BY <2>1 DEF StepSpares
  <1> QED
    BY <1>1, <1>2, <1>3, <1>4, <1>5, ScanPartsNext DEF Scanned

LEMMA ConnectOK ==
    ASSUME ScanTypeOK, NEW d \in Talker \cup {Silent}, Connect(d)
    PROVE  Scanned
  <1>1. /\ TableOK(table, relays, allowed) /\ sought \subseteq Talker /\ pairing \in BOOLEAN
        /\ ConnsOK(conns, bound) /\ rotate \in Rotation
        /\ UNCHANGED <<table, relays, allowed, pairing, sought, bound, rotate>>
    BY ScanParts DEF Connect
  <1>2. PICK i \in ConnSlots \ Used : conns' = [conns EXCEPT ![i] = d]
    BY DEF Connect
  <1>3. ConnsOK(conns', bound')
    BY <1>1, <1>2, ScanAssumption DEF ConnsOK, Free
  <1>4. StepSpares
    BY <1>1, <1>2, <1>3 DEF StepSpares, ConnsOK
  <1> QED
    BY <1>1, <1>3, <1>4, ScanPartsNext DEF Scanned

LEMMA SaysOK ==
    ASSUME ScanTypeOK, NEW i \in ConnSlots, Speak(i) \/ ReportsIn(i) \/ Unanswered(i)
    PROVE  Scanned
  <1> DEFINE d == conns[i]
  <1>1. /\ TableOK(table, relays, allowed) /\ sought \subseteq Talker /\ pairing \in BOOLEAN
        /\ ConnsOK(conns, bound) /\ rotate \in Rotation
    BY ScanParts
  <1>2. /\ d \in Talker /\ d # Free
        /\ bound' = bound \cup {i} /\ UNCHANGED <<relays, allowed, pairing, sought, conns, rotate>>
    BY ScanAssumption DEF Speak, ReportsIn, Unanswered, Free
  <1>3. ConnsOK(conns', bound')
    BY <1>1, <1>2 DEF ConnsOK
  <1>4. \/ table' = table
        \/ \E to \in {"pending", "online", table[d]} :
              table' = [table EXCEPT ![d] = to] /\ (to = "pending" => d \notin Recorded)
    <2>1. CASE Speak(i)
      <3>1. CASE Stages(d) /\ StageRoom(d)
        <4>1. table' = [table EXCEPT ![d] = "pending"] /\ d \notin Recorded
          BY <2>1, <3>1 DEF Speak, Stages
        <4> QED
          BY <4>1
      <3>2. CASE ~Stages(d) /\ LetsIn(d) /\ HasRoom(d)
        <4>1. table' = [table EXCEPT ![d] = "online"]
          BY <2>1, <3>2 DEF Speak
        <4> QED
          BY <4>1
      <3>3. CASE (Stages(d) /\ ~StageRoom(d)) \/ ~(Stages(d) \/ (LetsIn(d) /\ HasRoom(d)))
        <4>1. table' = [table EXCEPT ![d] = table[d]]
          BY <2>1, <3>3 DEF Speak
        <4> QED
          BY <1>1, <4>1 DEF TableOK
      <3> QED
        BY <3>1, <3>2, <3>3
    <2>2. CASE ReportsIn(i)
      <3>1. table' = [table EXCEPT ![d] = IF HasRoom(d) THEN "online" ELSE table[d]]
        BY <2>2 DEF ReportsIn
      <3> QED
        BY <1>1, <3>1 DEF TableOK
    <2>3. CASE Unanswered(i)
      BY <2>3 DEF Unanswered
    <2> QED
      BY <2>1, <2>2, <2>3
  <1> HIDE DEF d
  <1>5. TableOK(table', relays', allowed')
    <2>1. CASE table' = table
      BY <1>1, <1>2, <2>1
    <2>2. CASE table' # table
      <3>1. PICK to \in {"pending", "online", table[d]} :
              table' = [table EXCEPT ![d] = to] /\ (to = "pending" => d \notin Recorded)
        BY <1>4, <2>2
      <3> QED
        BY <1>1, <1>2, <3>1 DEF TableOK, Recorded
    <2> QED
      BY <2>1, <2>2
  <1> QED
    BY <1>1, <1>2, <1>3, <1>5, ScanPartsNext, NobodyIsCut DEF Scanned

(* The steps that leave the connections alone.                              *)
LEMMA ScanOthersOK ==
    ASSUME ScanTypeOK, UNCHANGED <<conns, bound>>, TableOK(table', relays', allowed'),
           sought' \subseteq Talker, pairing' \in BOOLEAN, rotate' \in Rotation
    PROVE  Scanned
  BY ScanParts, ScanPartsNext, NobodyIsCut DEF Scanned

LEMMA OperatorOK ==
    ASSUME ScanTypeOK,
           \/ PairingStart \/ PairingStop \/ FailoverEnds
           \/ \E d \in Talker : Expire(d) \/ Approve(d) \/ Grant(d) \/ RemoveMember(d)
    PROVE  Scanned
  <1>1. /\ TableOK(table, relays, allowed) /\ sought \subseteq Talker /\ pairing \in BOOLEAN
        /\ ConnsOK(conns, bound) /\ rotate \in Rotation
    BY ScanParts
  <1>2. CASE PairingStart
    <2>1. TableOK(table', relays', allowed')
      BY <1>1, <1>2 DEF PairingStart, TableOK
    <2>2. rotate' \in Rotation
      BY <1>2, ScanAssumption DEF PairingStart, Rotation
    <2> QED
      BY <1>1, <1>2, <2>1, <2>2, ScanOthersOK DEF PairingStart
  <1>3. CASE PairingStop
    <2>1. PICK fit \in SUBSET Staged :
                 /\ table' = [d \in Talker |-> IF d \in fit THEN "online" ELSE table[d]]
                 /\ allowed' = allowed \cup Recorded \cup fit
      BY <1>3 DEF PairingStop
    <2>2. TableOK(table', relays, allowed')
      BY <1>1, <2>1 DEF TableOK, Staged, Recorded
    <2>3. rotate' \in Rotation
      BY <1>3, ScanAssumption DEF PairingStop, Rotation
    <2>4. UNCHANGED <<relays, sought, conns, bound>> /\ pairing' = FALSE
      BY <1>3 DEF PairingStop
    <2> QED
      BY <1>1, <2>2, <2>3, <2>4, ScanOthersOK
  <1>4. CASE FailoverEnds
    BY <1>1, <1>4, ScanOthersOK DEF FailoverEnds
  <1>6. ASSUME NEW d \in Talker, Expire(d) PROVE Scanned
    BY <1>1, <1>6, GoneOK, ScanOthersOK DEF Expire
  <1>7. ASSUME NEW d \in Talker, Approve(d) PROVE Scanned
    <2>1. TableOK(table', relays', allowed')
      BY <1>1, <1>7 DEF Approve, TableOK, Staged
    <2> QED
      BY <1>1, <1>7, <2>1, ScanOthersOK DEF Approve
  <1>8. ASSUME NEW d \in Talker, Grant(d) PROVE Scanned
    <2>1. TableOK(table', relays', allowed')
      BY <1>1, <1>8 DEF Grant, TableOK, Online
    <2> QED
      BY <1>1, <1>8, <2>1, ScanOthersOK DEF Grant
  <1>9. ASSUME NEW d \in Talker, RemoveMember(d) PROVE Scanned
    <2>1. TableOK(table', relays', allowed')
      BY <1>1, <1>9 DEF RemoveMember, TableOK
    <2> QED
      BY <1>1, <1>9, <2>1, ScanOthersOK DEF RemoveMember
  <1> QED
    BY <1>2, <1>3, <1>4, <1>6, <1>7, <1>8, <1>9

(* A member that is online and was heard over a connection is never cut to  *)
(* make room (team_leader_pairing_rotate_connections), for any number of    *)
(* connections, records and devices: the rotation index stays within the    *)
(* table.                                                                   *)
THEOREM RotationSparesMembers == ScanSpec => ScanSafety
  <1>1. ScanTypeOK /\ [ScanNext]_scanVars => ScanTypeOK' /\ [StepSpares]_scanVars
    <2>1. ASSUME ScanTypeOK, ScanNext PROVE ScanTypeOK' /\ StepSpares
      <3>1. Scanned
        BY <2>1, RotateOK, ScanLinkDownOK, ConnectOK, SaysOK, OperatorOK DEF ScanNext
      <3> QED
        BY <3>1 DEF Scanned
    <2>2. ASSUME ScanTypeOK, UNCHANGED scanVars PROVE ScanTypeOK'
      BY <2>2, ScanParts, ScanPartsNext DEF scanVars
    <2> QED
      BY <2>1, <2>2
  <1>2. ScanSpec => []ScanTypeOK
    BY <1>1, ScanStarts, PTL DEF ScanSpec
  <1>3. ScanSpec => MembersNotRotated
    BY <1>1, <1>2, PTL DEF ScanSpec, MembersNotRotated, StepSpares
  <1> QED
    BY <1>2, <1>3, PTL DEF ScanSafety
-----------------------------------------------------------------------------
(* The hints.  Least numbers, and what holds up to a number: a round is an  *)
(* induction over the member table.                                         *)

LEMMA Least ==
    ASSUME NEW T, T \subseteq Nat, T # {}
    PROVE  \E x \in T : \A y \in T : x =< y
  <1> DEFINE R == OpToRel(<, Nat)
  <1>1. IsWellFoundedOn(R, Nat)
    BY NatLessThanWellFounded
  <1>2. \A i, j \in Nat : i < j => <<i, j>> \in R
    BY DEF OpToRel
  <1> HIDE DEF R
  <1>3. PICK x \in T : \A y \in T : <<y, x>> \notin R
    BY <1>1, WFMin
  <1>4. \A y \in T : x =< y
    <2> SUFFICES ASSUME NEW y \in T
                 PROVE  x =< y
      OBVIOUS
    <2>1. x \in Nat /\ y \in Nat /\ ~(y < x)
      BY <1>2, <1>3
    <2> QED BY <2>1
  <1> QED BY <1>4

LEMMA UpTo ==
    ASSUME NEW n \in Nat, NEW S, 0 \in S,
           \A k \in 0 .. n : k + 1 =< n /\ k \in S => k + 1 \in S
    PROVE  0 .. n \subseteq S
  <1> DEFINE Bad == 0 .. n \ S
  <1> SUFFICES ASSUME Bad # {} PROVE FALSE
    OBVIOUS
  <1>1. PICK x \in Bad : \A y \in Bad : x =< y
    <2>1. Bad \subseteq Nat
      OBVIOUS
    <2> HIDE DEF Bad
    <2> QED BY <2>1, Least
  <1>2. x \in 0 .. n /\ x \notin S /\ x # 0
    BY <1>1
  <1>3. x - 1 \in 0 .. n /\ ~(x =< x - 1) /\ x - 1 + 1 = x /\ x =< n
    BY <1>2
  <1>4. x - 1 \in S
    BY <1>1, <1>3
  <1> QED BY <1>2, <1>3, <1>4
-----------------------------------------------------------------------------
(* The cache.                                                               *)

Cache(hs) ==
    /\ DOMAIN hs \subseteq Member /\ Cardinality(DOMAIN hs) =< Slots
    /\ \A m \in DOMAIN hs : hs[m] \in [parent : Parent, age : 0 .. Cooldown]

LEMMA CacheFinite ==
    ASSUME NEW hs, Cache(hs)
    PROVE  IsFiniteSet(DOMAIN hs) /\ Cardinality(DOMAIN hs) \in Nat
  BY HintsAssumption, FS_Subset, FS_CardinalityType DEF Cache

LEMMA OldestIsOne ==
    ASSUME NEW hs, Cache(hs), DOMAIN hs # {}
    PROVE  /\ Oldest(hs) \in DOMAIN hs
           /\ \A d \in DOMAIN hs : hs[Oldest(hs)].age >= hs[d].age
  <1> DEFINE Left == {Cooldown - hs[c].age : c \in DOMAIN hs}
  <1>1. \A c \in DOMAIN hs : hs[c].age \in 0 .. Cooldown
    BY DEF Cache
  <1>2. Left \subseteq Nat
    BY <1>1, HintsAssumption
  <1>3. PICK x \in Left : \A y \in Left : x =< y
    <2>1. Left # {}
      OBVIOUS
    <2> HIDE DEF Left
    <2> QED BY <1>2, <2>1, Least
  <1>4. PICK c \in DOMAIN hs : x = Cooldown - hs[c].age
    BY <1>3
  <1>5. \A d \in DOMAIN hs : hs[c].age >= hs[d].age
    <2> SUFFICES ASSUME NEW d \in DOMAIN hs
                 PROVE  hs[c].age >= hs[d].age
      OBVIOUS
    <2>1. Cooldown - hs[c].age =< Cooldown - hs[d].age
      BY <1>3, <1>4
    <2>2. Cooldown \in Nat /\ hs[c].age \in Nat /\ hs[d].age \in Nat
      BY <1>1, HintsAssumption
    <2> QED BY <2>1, <2>2
  <1> QED BY <1>5 DEF Oldest

(* Who gives up a slot: nobody, or one of the oldest of a full cache.       *)
LEMMA EvictsOldest ==
    ASSUME NEW hs, Cache(hs), NEW m \in Member
    PROVE  /\ Evicted(hs, m) \subseteq DOMAIN hs /\ m \notin Evicted(hs, m)
           /\ Evicted(hs, m) # {} => m \notin DOMAIN hs /\ Cardinality(DOMAIN hs) = Slots
           /\ \A c \in Evicted(hs, m), d \in DOMAIN hs : hs[c].age >= hs[d].age
           /\ m \notin DOMAIN hs =>
                 Cardinality(DOMAIN hs \ Evicted(hs, m)) < Slots
           /\ m \notin DOMAIN hs /\ Cardinality(DOMAIN hs) = Slots =>
                 Cardinality(DOMAIN hs \ Evicted(hs, m)) = Slots - 1
  <1>1. Cardinality(DOMAIN hs) \in Nat /\ Cardinality(DOMAIN hs) =< Slots /\ Slots \in Nat \ {0}
    BY CacheFinite, HintsAssumption DEF Cache
  <1>2. CASE m \notin DOMAIN hs /\ Cardinality(DOMAIN hs) = Slots
    <2>1. Evicted(hs, m) = {Oldest(hs)}
      BY <1>2 DEF Evicted
    <2>2. DOMAIN hs # {}
      BY <1>1, <1>2, FS_EmptySet
    <2>3. /\ Oldest(hs) \in DOMAIN hs
          /\ \A d \in DOMAIN hs : hs[Oldest(hs)].age >= hs[d].age
      BY <2>2, OldestIsOne
    <2>4. Cardinality(DOMAIN hs \ {Oldest(hs)}) = Cardinality(DOMAIN hs) - 1
      BY <2>3, CacheFinite, FS_RemoveElement
    <2>5. Cardinality(DOMAIN hs \ Evicted(hs, m)) = Slots - 1
      BY <2>1, <2>4, <1>2
    <2>6. Slots - 1 < Slots
      BY <1>1
    <2> QED BY <2>1, <2>3, <2>5, <2>6, <1>2
  <1>3. CASE ~(m \notin DOMAIN hs /\ Cardinality(DOMAIN hs) = Slots)
    <2>1. Evicted(hs, m) = {}
      BY <1>3 DEF Evicted
    <2>2. DOMAIN hs \ Evicted(hs, m) = DOMAIN hs
      BY <2>1
    <2>3. m \notin DOMAIN hs => Cardinality(DOMAIN hs) < Slots
      BY <1>1, <1>3
    <2> QED BY <2>1, <2>2, <2>3, <1>3
  <1> QED BY <1>2, <1>3
LEMMA Marks ==
    ASSUME NEW hs, Cache(hs), NEW m \in Member, NEW p \in Parent
    PROVE  /\ DOMAIN MarkSent(hs, m, p) = (DOMAIN hs \ Evicted(hs, m)) \cup {m}
           /\ MarkSent(hs, m, p)[m] = [parent |-> p, age |-> 0]
           /\ \A c \in DOMAIN hs \ Evicted(hs, m) : c # m => MarkSent(hs, m, p)[c] = hs[c]
  BY DEF MarkSent

LEMMA MarkSentFits ==
    ASSUME NEW hs, Cache(hs), NEW m \in Member, NEW p \in Parent
    PROVE  /\ Cache(MarkSent(hs, m, p))
           /\ Cardinality(DOMAIN hs) = Slots => Cardinality(DOMAIN MarkSent(hs, m, p)) = Slots
  <1> DEFINE new == MarkSent(hs, m, p)
             kept == DOMAIN hs \ Evicted(hs, m)
  <1>1. /\ DOMAIN new = kept \cup {m}
        /\ new[m] = [parent |-> p, age |-> 0]
        /\ \A c \in kept : c # m => new[c] = hs[c]
    BY Marks
  <1>2. /\ IsFiniteSet(kept) /\ Cardinality(kept) \in Nat
        /\ Cardinality(kept) =< Cardinality(DOMAIN hs)
    BY CacheFinite, FS_Subset, FS_CardinalityType
  <1>3. Cardinality(DOMAIN hs) =< Slots /\ Slots \in Nat \ {0} /\ Cardinality(DOMAIN hs) \in Nat
    BY CacheFinite, HintsAssumption DEF Cache
  <1> HIDE DEF new, kept
  <1>4. m \in DOMAIN hs => DOMAIN new = DOMAIN hs
    <2>1. m \in DOMAIN hs => Evicted(hs, m) = {}
      BY EvictsOldest
    <2> QED BY <1>1, <2>1 DEF kept
  <1>5. m \notin DOMAIN hs => Cardinality(DOMAIN new) = Cardinality(kept) + 1
    <2>1. m \notin DOMAIN hs => m \notin kept
      BY DEF kept
    <2> QED BY <1>1, <1>2, <2>1, FS_AddElement
  <1>6. /\ Cardinality(DOMAIN new) =< Slots
        /\ Cardinality(DOMAIN hs) = Slots => Cardinality(DOMAIN new) = Slots
    <2>1. CASE m \in DOMAIN hs
      BY <2>1, <1>3, <1>4
    <2>2. CASE m \notin DOMAIN hs
      <3>1. /\ Cardinality(kept) < Slots
            /\ Cardinality(DOMAIN hs) = Slots => Cardinality(kept) = Slots - 1
        BY <2>2, EvictsOldest DEF kept
      <3> QED BY <1>2, <1>3, <1>5, <2>2, <3>1
    <2> QED BY <2>1, <2>2
  <1>7. \A c \in DOMAIN new : new[c] \in [parent : Parent, age : 0 .. Cooldown]
    <2>1. 0 \in 0 .. Cooldown
      BY HintsAssumption
    <2>2. new[m] \in [parent : Parent, age : 0 .. Cooldown]
      BY <1>1, <2>1
    <2>3. \A c \in kept : hs[c] \in [parent : Parent, age : 0 .. Cooldown]
      BY DEF Cache, kept
    <2> QED BY <1>1, <2>2, <2>3
  <1>8. DOMAIN new \subseteq Member
    BY <1>1 DEF Cache, kept
  <1> QED BY <1>6, <1>7, <1>8 DEF Cache, new

LEMMA StaysCrowded ==
    ASSUME NEW hs, Cache(hs), Crowded(hs), NEW m \in Member, NEW p \in Parent
    PROVE  Crowded(MarkSent(hs, m, p))
  <1> DEFINE new == MarkSent(hs, m, p)
  <1>1. Cardinality(DOMAIN new) = Slots
    BY MarkSentFits DEF Crowded
  <1>2. /\ DOMAIN new = (DOMAIN hs \ Evicted(hs, m)) \cup {m}
        /\ new[m] = [parent |-> p, age |-> 0]
        /\ \A c \in DOMAIN hs \ Evicted(hs, m) : c # m => new[c] = hs[c]
    BY Marks
  <1> HIDE DEF new
  <1>3. \A c \in DOMAIN new : new[c].age < Cooldown
    <2>1. new[m].age < Cooldown
      BY <1>2, HintsAssumption
    <2>2. \A c \in DOMAIN new : c # m => new[c].age < Cooldown
      BY <1>2 DEF Crowded, Fresh
    <2> QED BY <2>1, <2>2
  <1>4. Crowded(new)
    BY <1>1, <1>3 DEF Crowded, Fresh
  <1> QED BY <1>4 DEF new

(* Whoever gives up its slot while its hint is fresh leaves a crowd.        *)
LEMMA EvictsFromCrowd ==
    ASSUME NEW hs, Cache(hs), NEW m \in Member, NEW c \in Evicted(hs, m), Fresh(hs, c)
    PROVE  Crowded(hs)
  <1>1. Cardinality(DOMAIN hs) = Slots /\ c \in DOMAIN hs
    BY EvictsOldest
  <1>2. \A d \in DOMAIN hs : hs[c].age >= hs[d].age
    BY EvictsOldest
  <1>3. \A d \in DOMAIN hs : hs[d].age \in Nat
    BY DEF Cache
  <1>4. \A d \in DOMAIN hs : hs[d].age < Cooldown
    <2> SUFFICES ASSUME NEW d \in DOMAIN hs
                 PROVE  hs[d].age < Cooldown
      OBVIOUS
    <2>1. hs[c].age < Cooldown /\ hs[c].age >= hs[d].age /\ hs[c].age \in Nat /\ hs[d].age \in Nat /\ Cooldown \in Nat
      BY <1>1, <1>2, <1>3, HintsAssumption DEF Fresh
    <2> QED BY <2>1
  <1> QED BY <1>1, <1>4 DEF Crowded, Fresh
-----------------------------------------------------------------------------
(* A round.                                                                 *)

Newcomer(ts) == \E t \in ts : t[1] \notin DOMAIN hints
SoFar == [hints |-> hints, told |-> {}]

(* The cache in a round, and what was told in it: who was not told has the  *)
(* hint it had, or none.                                                    *)
InRound(s) ==
    /\ Cache(s.hints)
    /\ s.told \subseteq Member \X Parent
    /\ \A m \in DOMAIN s.hints :
          (\A t \in s.told : t[1] # m) => m \in DOMAIN hints /\ s.hints[m] = hints[m]
    /\ \A m \in DOMAIN s.hints : m \in DOMAIN hints /\ Fresh(hints, m) => Fresh(s.hints, m)
    /\ \A m \in DOMAIN hints : m \notin DOMAIN s.hints => Newcomer(s.told)
    /\ \A m \in DOMAIN hints :
          /\ Fresh(hints, m)
          /\ <<m, hints[m].parent>> \in s.told \/ m \notin DOMAIN s.hints
          => Crowded(s.hints) /\ Newcomer(s.told)

Untold(s, m) == \A t \in s.told : t[1] # m

LEMMA RoundBegins ==
    ASSUME Cache(hints)
    PROVE  InRound(SoFar)
  BY DEF InRound, SoFar

LEMMA TellsOne ==
    ASSUME Cache(hints), NEW s, InRound(s), NEW m \in Member, NEW p \in Parent,
           Untold(s, m), ShouldSend(s.hints, m, p)
    PROVE  InRound([hints |-> MarkSent(s.hints, m, p), told |-> s.told \cup {<<m, p>>}])
  <1> DEFINE hs == s.hints
             ts == s.told
             new == MarkSent(hs, m, p)
             out == ts \cup {<<m, p>>}
  <1>1. Cache(hs) /\ ts \subseteq Member \X Parent
    BY DEF InRound
  <1>2. Cache(new)
    BY <1>1, MarkSentFits
  <1>3. /\ DOMAIN new = (DOMAIN hs \ Evicted(hs, m)) \cup {m}
        /\ new[m] = [parent |-> p, age |-> 0]
        /\ \A c \in DOMAIN hs \ Evicted(hs, m) : c # m => new[c] = hs[c]
    BY <1>1, Marks
  <1>4. /\ Evicted(hs, m) \subseteq DOMAIN hs
        /\ Evicted(hs, m) # {} => m \notin DOMAIN hs
    BY <1>1, EvictsOldest
  <1>5. /\ \A c \in DOMAIN hs :
              (\A t \in ts : t[1] # c) => c \in DOMAIN hints /\ hs[c] = hints[c]
        /\ \A c \in DOMAIN hs : c \in DOMAIN hints /\ Fresh(hints, c) => Fresh(hs, c)
        /\ \A c \in DOMAIN hints : c \notin DOMAIN hs => Newcomer(ts)
        /\ \A c \in DOMAIN hints :
              /\ Fresh(hints, c)
              /\ <<c, hints[c].parent>> \in ts \/ c \notin DOMAIN hs
              => Crowded(hs) /\ Newcomer(ts)
    BY DEF InRound
  <1>6. Crowded(hs) => Crowded(new)
    BY <1>1, StaysCrowded
  <1>7. \A c \in Evicted(hs, m) : Fresh(hs, c) => Crowded(hs)
    BY <1>1, EvictsFromCrowd
  <1>8. m \notin DOMAIN hs => Newcomer(out)
    <2> SUFFICES ASSUME m \notin DOMAIN hs
                 PROVE  Newcomer(out)
      OBVIOUS
    <2>1. CASE m \in DOMAIN hints
      BY <2>1, <1>5 DEF Newcomer
    <2>2. CASE m \notin DOMAIN hints
      <3>1. <<m, p>> \in out /\ <<m, p>>[1] \notin DOMAIN hints
        BY <2>2
      <3> QED BY <3>1 DEF Newcomer
    <2> QED BY <2>1, <2>2
  <1>9. Newcomer(ts) => Newcomer(out)
    BY DEF Newcomer
  <1>10. \A t \in ts : t[1] # m
    BY DEF Untold
  <1>11. m \in DOMAIN hs /\ hs[m].parent = p => ~Fresh(hs, m)
    BY <1>1, HintsAssumption DEF ShouldSend, Rested, Fresh, Cache
  <1>12. m \in DOMAIN hs => m \in DOMAIN hints /\ hs[m] = hints[m]
    BY <1>5, <1>10
  <1> HIDE DEF hs, ts, new
  <1>13. out \subseteq Member \X Parent
    BY <1>1
  <1>14. ASSUME NEW c \in DOMAIN new, \A t \in out : t[1] # c
         PROVE  c \in DOMAIN hints /\ new[c] = hints[c]
    <2>1. <<m, p>> \in out /\ <<m, p>>[1] = m
      OBVIOUS
    <2>2. c # m /\ \A t \in ts : t[1] # c
      BY <1>14, <2>1
    <2>3. c \in DOMAIN hs \ Evicted(hs, m)
      BY <1>3, <2>2
    <2> QED BY <1>3, <1>5, <2>2, <2>3
  <1>15. ASSUME NEW c \in DOMAIN new, c \in DOMAIN hints, Fresh(hints, c)
         PROVE  Fresh(new, c)
    <2>1. CASE c = m
      BY <1>3, <2>1, HintsAssumption DEF Fresh
    <2>2. CASE c # m
      BY <1>3, <1>5, <1>15, <2>2 DEF Fresh
    <2> QED BY <2>1, <2>2
  <1>16. ASSUME NEW c \in DOMAIN hints, c \notin DOMAIN new
         PROVE  Newcomer(out)
    <2>1. CASE c \notin DOMAIN hs
      BY <2>1, <1>5, <1>9
    <2>2. CASE c \in DOMAIN hs
      <3>1. c \in Evicted(hs, m)
        BY <1>3, <1>16, <2>2
      <3> QED BY <3>1, <1>4, <1>8
    <2> QED BY <2>1, <2>2
  <1>17. ASSUME NEW c \in DOMAIN hints, Fresh(hints, c),
                <<c, hints[c].parent>> \in out \/ c \notin DOMAIN new
         PROVE  Crowded(new) /\ Newcomer(out)
    <2>1. CASE <<c, hints[c].parent>> \in ts \/ c \notin DOMAIN hs
      BY <2>1, <1>5, <1>6, <1>9, <1>17
    <2>2. CASE c \in DOMAIN hs /\ <<c, hints[c].parent>> = <<m, p>>
      <3>1. c = m /\ hints[m].parent = p
        BY <2>2
      <3>2. Fresh(hs, m) /\ hs[m].parent = p
        BY <3>1, <2>2, <1>5, <1>12, <1>17
      <3> QED BY <3>1, <3>2, <2>2, <1>11
    <2>3. CASE c \in DOMAIN hs /\ c \notin DOMAIN new
      <3>1. c \in Evicted(hs, m)
        BY <1>3, <2>3
      <3>2. Fresh(hs, c)
        BY <1>5, <1>17, <2>3
      <3> QED BY <3>1, <3>2, <1>4, <1>6, <1>7, <1>8
    <2> QED BY <2>1, <2>2, <2>3, <1>17
  <1>18. InRound([hints |-> new, told |-> out])
    <2> DEFINE r == [hints |-> new, told |-> out]
    <2>1. r.hints = new /\ r.told = out
      OBVIOUS
    <2> HIDE DEF r, out
    <2> QED BY <2>1, <1>2, <1>13, <1>14, <1>15, <1>16, <1>17 DEF InRound
  <1> QED BY <1>18 DEF hs, ts, new
(* One member of the table.                                                 *)
LEMMA HintsOne ==
    ASSUME HintsTypeOK, NEW s, InRound(s), NEW m \in Known(places), Untold(s, m)
    PROVE  /\ InRound(Hint(s, m))
           /\ \A t \in Hint(s, m).told : t \in s.told \/ t[1] = m
  <1> DEFINE p == places[m].want
             out == [hints |-> MarkSent(s.hints, m, p), told |-> s.told \cup {<<m, p>>}]
  <1>1. m \in Member /\ p \in Parent /\ Cache(hints)
    BY DEF HintsTypeOK, Known, Place, Cache
  <1>2. CASE LeadsOn(places[m].route) /\ ShouldSend(s.hints, m, p)
    <2>1. Hint(s, m) = out
      BY <1>2 DEF Hint
    <2>2. InRound(out)
      BY <1>1, <1>2, TellsOne
    <2>3. \A t \in out.told : t \in s.told \/ t[1] = m
      OBVIOUS
    <2> HIDE DEF out
    <2> QED BY <2>1, <2>2, <2>3
  <1>3. CASE ~(LeadsOn(places[m].route) /\ ShouldSend(s.hints, m, p))
    BY <1>3 DEF Hint
  <1> QED BY <1>2, <1>3

(* What a round goes through, member by member, exists.                     *)
IsRound(f, order, k) ==
    f = [n \in 0 .. k |-> IF n = 0 THEN SoFar ELSE Hint(f[n - 1], order[n])]

LEMMA RoundGoesOn ==
    ASSUME NEW order, NEW k \in Nat, NEW f, IsRound(f, order, k)
    PROVE  \E g : IsRound(g, order, k + 1)
  <1> DEFINE g == [n \in 0 .. k + 1 |-> IF n = k + 1 THEN Hint(f[k], order[k + 1]) ELSE f[n]]
             h == [n \in 0 .. k + 1 |-> IF n = 0 THEN SoFar ELSE Hint(g[n - 1], order[n])]
  <1>1. \A n \in 0 .. k : f[n] = IF n = 0 THEN SoFar ELSE Hint(f[n - 1], order[n])
    BY DEF IsRound
  <1>2. \A n \in 0 .. k : g[n] = f[n]
    OBVIOUS
  <1>3. g[k + 1] = Hint(f[k], order[k + 1])
    OBVIOUS
  <1>4. \A n \in 0 .. k + 1 : g[n] = IF n = 0 THEN SoFar ELSE Hint(g[n - 1], order[n])
    <2> HIDE DEF g
    <2> SUFFICES ASSUME NEW n \in 0 .. k + 1
                 PROVE  g[n] = IF n = 0 THEN SoFar ELSE Hint(g[n - 1], order[n])
      OBVIOUS
    <2>1. CASE n = k + 1
      <3>1. k \in 0 .. k /\ n # 0 /\ n - 1 = k
        BY <2>1
      <3>2. g[n - 1] = f[k]
        BY <3>1, <1>2
      <3> QED BY <3>1, <3>2, <1>3, <2>1
    <2>2. CASE n = 0
      BY <2>2, <1>1, <1>2
    <2>3. CASE n # 0 /\ n # k + 1
      <3>1. n \in 0 .. k /\ n - 1 \in 0 .. k
        BY <2>3
      <3>2. g[n] = f[n] /\ g[n - 1] = f[n - 1]
        BY <3>1, <1>2
      <3>3. f[n] = Hint(f[n - 1], order[n])
        BY <3>1, <2>3, <1>1
      <3> QED BY <3>2, <3>3, <2>3
    <2> QED BY <2>1, <2>2, <2>3
  <1>5. g = h
    <2>1. \A n \in 0 .. k + 1 : g[n] = h[n]
      <3> HIDE DEF g
      <3> QED BY <1>4
    <2> QED BY <2>1
  <1>6. IsRound(g, order, k + 1)
    <2> HIDE DEF g
    <2> QED BY <1>5 DEF IsRound
  <1> QED BY <1>6

LEMMA RoundExists ==
    ASSUME NEW order, NEW k \in Nat
    PROVE  \E f : IsRound(f, order, k)
  <1> DEFINE S == {n \in Nat : \E f : IsRound(f, order, n)}
  <1>1. 0 \in S
    <2> DEFINE f == [n \in 0 .. 0 |-> SoFar]
    <2>1. \A n \in 0 .. 0 : n = 0
      OBVIOUS
    <2>2. f = [n \in 0 .. 0 |-> IF n = 0 THEN SoFar ELSE Hint(f[n - 1], order[n])]
      BY <2>1
    <2>3. IsRound(f, order, 0)
      <3> HIDE DEF f
      <3> QED BY <2>2 DEF IsRound
    <2> QED BY <2>3
  <1>2. \A n \in 0 .. k : n + 1 =< k /\ n \in S => n + 1 \in S
    BY RoundGoesOn
  <1>3. 0 .. k \subseteq S
    <2> HIDE DEF S
    <2> QED BY <1>1, <1>2, UpTo
  <1> QED BY <1>3

LEMMA RoundIs ==
    ASSUME NEW order, Len(order) \in Nat
    PROVE  \E f : IsRound(f, order, Len(order)) /\ Round(order) = f[Len(order)]
  <1> DEFINE after == CHOOSE f : IsRound(f, order, Len(order))
  <1>1. IsRound(after, order, Len(order))
    BY RoundExists
  <1>2. Round(order) = after[Len(order)]
    BY DEF Round, IsRound, SoFar
  <1> QED BY <1>1, <1>2

LEMMA OrderOnce ==
    ASSUME HintsTypeOK, NEW order \in SetToSeqs(Known(places))
    PROVE  /\ Len(order) \in Nat /\ DOMAIN order = 1 .. Len(order)
           /\ \A i \in 1 .. Len(order) : order[i] \in Known(places)
           /\ \A i, j \in 1 .. Len(order) : i # j => order[i] # order[j]
  <1> DEFINE n == Cardinality(Known(places))
  <1>1. n \in Nat
    BY HintsAssumption, FS_Subset, FS_CardinalityType DEF Known
  <1>2. order \in [1 .. n -> Known(places)] /\ \A i, j \in 1 .. n : i # j => order[i] # order[j]
    BY DEF SetToSeqs
  <1> HIDE DEF n
  <1>3. order \in Seq(Known(places)) /\ Len(order) = n
    BY <1>1, <1>2
  <1> QED BY <1>1, <1>2, <1>3

LEMMA RoundEnds ==
    ASSUME HintsTypeOK, NEW order \in SetToSeqs(Known(places))
    PROVE  InRound(Round(order))
  <1> DEFINE n == Len(order)
  <1>1. /\ n \in Nat
        /\ \A i \in 1 .. n : order[i] \in Known(places)
        /\ \A i, j \in 1 .. n : i # j => order[i] # order[j]
    BY OrderOnce
  <1> HIDE DEF n
  <1>2. PICK f : IsRound(f, order, n) /\ Round(order) = f[n]
    BY <1>1, RoundIs DEF n
  <1>3. \A k \in 0 .. n : f[k] = IF k = 0 THEN SoFar ELSE Hint(f[k - 1], order[k])
    BY <1>2 DEF IsRound
  <1> DEFINE Good == {k \in 0 .. n : /\ InRound(f[k])
                                     /\ \A t \in f[k].told : \E i \in 1 .. k : t[1] = order[i]}
  <1>4. 0 \in Good
    <2>1. 0 \in 0 .. n /\ f[0] = SoFar
      BY <1>1, <1>3
    <2>2. InRound(SoFar) /\ SoFar.told = {}
      BY RoundBegins DEF HintsTypeOK, Cache, SoFar
    <2> QED BY <2>1, <2>2
  <1>5. ASSUME NEW k \in 0 .. n, k + 1 =< n, k \in Good
        PROVE  k + 1 \in Good
    <2> DEFINE m == order[k + 1]
    <2>1. k + 1 \in 1 .. n /\ k + 1 \in 0 .. n /\ k + 1 # 0 /\ k + 1 - 1 = k
      BY <1>1, <1>5
    <2>2. f[k + 1] = Hint(f[k], m)
      BY <2>1, <1>3
    <2>3. m \in Known(places)
      BY <2>1, <1>1
    <2>4. \A i \in 1 .. k : order[i] # m
      <3>1. \A i \in 1 .. k : i \in 1 .. n /\ i # k + 1
        BY <1>1, <2>1
      <3> QED BY <3>1, <2>1, <1>1
    <2>5. InRound(f[k]) /\ \A t \in f[k].told : \E i \in 1 .. k : t[1] = order[i]
      BY <1>5
    <2>6. Untold(f[k], m)
      BY <2>4, <2>5 DEF Untold
    <2> HIDE DEF m
    <2>7. InRound(f[k + 1]) /\ \A t \in f[k + 1].told : t \in f[k].told \/ t[1] = m
      BY <2>2, <2>3, <2>5, <2>6, HintsOne
    <2>8. ASSUME NEW t \in f[k + 1].told
          PROVE  \E i \in 1 .. k + 1 : t[1] = order[i]
      <3>1. CASE t \in f[k].told
        <4>1. PICK i \in 1 .. k : t[1] = order[i]
          BY <2>5, <3>1
        <4>2. i \in 1 .. k + 1
          BY <2>1
        <4> QED BY <4>1, <4>2
      <3>2. CASE t[1] = m
        <4>1. k + 1 \in 1 .. k + 1
          BY <2>1
        <4> QED BY <4>1, <3>2 DEF m
      <3> QED BY <2>7, <2>8, <3>1, <3>2
    <2> QED BY <2>1, <2>7, <2>8
  <1>6. 0 .. n \subseteq Good
    <2>1. \A k \in 0 .. n : k + 1 =< n /\ k \in Good => k + 1 \in Good
      BY <1>5
    <2> HIDE DEF Good
    <2> QED BY <1>1, <1>4, <2>1, UpTo
  <1>7. n \in Good
    BY <1>1, <1>6
  <1> QED BY <1>2, <1>7
-----------------------------------------------------------------------------
(* The steps.                                                               *)

RestStep ==
    \A m \in DOMAIN hints :
        /\ Fresh(hints, m)
        /\ <<m, hints[m].parent>> \in told' \/ m \notin DOMAIN hints'
        => Crowded(hints') /\ \E t \in told' : t[1] \notin DOMAIN hints

LEMMA KnownFinite ==
    \A ps : IsFiniteSet(Known(ps)) /\ Cardinality(Known(ps)) \in Nat
  <1> SUFFICES ASSUME NEW ps PROVE IsFiniteSet(Known(ps)) /\ Cardinality(Known(ps)) \in Nat
    OBVIOUS
  <1>1. Known(ps) \in SUBSET Member
    BY DEF Known
  <1> QED BY <1>1, HintsAssumption, FS_Subset, FS_CardinalityType

LEMMA CacheAges ==
    ASSUME NEW hs, Cache(hs)
    PROVE  Cache([m \in DOMAIN hs |-> [hs[m] EXCEPT !.age = Older(@)]])
  <1> DEFINE new == [m \in DOMAIN hs |-> [hs[m] EXCEPT !.age = Older(@)]]
  <1>1. DOMAIN new = DOMAIN hs
    OBVIOUS
  <1>2. \A n \in 0 .. Cooldown : Older(n) \in 0 .. Cooldown
    BY HintsAssumption DEF Older
  <1>3. ASSUME NEW m \in DOMAIN hs
        PROVE  new[m] \in [parent : Parent, age : 0 .. Cooldown]
    <2>1. hs[m] \in [parent : Parent, age : 0 .. Cooldown]
      BY DEF Cache
    <2>2. hs[m].age \in 0 .. Cooldown
      BY <2>1
    <2>3. Older(hs[m].age) \in 0 .. Cooldown
      BY <1>2, <2>2
    <2>4. new[m] = [hs[m] EXCEPT !.age = Older(hs[m].age)]
      OBVIOUS
    <2> HIDE DEF new
    <2> QED BY <2>1, <2>3, <2>4
  <1> HIDE DEF new
  <1>4. Cache(new)
    BY <1>1, <1>3 DEF Cache
  <1> QED BY <1>4 DEF new

LEMMA MeasuredTyped ==
    Measured \in Metrics
  <1>1. IsFiniteSet(Routed)
    BY HintsAssumption, FS_Subset DEF Routed
  <1>2. \A T \in SUBSET Routed : Cardinality(T) \in Nat
    BY <1>1, FS_Subset, FS_CardinalityType
  <1>3. /\ Cardinality(Routed) \in Nat
        /\ Cardinality({m \in Routed : places[m].route.hop # Leader}) \in Nat
        /\ Cardinality({m \in Routed : places[m].route.link \in {"silent"}}) \in Nat
        /\ Cardinality({m \in Routed : places[m].route.link \in {"moved", "down"}}) \in Nat
    BY <1>2
  <1> QED BY <1>3 DEF Measured, Metrics

LEMMA HintsStep ==
    ASSUME HintsTypeOK, [HintsNext]_hintVars
    PROVE  HintsTypeOK' /\ [RestStep]_hintVars
  <1>0. Cache(hints) /\ Parent = Relay \cup {Leader}
    BY DEF HintsTypeOK, Cache, Parent
  <1>1. CASE MetricsTick
    <2>1. metrics' \in Metrics /\ due' \in BOOLEAN /\ places' = places
      BY <1>1, MeasuredTyped DEF MetricsTick
    <2>2. CASE ~Tells(Measured)
      <3>1. hints' = hints /\ told' = {}
        BY <1>1, <2>2 DEF MetricsTick
      <3>2. RestStep
        BY <3>1 DEF RestStep
      <3>3. HintsTypeOK'
        BY <2>1, <3>1 DEF HintsTypeOK, Known
      <3> QED BY <3>2, <3>3
    <2>3. CASE Tells(Measured)
      <3>1. PICK order \in SetToSeqs(Known(places)) :
               hints' = Round(order).hints /\ told' = Round(order).told
        BY <1>1, <2>3 DEF MetricsTick
      <3> DEFINE s == Round(order)
      <3>2. InRound(s)
        BY RoundEnds
      <3> HIDE DEF s
      <3>3. hints' = s.hints /\ told' = s.told
        BY <3>1 DEF s
      <3>4. Cache(hints') /\ told' \subseteq Member \X Parent
        BY <3>2, <3>3 DEF InRound
      <3>5. HintsTypeOK'
        BY <2>1, <3>4 DEF HintsTypeOK, Known, Cache
      <3>6. ASSUME NEW m \in DOMAIN hints, Fresh(hints, m),
                   <<m, hints[m].parent>> \in told' \/ m \notin DOMAIN hints'
            PROVE  Crowded(hints') /\ Newcomer(told')
        BY <3>2, <3>3, <3>6 DEF InRound
      <3>7. RestStep
        BY <3>6 DEF RestStep, Newcomer
      <3> QED BY <3>5, <3>7
    <2> QED BY <2>2, <2>3
  <1>2. CASE Second
    <2>1. /\ hints' = [m \in DOMAIN hints |-> [hints[m] EXCEPT !.age = Older(@)]]
          /\ told' = {} /\ due' = TRUE /\ places' = places /\ metrics' = metrics
      BY <1>2 DEF Second
    <2>2. Cache(hints')
      BY <1>0, <2>1, CacheAges
    <2>3. HintsTypeOK'
      BY <2>1, <2>2 DEF HintsTypeOK, Known, Cache
    <2>4. RestStep
      BY <2>1 DEF RestStep
    <2> QED BY <2>3, <2>4
  <1>3. ASSUME NEW m \in Member, Move(m)
        PROVE  HintsTypeOK' /\ RestStep
    <2>1. PICK p \in Place :
             /\ p.want # None => Cardinality(Known(places) \cup {m}) =< Slots
             /\ places' = [places EXCEPT ![m] = p]
      BY <1>3 DEF Move
    <2>2. due' \in BOOLEAN /\ told' = {} /\ hints' = hints /\ metrics' = metrics
      BY <1>3 DEF Move, HintsTypeOK
    <2>3. places \in [Member -> Place] /\ Cardinality(Known(places)) =< Slots
      BY DEF HintsTypeOK
    <2>4. places' \in [Member -> Place]
      BY <2>1, <2>3
    <2>5. Cardinality(Known(places')) =< Slots
      <3> DEFINE old == Known(places)
                 new == Known(places')
      <3>1. p.want # None => new \subseteq old \cup {m}
        BY <2>1, <2>3 DEF Known
      <3>2. p.want = None => new \subseteq old
        BY <2>1, <2>3 DEF Known
      <3>3. /\ IsFiniteSet(old) /\ IsFiniteSet(old \cup {m})
            /\ Cardinality(old) \in Nat /\ Cardinality(old \cup {m}) \in Nat /\ Cardinality(new) \in Nat
        BY KnownFinite, FS_AddElement, FS_CardinalityType
      <3> HIDE DEF old, new
      <3>4. CASE p.want # None
        <4>1. Cardinality(new) =< Cardinality(old \cup {m})
          BY <3>1, <3>3, <3>4, FS_Subset
        <4>2. Cardinality(old \cup {m}) =< Slots
          BY <2>1, <3>4 DEF old
        <4>3. Cardinality(new) =< Slots
          BY <3>3, <4>1, <4>2, HintsAssumption
        <4> QED BY <4>3 DEF new
      <3>5. CASE p.want = None
        <4>1. Cardinality(new) =< Cardinality(old)
          BY <3>2, <3>3, <3>5, FS_Subset
        <4>2. Cardinality(old) =< Slots
          BY <2>3 DEF old
        <4>3. Cardinality(new) =< Slots
          BY <3>3, <4>1, <4>2, HintsAssumption
        <4> QED BY <4>3 DEF new
      <3> QED BY <3>4, <3>5
    <2>6. HintsTypeOK'
      BY <2>2, <2>4, <2>5 DEF HintsTypeOK
    <2>7. RestStep
      BY <2>2 DEF RestStep
    <2> QED BY <2>6, <2>7
  <1>4. CASE UNCHANGED hintVars
    <2>1. HintsTypeOK'
      BY <1>4 DEF HintsTypeOK, hintVars, Known
    <2> QED BY <1>4, <2>1
  <1> QED BY <1>1, <1>2, <1>3, <1>4 DEF HintsNext

(* A hint that is cached is neither repeated nor forgotten within the       *)
(* cooldown, unless every slot has one that young and someone new is told   *)
(* in the same round: for any members, slots and cooldown.                  *)
THEOREM HintsAreRested == HintsSpec => HintsSafety
  <1>1. HintsInit => HintsTypeOK
    <2> SUFFICES ASSUME HintsInit PROVE HintsTypeOK
      OBVIOUS
    <2>1. Known(places) = {} /\ DOMAIN hints = {}
      BY DEF HintsInit, Known
    <2>2. Cardinality(Known(places)) = 0 /\ Cardinality(DOMAIN hints) = 0
      BY <2>1, FS_EmptySet
    <2>3. places \in [Member -> Place]
      BY DEF HintsInit, Place, Route, NoRoute, Links
    <2> QED BY <2>1, <2>2, <2>3, HintsAssumption DEF HintsInit, HintsTypeOK, Metrics
  <1>2. HintsTypeOK /\ [HintsNext]_hintVars => HintsTypeOK'
    BY HintsStep
  <1>3. HintsTypeOK /\ [HintsNext]_hintVars => [RestStep]_hintVars
    BY HintsStep
  <1>4. HintsSpec => []HintsTypeOK
    BY <1>1, <1>2, PTL DEF HintsSpec
  <1>5. HintsSpec => [][RestStep]_hintVars
    BY <1>3, <1>4, PTL DEF HintsSpec
  <1> QED BY <1>4, <1>5 DEF HintsSafety, HintsRest, RestStep
-----------------------------------------------------------------------------
(***************************************************************************)
(* The bytes of a packet.  A buffer's parts, put behind one another, are   *)
(* the buffer (Adjacent); parts put behind one another are found again       *)
(* (Laid).                                                                 *)
(***************************************************************************)
Octets == 0 .. 255
Shorts == {v \in Nat : v < 65536}

LEMMA HeaderInverse ==
  ASSUME NEW h \in Octets
  PROVE  64 * ((h \div 64) % 4) + 4 * (((h \div 4) % 16) % 16) + ((h % 4) % 4) = h
  BY SMT DEF Octets

LEMMA PathLengthInverse ==
  ASSUME NEW h \in Octets
  PROVE 64 * ((h \div 64 + 1) - 1) + (h % 64) = h
  <1>1. h \div 64 \in Nat
    BY SMT DEF Octets
  <1>2. h = 64 * (h \div 64) + (h % 64)
    BY SMT DEF Octets
  <1> QED BY <1>1, <1>2, SMT

LEMMA BytesInverse ==
  ASSUME NEW x \in Octets, NEW y \in Octets
  PROVE  PutU16(x + 256 * y) = <<x, y>>
  BY SMT DEF PutU16, Octets

LEMMA OneByte == ASSUME NEW S, NEW b \in Seq(S), NEW i \in 1 .. Len(b)
  PROVE <<b[i]>> = SubSeq(b, i, i)
  BY SMT, LenProperties

LEMMA TwoBytes == ASSUME NEW S, NEW b \in Seq(S), NEW i \in 1 .. Len(b), i + 1 =< Len(b)
  PROVE <<b[i], b[i + 1]>> = SubSeq(b, i, i + 1)
  BY SMT, LenProperties

LEMMA Adjacent == ASSUME NEW S, NEW b \in Seq(S), NEW i \in Nat, NEW j \in Nat, NEW k \in Nat,
                       1 =< i, i =< j + 1, j =< k, k =< Len(b)
  PROVE SubSeq(b, i, j) \o SubSeq(b, j + 1, k) = SubSeq(b, i, k)
  <1>0. Len(b) \in Nat
    BY LenProperties
  <1>1. i \in 1 .. Len(b) + 1 /\ j \in i - 1 .. Len(b) /\ k \in j .. Len(b)
    BY <1>0, SMT
  <1> QED BY <1>1, ConcatAdjacentSubSeq

LEMMA JoinedToEnd == ASSUME NEW S, NEW b \in Seq(S), NEW j \in Nat, j =< Len(b), NEW l, l = j + 1
  PROVE SubSeq(b, 1, j) \o SubSeq(b, l, Len(b)) = b
  <1>0. Len(b) \in Nat
    BY LenProperties
  <1>1. 1 \in 1 .. Len(b) + 1 /\ j \in 1 - 1 .. Len(b) /\ Len(b) \in j .. Len(b)
    BY <1>0, SMT
  <1>2. SubSeq(b, 1, j) \o SubSeq(b, j + 1, Len(b)) = SubSeq(b, 1, Len(b))
    BY <1>1, ConcatAdjacentSubSeq
  <1> QED BY <1>2, SubSeqFull, Zenon

LEMMA PathByte ==
  ASSUME NEW h \in Octets
  PROVE  h % 64 \in 0 .. 63 /\ h \div 64 + 1 \in 1 .. 4
  BY SMT DEF Octets

LEMMA PathIsNat ==
  ASSUME NEW h \in 0 .. 63, NEW s \in 1 .. 3
  PROVE  h * s \in Nat
  <1>1. CASE s = 1
    BY <1>1
  <1>2. CASE s = 2
    BY <1>2
  <1>3. CASE s = 3
    BY <1>3
  <1> QED BY <1>1, <1>2, <1>3

LEMMA SmallCounts ==
  ASSUME NEW h \in 0 .. 63, NEW s \in 1 .. 3
  PROVE  s =< 3 /\ s \in Int /\ h =< 63 /\ h \in Int
  OBVIOUS

LEMMA PartLength ==
  ASSUME NEW S, NEW b \in Seq(S), NEW i \in Nat, NEW n \in Nat, i + n =< Len(b)
  PROVE  Len(SubSeq(b, i + 1, i + n)) = n
  BY LenProperties, SMT

LEMMA RestLength ==
  ASSUME NEW S, NEW b \in Seq(S), NEW i \in Nat, NEW n \in Nat, i + n =< Len(b)
  PROVE  Len(SubSeq(b, i + n + 1, Len(b))) = Len(b) - i - n
  BY LenProperties, SMT

(* The header, the path's length and the path, as they lie in a buffer.     *)
PlainBytes(b, n) == <<b[1]>> \o <<b[2]>> \o SubSeq(b, 3, 2 + n) \o SubSeq(b, 3 + n, Len(b))
CodedBytes(b, n) == <<b[1]>> \o (<<b[2], b[3]>> \o <<b[4], b[5]>>) \o <<b[6]>> \o SubSeq(b, 7, 6 + n) 
                    \o SubSeq(b, 7 + n, Len(b))

LEMMA PlainWhole == ASSUME NEW S, NEW b \in Seq(S), NEW n \in Nat, 2 + n =< Len(b)
  PROVE PlainBytes(b, n) = b
  <1>0. Len(b) \in Nat
    BY LenProperties
  <1>1. <<b[1]>> = SubSeq(b, 1, 1) /\ <<b[2]>> = SubSeq(b, 2, 2)
    <2>1. 1 \in 1 .. Len(b) /\ 2 \in 1 .. Len(b)
      BY <1>0, SMT
    <2> QED BY <2>1, OneByte
  <1>2. SubSeq(b, 1, 1) \o SubSeq(b, 2, 2) = SubSeq(b, 1, 2)
    <2>1. 1 =< 1 + 1 /\ 1 =< 2 /\ 2 =< Len(b) /\ 1 + 1 = 2
      BY <1>0, SMT
    <2> QED BY <2>1, Adjacent, SMT
  <1>3. SubSeq(b, 1, 2) \o SubSeq(b, 3, 2 + n) = SubSeq(b, 1, 2 + n)
    <2>1. 1 =< 2 + 1 /\ 2 =< 2 + n /\ 2 + n =< Len(b) /\ 2 + 1 = 3 /\ 2 + n \in Nat
      BY <1>0, SMT
    <2> QED BY <2>1, Adjacent, SMT
  <1>4. SubSeq(b, 1, 2 + n) \o SubSeq(b, 3 + n, Len(b)) = SubSeq(b, 1, Len(b))
    <2>1. 2 + n \in Nat /\ 2 + n =< Len(b) /\ 3 + n = (2 + n) + 1
      BY <1>0, SMT
    <2> QED BY <2>1, JoinedToEnd, SubSeqFull
  <1> QED BY <1>1, <1>2, <1>3, <1>4, SubSeqFull DEF PlainBytes

LEMMA CodedWhole == ASSUME NEW S, NEW b \in Seq(S), NEW n \in Nat, 6 + n =< Len(b)
  PROVE CodedBytes(b, n) = b
  <1>0. Len(b) \in Nat
    BY LenProperties
  <1>1. <<b[1]>> = SubSeq(b, 1, 1) /\ <<b[6]>> = SubSeq(b, 6, 6)
    <2>1. 1 \in 1 .. Len(b) /\ 6 \in 1 .. Len(b)
      BY <1>0, SMT
    <2> QED BY <2>1, OneByte
  <1>2. <<b[2], b[3]>> = SubSeq(b, 2, 3) /\ <<b[4], b[5]>> = SubSeq(b, 4, 5)
    <2>1. 2 \in 1 .. Len(b) /\ 4 \in 1 .. Len(b) /\ 2 + 1 =< Len(b) /\ 4 + 1 =< Len(b) /\ 2 + 1 = 3 /\ 4 + 1 = 5
      BY <1>0, SMT
    <2> QED BY <2>1, TwoBytes, SMT
  <1>3. SubSeq(b, 2, 3) \o SubSeq(b, 4, 5) = SubSeq(b, 2, 5)
    <2>1. 1 =< 2 /\ 2 =< 3 + 1 /\ 3 =< 5 /\ 5 =< Len(b) /\ 3 + 1 = 4
      BY <1>0, SMT
    <2> QED BY <2>1, Adjacent, SMT
  <1>4. SubSeq(b, 1, 1) \o SubSeq(b, 2, 5) = SubSeq(b, 1, 5)
    <2>1. 1 =< 1 + 1 /\ 1 =< 5 /\ 5 =< Len(b) /\ 1 + 1 = 2
      BY <1>0, SMT
    <2> QED BY <2>1, Adjacent, SMT
  <1>5. SubSeq(b, 1, 5) \o SubSeq(b, 6, 6) = SubSeq(b, 1, 6)
    <2>1. 1 =< 5 + 1 /\ 5 =< 6 /\ 6 =< Len(b) /\ 5 + 1 = 6
      BY <1>0, SMT
    <2> QED BY <2>1, Adjacent, SMT
  <1>6. SubSeq(b, 1, 6) \o SubSeq(b, 7, 6 + n) = SubSeq(b, 1, 6 + n)
    <2>1. 1 =< 6 + 1 /\ 6 =< 6 + n /\ 6 + n =< Len(b) /\ 6 + 1 = 7 /\ 6 + n \in Nat
      BY <1>0, SMT
    <2> QED BY <2>1, Adjacent, SMT
  <1>7. SubSeq(b, 1, 6 + n) \o SubSeq(b, 7 + n, Len(b)) = SubSeq(b, 1, Len(b))
    <2>1. 6 + n \in Nat /\ 6 + n =< Len(b) /\ 7 + n = (6 + n) + 1
      BY <1>0, SMT
    <2> QED BY <2>1, JoinedToEnd, SubSeqFull
  <1> QED BY <1>1, <1>2, <1>3, <1>4, <1>5, <1>6, <1>7, SubSeqFull DEF CodedBytes

(* What a buffer says, when it is read as a mesh packet.                    *)
At(b) == IF HasCodes(b[1] % 4) THEN 6 ELSE 2
Hops(b) == b[At(b)] % 64
HashSize(b) == b[At(b)] \div 64 + 1
PathLen(b) == Hops(b) * HashSize(b)
MeshPacket(b) ==
    [version |-> b[1] \div 64, type |-> (b[1] \div 4) % 16, route |-> b[1] % 4,
     codes |-> IF HasCodes(b[1] % 4) THEN <<U16(b, 2), U16(b, 4)>> ELSE << >>,
     hops |-> Hops(b), size |-> HashSize(b),
     path |-> SubSeq(b, At(b) + 1, At(b) + PathLen(b)),
     payload |-> From(b, At(b) + PathLen(b) + 1)]
IsMesh(b) == /\ Len(b) >= At(b) /\ HashSize(b) =< 3
             /\ PathLen(b) =< MaxPath /\ At(b) + PathLen(b) =< Len(b) 
             /\ Len(b) - At(b) - PathLen(b) =< MaxPayload

LEMMA MeshDecoded ==
  ASSUME NEW b \in Seq(Octets), DecodeMesh(b).ret = "OK"
  PROVE  /\ IsMesh(b) /\ At(b) \in {2, 6}
         /\ Hops(b) \in 0 .. 63 /\ HashSize(b) \in 1 .. 3 /\ PathLen(b) \in Nat
         /\ DecodeMesh(b) = [ret |-> "OK", packet |-> MeshPacket(b)]
  <1>1. Len(b) \in Nat
    BY LenProperties
  <1>2. ~(Len(b) < 2) /\ ~(Len(b) < At(b)) /\ ~(HashSize(b) > 3) /\ ~TooLong(b, At(b), PathLen(b))
    BY DEF DecodeMesh, Fail, At, Hops, HashSize, PathLen
  <1>3. DecodeMesh(b) = [ret |-> "OK", packet |-> MeshPacket(b)]
    BY <1>2 DEF DecodeMesh, At, Hops, HashSize, PathLen, MeshPacket
  <1>4. At(b) \in {2, 6}
    BY DEF At
  <1>5. b[At(b)] \in Octets
    <2>1. At(b) \in 1 .. Len(b)
      BY <1>1, <1>2, <1>4, SMT
    <2> QED BY <2>1, ElementOfSeq
  <1>6. Hops(b) \in 0 .. 63 /\ HashSize(b) \in 1 .. 4
    <2>1. b[At(b)] % 64 \in 0 .. 63 /\ b[At(b)] \div 64 + 1 \in 1 .. 4
      BY <1>5, PathByte, Zenon
    <2>2. Hops(b) \in 0 .. 63 /\ HashSize(b) \in 1 .. 4
      BY <2>1, Zenon DEF Hops, HashSize
    <2> QED BY <2>2
  <1>7. HashSize(b) \in 1 .. 3
    BY <1>2, <1>6, SMT
  <1>8. PathLen(b) \in Nat
    BY <1>6, <1>7, PathIsNat DEF PathLen
  <1>9. /\ PathLen(b) =< MaxPath /\ At(b) + PathLen(b) =< Len(b) 
        /\ Len(b) - At(b) - PathLen(b) =< MaxPayload /\ Len(b) >= At(b)
    BY <1>1, <1>2, <1>4, <1>8, CodecAssumption, SMT DEF TooLong
  <1>10. HashSize(b) =< 3
    BY <1>7, SMT
  <1> QED BY <1>3, <1>4, <1>6, <1>7, <1>8, <1>9, <1>10 DEF IsMesh

LEMMA MeshLaid ==
  ASSUME NEW b \in Seq(Octets), DecodeMesh(b).ret = "OK"
  PROVE  /\ b[1] \in Octets /\ b[At(b)] \in Octets
         /\ HasCodes(b[1] % 4) => /\ At(b) = 6 /\ CodedBytes(b, PathLen(b)) = b
                                  /\ \A i \in 2 .. 5 : b[i] \in Octets
         /\ ~HasCodes(b[1] % 4) => At(b) = 2 /\ PlainBytes(b, PathLen(b)) = b
  <1>1. IsMesh(b) /\ At(b) \in {2, 6} /\ PathLen(b) \in Nat
    BY MeshDecoded
  <1>2. Len(b) \in Nat /\ At(b) =< Len(b) /\ At(b) + PathLen(b) =< Len(b)
    BY <1>1, LenProperties DEF IsMesh
  <1>3. b[1] \in Octets /\ b[At(b)] \in Octets
    <2>1. 1 \in 1 .. Len(b) /\ At(b) \in 1 .. Len(b)
      BY <1>1, <1>2, SMT
    <2> QED BY <2>1, ElementOfSeq
  <1>4. CASE HasCodes(b[1] % 4)
    <2>1. At(b) = 6 /\ 6 + PathLen(b) =< Len(b)
      BY <1>2, <1>4 DEF At
    <2>2. \A i \in 2 .. 5 : i \in 1 .. Len(b)
      BY <1>1, <1>2, <2>1, SMT
    <2> QED BY <1>1, <1>3, <1>4, <2>1, <2>2, CodedWhole, ElementOfSeq
  <1>5. CASE ~HasCodes(b[1] % 4)
    <2>1. At(b) = 2 /\ 2 + PathLen(b) =< Len(b)
      BY <1>2, <1>5 DEF At
    <2> QED BY <1>1, <1>3, <1>5, <2>1, PlainWhole
  <1> QED BY <1>4, <1>5

LEMMA MeshReencoded ==
  ASSUME NEW b \in Seq(Octets), DecodeMesh(b).ret = "OK"
  PROVE  /\ EncodeMesh(MeshPacket(b)) = [ret |-> "OK", bytes |-> b]
         /\ MeshPacket(b).hops = Hops(b) /\ MeshPacket(b).size = HashSize(b)
         /\ Len(MeshPacket(b).path) = PathLen(b) /\ Len(MeshPacket(b).path) =< MaxPath
         /\ Len(MeshPacket(b).payload) =< MaxPayload
  <1> DEFINE p == MeshPacket(b)
             codes == IF p.codes = << >> THEN << >> ELSE PutU16(p.codes[1]) \o PutU16(p.codes[2])
             bytes == <<MakeHeader(p)>> \o codes \o <<MakePathLength(p.hops, IF p.size = 0 THEN 1 ELSE p.size)>>
                      \o p.path \o p.payload
  <1>1. /\ IsMesh(b) /\ At(b) \in {2, 6} 
        /\ Hops(b) \in 0 .. 63 /\ HashSize(b) \in 1 .. 3 /\ PathLen(b) \in Nat
    BY MeshDecoded
  <1>2. Len(b) \in Nat
    BY LenProperties
  <1>3. b[1] \in Octets /\ b[At(b)] \in Octets
    BY MeshLaid
  <1>4. /\ p.version = b[1] \div 64 /\ p.type = (b[1] \div 4) % 16 /\ p.route = b[1] % 4
        /\ p.hops = Hops(b) /\ p.size = HashSize(b)
        /\ p.path = SubSeq(b, At(b) + 1, At(b) + PathLen(b))
        /\ p.payload = SubSeq(b, At(b) + PathLen(b) + 1, Len(b))
        /\ p.codes = IF HasCodes(b[1] % 4) THEN <<U16(b, 2), U16(b, 4)>> ELSE << >>
    BY DEF MeshPacket, From
  <1>5. MakeHeader(p) = b[1]
    BY <1>3, <1>4, HeaderInverse, Zenon DEF MakeHeader
  <1>6. MakePathLength(p.hops, IF p.size = 0 THEN 1 ELSE p.size) = b[At(b)]
    <2>1. (IF p.size = 0 THEN 1 ELSE p.size) = b[At(b)] \div 64 + 1 /\ p.hops = b[At(b)] % 64
      <3>1. p.size # 0
        BY <1>1, <1>4, SMT
      <3> QED BY <1>4, <3>1, Zenon DEF Hops, HashSize
    <2> QED BY <1>3, <2>1, PathLengthInverse, Zenon DEF MakePathLength
  <1>7. bytes = b
    <2>1. CASE HasCodes(b[1] % 4)
      <3>1. At(b) = 6 /\ CodedBytes(b, PathLen(b)) = b /\ b[2] \in Octets /\ b[3] \in Octets /\ b[4] \in Octets /\ b[5] \in Octets
        <4>1. 2 \in 2 .. 5 /\ 3 \in 2 .. 5 /\ 4 \in 2 .. 5 /\ 5 \in 2 .. 5
          BY SMT
        <4> QED BY <2>1, <4>1, MeshLaid, Zenon
      <3>2. p.codes = <<U16(b, 2), U16(b, 4)>>
        BY <1>4, <2>1
      <3>3. p.codes # << >> /\ p.codes[1] = U16(b, 2) /\ p.codes[2] = U16(b, 4)
        BY <3>2, SMT
      <3>4. U16(b, 2) = b[2] + 256 * b[3] /\ U16(b, 4) = b[4] + 256 * b[5]
        BY SMT DEF U16
      <3>5. PutU16(p.codes[1]) = <<b[2], b[3]>> /\ PutU16(p.codes[2]) = <<b[4], b[5]>>
        <4>1. PutU16(b[2] + 256 * b[3]) = <<b[2], b[3]>> /\ PutU16(b[4] + 256 * b[5]) = <<b[4], b[5]>>
          BY <3>1, BytesInverse
        <4>2. p.codes[1] = b[2] + 256 * b[3] /\ p.codes[2] = b[4] + 256 * b[5]
          BY ONLY <3>3, <3>4
        <4> QED BY ONLY <4>1, <4>2
      <3>6. codes = <<b[2], b[3]>> \o <<b[4], b[5]>>
        BY <3>3, <3>5, Zenon
      <3>7. p.path = SubSeq(b, 7, 6 + PathLen(b)) /\ p.payload = SubSeq(b, 7 + PathLen(b), Len(b))
        <4>1. At(b) + 1 = 7 /\ At(b) + PathLen(b) = 6 + PathLen(b) /\ At(b) + PathLen(b) + 1 = 7 + PathLen(b)
          BY <1>1, <3>1, SMT
        <4> QED BY <1>4, <4>1, Zenon
      <3>8. bytes = CodedBytes(b, PathLen(b))
        BY <1>5, <1>6, <3>1, <3>6, <3>7, Zenon DEF CodedBytes
      <3> QED BY <3>1, <3>8
    <2>2. CASE ~HasCodes(b[1] % 4)
      <3>1. At(b) = 2 /\ PlainBytes(b, PathLen(b)) = b
        BY <2>2, MeshLaid
      <3>2. codes = << >>
        BY <1>4, <2>2
      <3>3. p.path = SubSeq(b, 3, 2 + PathLen(b)) /\ p.payload = SubSeq(b, 3 + PathLen(b), Len(b))
        <4>1. At(b) + 1 = 3 /\ At(b) + PathLen(b) = 2 + PathLen(b) /\ At(b) + PathLen(b) + 1 = 3 + PathLen(b)
          BY <1>1, <3>1, SMT
        <4> QED BY <1>4, <4>1, Zenon
      <3>4. <<b[1]>> \o << >> = <<b[1]>>
        BY SMT
      <3>5. bytes = PlainBytes(b, PathLen(b))
        BY <1>5, <1>6, <3>1, <3>2, <3>3, <3>4, Zenon DEF PlainBytes
      <3> QED BY <3>1, <3>5
    <2> QED BY <2>1, <2>2
  <1>8. /\ Len(p.path) = PathLen(b) /\ Len(p.payload) = Len(b) - At(b) - PathLen(b)
        /\ Len(p.payload) =< MaxPayload /\ Len(p.path) =< MaxPath
    <2>1. Len(p.path) = PathLen(b) /\ Len(p.payload) = Len(b) - At(b) - PathLen(b)
      <3>1. At(b) \in Nat /\ At(b) + PathLen(b) =< Len(b)
        BY <1>1 DEF IsMesh
      <3>2. Len(SubSeq(b, At(b) + 1, At(b) + PathLen(b))) = PathLen(b)
        BY <1>1, <3>1, PartLength
      <3>3. Len(SubSeq(b, At(b) + PathLen(b) + 1, Len(b))) = Len(b) - At(b) - PathLen(b)
        BY <1>1, <3>1, RestLength
      <3> QED BY <1>4, <3>2, <3>3
    <2> QED BY <1>1, <2>1 DEF IsMesh
  <1>9. ~(Len(p.payload) > MaxPayload \/ p.size > 3 \/ p.hops > 63 \/ Len(p.path) > MaxPath)
    <2>1. Len(p.payload) \in Int /\ Len(p.path) \in Int /\ p.size =< 3 /\ p.hops =< 63 /\ p.size \in Int /\ p.hops \in Int
      <3>1. PathLen(b) \in Int /\ Len(b) - At(b) - PathLen(b) \in Int
        BY <1>1, <1>2
      <3>4. HashSize(b) \in 1 .. 3 /\ Hops(b) \in 0 .. 63
        BY <1>1, Zenon
      <3>2. HashSize(b) =< 3 /\ HashSize(b) \in Int /\ Hops(b) =< 63 /\ Hops(b) \in Int
        BY <3>4, SmallCounts, Zenon
      <3>3. p.size =< 3 /\ p.hops =< 63 /\ p.size \in Int /\ p.hops \in Int
        BY <1>4, <3>2, Zenon
      <3> QED BY ONLY <3>1, <3>3, <1>8
    <2>2. MaxPayload \in Int /\ MaxPath \in Int
      BY CodecAssumption
    <2> QED BY <1>8, <2>1, <2>2
  <1>10. ~(MaxPacket < Len(bytes))
    <2>1. MaxPayload \in Int /\ MaxPath \in Int
      BY CodecAssumption
    <2>2. At(b) =< 6 /\ At(b) \in Int
      BY <1>1
    <2>3. Len(b) =< 6 + MaxPath + MaxPayload
      BY <1>1, <1>2, <2>1, <2>2 DEF IsMesh
    <2>4. ~(MaxPacket < Len(b))
      BY <1>2, <2>1, <2>3 DEF MaxPacket
    <2> QED BY ONLY <1>7, <2>4, Zenon
  <1>11. EncodeMesh(p) = [ret |-> "OK", bytes |-> bytes]
    BY <1>9, <1>10 DEF EncodeMesh
  <1> QED BY <1>4, <1>7, <1>8, <1>11, Zenon

(***************************************************************************)
(* The application packet.                                                 *)
(***************************************************************************)
LEMMA ShortOfBytes ==
  ASSUME NEW x \in Octets, NEW y \in Octets
  PROVE  x + 256 * y \in Shorts
  BY SMT DEF Octets, Shorts

AppPacket(b) ==
    [kind |-> b[1], flags |-> b[2], seq |-> U16(b, 3), team |-> b[5], src |-> b[6],
     dst |-> b[7], ttl |-> b[8], body |-> SubSeq(b, AppHeader + 1, AppHeader + U16(b, 9))]

LEMMA AppDecoded ==
  ASSUME NEW b \in Seq(Octets), DecodeApp(b).ret = "OK"
  PROVE  /\ DecodeApp(b) = [ret |-> "OK", packet |-> AppPacket(b)]
         /\ U16(b, 9) \in Nat /\ 10 + U16(b, 9) =< Len(b) /\ \A i \in 1 .. 10 : b[i] \in Octets
  <1>1. Len(b) \in Nat
    BY LenProperties
  <1>2. ~(Len(b) < 10) /\ BodyFits(b)
    BY DEF DecodeApp, Fail, AppHeader
  <1>3. DecodeApp(b) = [ret |-> "OK", packet |-> AppPacket(b)]
    BY <1>2 DEF DecodeApp, AppPacket, AppHeader
  <1>4. \A i \in 1 .. 10 : b[i] \in Octets
    <2>1. \A i \in 1 .. 10 : i \in 1 .. Len(b)
      BY <1>1, <1>2, SMT
    <2> QED BY <2>1, ElementOfSeq
  <1>5. U16(b, 9) \in Shorts
    <2>1. b[9] + 256 * b[9 + 1] \in Shorts
      <3>1. b[9] \in Octets /\ b[9 + 1] \in Octets
        <4>1. b[9] \in Octets /\ b[10] \in Octets
          BY <1>4, SMT
        <4>2. 9 + 1 = 10
          BY SMT
        <4> QED BY <4>1, <4>2, Zenon
      <3> QED BY <3>1, ShortOfBytes
    <2> QED BY <2>1 DEF U16
  <1>6. U16(b, 9) \in Nat
    <2>1. \A v \in Shorts : v \in Nat
      BY SMT DEF Shorts
    <2> QED BY <1>5, <2>1, Zenon
  <1>7. 10 + U16(b, 9) =< Len(b)
    BY <1>1, <1>2, <1>6 DEF BodyFits, AppHeader
  <1> QED BY <1>3, <1>4, <1>6, <1>7

AppBytes(b, n) == <<b[1], b[2]>> \o <<b[3], b[4]>> \o <<b[5], b[6], b[7], b[8]>> \o <<b[9], b[10]>> \o SubSeq(b, 11, 10 + n)

LEMMA FourBytes == ASSUME NEW S, NEW b \in Seq(S), 8 =< Len(b)
  PROVE <<b[5], b[6], b[7], b[8]>> = SubSeq(b, 5, 8)
  BY SMT, LenProperties

LEMMA AppWhole == ASSUME NEW S, NEW b \in Seq(S), NEW n \in Nat, 10 + n =< Len(b)
  PROVE AppBytes(b, n) = SubSeq(b, 1, 10 + n)
  <1>0. Len(b) \in Nat
    BY LenProperties
  <1>1. <<b[1], b[2]>> = SubSeq(b, 1, 2) /\ <<b[3], b[4]>> = SubSeq(b, 3, 4) /\ <<b[9], b[10]>> = SubSeq(b, 9, 10)
    <2>1. 1 \in 1 .. Len(b) /\ 3 \in 1 .. Len(b) /\ 9 \in 1 .. Len(b) /\ 1 + 1 =< Len(b) /\ 3 + 1 =< Len(b) 
          /\ 9 + 1 =< Len(b) /\ 1 + 1 = 2 /\ 3 + 1 = 4 /\ 9 + 1 = 10
      BY <1>0, SMT
    <2> QED BY <2>1, TwoBytes, SMT
  <1>2. <<b[5], b[6], b[7], b[8]>> = SubSeq(b, 5, 8)
    BY <1>0, FourBytes
  <1>3. SubSeq(b, 1, 2) \o SubSeq(b, 3, 4) = SubSeq(b, 1, 4)
    <2>1. 1 =< 2 + 1 /\ 2 =< 4 /\ 4 =< Len(b) /\ 2 + 1 = 3
      BY <1>0, SMT
    <2> QED BY <2>1, Adjacent, SMT
  <1>4. SubSeq(b, 1, 4) \o SubSeq(b, 5, 8) = SubSeq(b, 1, 8)
    <2>1. 1 =< 4 + 1 /\ 4 =< 8 /\ 8 =< Len(b) /\ 4 + 1 = 5
      BY <1>0, SMT
    <2> QED BY <2>1, Adjacent, SMT
  <1>5. SubSeq(b, 1, 8) \o SubSeq(b, 9, 10) = SubSeq(b, 1, 10)
    <2>1. 1 =< 8 + 1 /\ 8 =< 10 /\ 10 =< Len(b) /\ 8 + 1 = 9
      BY <1>0, SMT
    <2> QED BY <2>1, Adjacent, SMT
  <1>6. SubSeq(b, 1, 10) \o SubSeq(b, 11, 10 + n) = SubSeq(b, 1, 10 + n)
    <2>1. 1 =< 10 + 1 /\ 10 =< 10 + n /\ 10 + n =< Len(b) /\ 10 + 1 = 11 /\ 10 + n \in Nat
      BY <1>0, SMT
    <2> QED BY <2>1, Adjacent, SMT
  <1> QED BY <1>1, <1>2, <1>3, <1>4, <1>5, <1>6, Zenon DEF AppBytes


LEMMA AppReencoded ==
  ASSUME NEW b \in Seq(Octets), DecodeApp(b).ret = "OK"
  PROVE  /\ Len(AppPacket(b).body) = U16(b, 9)
         /\ AppHeader + U16(b, 9) =< MaxPayload =>
              EncodeApp(AppPacket(b)) = [ret |-> "OK", bytes |-> SubSeq(b, 1, 10 + U16(b, 9))]
         /\ ~(AppHeader + U16(b, 9) =< MaxPayload) => EncodeApp(AppPacket(b)).ret = "BUF"
  <1> DEFINE p == AppPacket(b)
             n == U16(b, 9)
             bytes == <<p.kind, p.flags>> \o PutU16(p.seq) \o <<p.team, p.src, p.dst, p.ttl>>
                      \o PutU16(Len(p.body)) \o p.body
  <1>1. n \in Nat /\ 10 + n =< Len(b) /\ \A i \in 1 .. 10 : b[i] \in Octets
    BY AppDecoded
  <1>2. Len(b) \in Nat /\ MaxPayload \in Int
    BY LenProperties, CodecAssumption
  <1>3. /\ p.kind = b[1] /\ p.flags = b[2] /\ p.seq = U16(b, 3) /\ p.team = b[5] /\ p.src = b[6]
        /\ p.dst = b[7] /\ p.ttl = b[8] /\ p.body = SubSeq(b, 11, 10 + n)
    <2>1. AppHeader + 1 = 11 /\ AppHeader + n = 10 + n
      BY SMT DEF AppHeader
    <2> QED BY <2>1, Zenon DEF AppPacket
  <1>4. Len(p.body) = n
    <2>1. Len(SubSeq(b, 10 + 1, 10 + n)) = n
      BY <1>1, PartLength
    <2>2. 10 + 1 = 11
      BY SMT
    <2> QED BY <1>3, <2>1, <2>2, Zenon
  <1>5. b[3] \in Octets /\ b[4] \in Octets /\ b[9] \in Octets /\ b[10] \in Octets
    BY <1>1, SMT
  <1>6. U16(b, 3) = b[3] + 256 * b[4] /\ U16(b, 9) = b[9] + 256 * b[10]
    BY SMT DEF U16
  <1>7. PutU16(p.seq) = <<b[3], b[4]>> /\ PutU16(Len(p.body)) = <<b[9], b[10]>>
    <2>1. PutU16(b[3] + 256 * b[4]) = <<b[3], b[4]>> /\ PutU16(b[9] + 256 * b[10]) = <<b[9], b[10]>>
      BY <1>5, BytesInverse
    <2>2. p.seq = b[3] + 256 * b[4] /\ Len(p.body) = b[9] + 256 * b[10]
      BY ONLY <1>3, <1>4, <1>6
    <2> QED BY ONLY <2>1, <2>2
  <1>8. bytes = SubSeq(b, 1, 10 + n)
    <2>1. bytes = AppBytes(b, n)
      BY <1>3, <1>7, Zenon DEF AppBytes
    <2> QED BY <1>1, <2>1, AppWhole
  <1>9. CASE AppHeader + n =< MaxPayload
    <2>1. ~(MaxPayload < AppHeader + Len(p.body))
      <3>1. ~(MaxPayload < AppHeader + n)
        BY <1>1, <1>2, <1>9 DEF AppHeader
      <3> QED BY <1>4, <3>1, Zenon
    <2>2. EncodeApp(p) = [ret |-> "OK", bytes |-> bytes]
      BY <2>1, Zenon DEF EncodeApp
    <2> QED BY <1>4, <1>8, <1>9, <2>2
  <1>10. CASE ~(AppHeader + n =< MaxPayload)
    <2>1. MaxPayload < AppHeader + Len(p.body)
      <3>1. MaxPayload < AppHeader + n
        BY <1>1, <1>2, <1>10 DEF AppHeader
      <3> QED BY <1>4, <3>1, Zenon
    <2>2. EncodeApp(p) = Fail("BUF")
      BY <2>1, Zenon DEF EncodeApp
    <2> QED BY <1>4, <1>10, <2>2 DEF Fail
  <1> QED BY <1>9, <1>10

(***************************************************************************)
(* What is sent is heard.                                                  *)
(***************************************************************************)
LEMMA Halves ==
  ASSUME NEW v \in Shorts
  PROVE  /\ PutU16(v) \in Seq(Octets) /\ Len(PutU16(v)) = 2
         /\ PutU16(v)[1] + 256 * PutU16(v)[2] = v
  <1> DEFINE q == v \div 256
             r == v % 256
  <1>1. v \in Nat /\ v < 65536
    BY SMT DEF Shorts
  <1>2. q \in Nat /\ r \in Octets /\ v = 256 * q + r
    BY <1>1, SMT DEF Octets
  <1>3. PutU16(v) = <<r, q % 256>>
    BY Zenon DEF PutU16
  <1> HIDE DEF q, r
  <1>4. r \in Nat
    BY <1>2, SMT DEF Octets
  <1>5. q \in Octets /\ q % 256 = q
    BY <1>1, <1>2, <1>4, SMT DEF Octets
  <1>6. r + 256 * q = v
    BY <1>2, <1>4, SMT
  <1>7. PutU16(v) = <<r, q>>
    BY <1>3, <1>5, Zenon
  <1>8. <<r, q>> \in Seq(Octets) /\ Len(<<r, q>>) = 2 /\ <<r, q>>[1] = r /\ <<r, q>>[2] = q
    BY <1>2, <1>5, SMT
  <1> QED BY <1>6, <1>7, <1>8, Zenon

LEMMA AfterPrefix ==
  ASSUME NEW S, NEW u \in Seq(S), NEW v \in Seq(S), NEW m, m = Len(u) + 1, NEW n, n = Len(u) + Len(v)
  PROVE  SubSeq(u \o v, m, n) = v
  <1>1. Len(u) \in Nat /\ Len(v) \in Nat
    BY LenProperties
  <1>2. Len(SubSeq(u \o v, m, n)) = Len(v) /\ SubSeq(u \o v, m, n) \in Seq(S)
    BY <1>1, SMT
  <1>3. ASSUME NEW i \in 1 .. Len(v)
        PROVE  SubSeq(u \o v, m, n)[i] = v[i]
    BY <1>1, <1>2, SMT
  <1> QED BY <1>2, <1>3, SeqEqual

LEMMA InPrefix ==
  ASSUME NEW S, NEW u \in Seq(S), NEW v \in Seq(S), NEW i \in 1 .. Len(u)
  PROVE  (u \o v)[i] = u[i]
  BY SMT, LenProperties

(* What may be asked to be sent.                                            *)
IsApp(a) ==
    a \in [kind : Octets, flags : Octets, seq : Shorts, team : Octets, src : Octets, dst : Octets, ttl : Octets,
           body : Seq(Octets)]

HeadOf(a) == <<a.kind, a.flags>> \o PutU16(a.seq) \o <<a.team, a.src, a.dst, a.ttl>> \o PutU16(Len(a.body))

(* Two sequences and their lengths, one behind the other.                   *)
Joint(S, u, v, m, k) ==
    /\ u \o v \in Seq(S) /\ Len(u \o v) = m + k
    /\ \A i \in 1 .. m : (u \o v)[i] = u[i]
    /\ \A i \in 1 .. k : (u \o v)[m + i] = v[i]

LEMMA Laid ==
  ASSUME NEW S, NEW u \in Seq(S), NEW v \in Seq(S), NEW m \in Nat, Len(u) = m, NEW k \in Nat, Len(v) = k
  PROVE  Joint(S, u, v, m, k)
  <1>1. u \o v \in Seq(S) /\ Len(u \o v) = Len(u) + Len(v)
    BY ConcatProperties
  <1>2. \A i \in 1 .. Len(u) + Len(v) : (u \o v)[i] = IF i <= Len(u) THEN u[i] ELSE v[i - Len(u)]
    BY ConcatProperties
  <1>3. ASSUME NEW i \in 1 .. m PROVE (u \o v)[i] = u[i]
    <2>1. i \in 1 .. Len(u) + Len(v) /\ i =< Len(u)
      BY <1>3
    <2> QED BY <1>2, <2>1
  <1>4. ASSUME NEW i \in 1 .. k PROVE (u \o v)[m + i] = v[i]
    <2>1. m + i \in 1 .. Len(u) + Len(v) /\ ~(m + i =< Len(u)) /\ (m + i) - Len(u) = i
      BY <1>4
    <2> QED BY <1>2, <2>1
  <1> QED BY <1>1, <1>3, <1>4 DEF Joint

LEMMA HeadIs ==
  ASSUME NEW a, IsApp(a), Len(a.body) \in Shorts
  PROVE  /\ HeadOf(a) \in Seq(Octets) /\ Len(HeadOf(a)) = 10
         /\ HeadOf(a)[1] = a.kind /\ HeadOf(a)[2] = a.flags /\ HeadOf(a)[5] = a.team /\ HeadOf(a)[6] = a.src 
         /\ HeadOf(a)[7] = a.dst /\ HeadOf(a)[8] = a.ttl
         /\ HeadOf(a)[3] + 256 * HeadOf(a)[4] = a.seq
         /\ HeadOf(a)[9] + 256 * HeadOf(a)[10] = Len(a.body)
  <1> DEFINE s == PutU16(a.seq)
             n == PutU16(Len(a.body))
  <1>1. /\ a.kind \in Octets /\ a.flags \in Octets /\ a.team \in Octets /\ a.src \in Octets /\ a.dst \in Octets
        /\ a.ttl \in Octets /\ a.seq \in Shorts /\ a.body \in Seq(Octets)
    BY DEF IsApp
  <1>2. s \in Seq(Octets) /\ Len(s) = 2 /\ s[1] + 256 * s[2] = a.seq
    BY <1>1, Halves
  <1>3. n \in Seq(Octets) /\ Len(n) = 2 /\ n[1] + 256 * n[2] = Len(a.body)
    BY Halves
  <1> HIDE DEF s, n
  <1> DEFINE k == <<a.kind, a.flags>>
             t == <<a.team, a.src, a.dst, a.ttl>>
  <1>4. /\ k \in Seq(Octets) /\ Len(k) = 2 /\ k[1] = a.kind /\ k[2] = a.flags
        /\ t \in Seq(Octets) /\ Len(t) = 4 /\ t[1] = a.team /\ t[2] = a.src /\ t[3] = a.dst /\ t[4] = a.ttl
    BY <1>1, SMT
  <1>5. HeadOf(a) = k \o s \o t \o n
    BY Zenon DEF HeadOf, s, n
  <1> HIDE DEF k, t
  <1>6. 2 \in Nat /\ 4 \in Nat /\ 8 \in Nat /\ 2 + 2 = 4 /\ 4 + 4 = 8 /\ 8 + 2 = 10
    BY SMT
  <1>7. /\ k \o s \in Seq(Octets) /\ Len(k \o s) = 4
        /\ \A i \in 1 .. 2 : (k \o s)[i] = k[i]
        /\ \A i \in 1 .. 2 : (k \o s)[2 + i] = s[i]
    <2>1. Joint(Octets, k, s, 2, 2)
      BY <1>2, <1>4, <1>6, Laid, Zenon
    <2> QED BY <1>6, <2>1 DEF Joint
  <1>8. /\ k \o s \o t \in Seq(Octets) /\ Len(k \o s \o t) = 8
        /\ \A i \in 1 .. 4 : (k \o s \o t)[i] = (k \o s)[i]
        /\ \A i \in 1 .. 4 : (k \o s \o t)[4 + i] = t[i]
    <2>1. Joint(Octets, k \o s, t, 4, 4)
      BY <1>4, <1>6, <1>7, Laid, Zenon
    <2> QED BY <1>6, <2>1 DEF Joint
  <1>9. /\ HeadOf(a) \in Seq(Octets) /\ Len(HeadOf(a)) = 10
        /\ \A i \in 1 .. 8 : HeadOf(a)[i] = (k \o s \o t)[i]
        /\ \A i \in 1 .. 2 : HeadOf(a)[8 + i] = n[i]
    <2>1. Joint(Octets, k \o s \o t, n, 8, 2)
      BY <1>3, <1>6, <1>8, Laid, Zenon
    <2> QED BY <1>5, <1>6, <2>1 DEF Joint
  <1>10. /\ HeadOf(a)[1] = a.kind /\ HeadOf(a)[2] = a.flags /\ HeadOf(a)[5] = a.team /\ HeadOf(a)[6] = a.src 
         /\ HeadOf(a)[7] = a.dst /\ HeadOf(a)[8] = a.ttl /\ HeadOf(a)[3] = s[1] /\ HeadOf(a)[4] = s[2]
         /\ HeadOf(a)[9] = n[1] /\ HeadOf(a)[10] = n[2]
    <2>1. /\ 1 \in 1 .. 2 /\ 2 \in 1 .. 2 /\ 1 \in 1 .. 4 /\ 2 \in 1 .. 4 /\ 3 \in 1 .. 4 /\ 4 \in 1 .. 4
          /\ 1 \in 1 .. 8 /\ 2 \in 1 .. 8 /\ 3 \in 1 .. 8 /\ 4 \in 1 .. 8 /\ 5 \in 1 .. 8 /\ 6 \in 1 .. 8
          /\ 7 \in 1 .. 8 /\ 8 \in 1 .. 8
          /\ 2 + 1 = 3 /\ 2 + 2 = 4 /\ 4 + 1 = 5 /\ 4 + 2 = 6 /\ 4 + 3 = 7 /\ 4 + 4 = 8 /\ 8 + 1 = 9 /\ 8 + 2 = 10
      BY SMT
    <2>2. (k \o s)[1] = a.kind /\ (k \o s)[2] = a.flags /\ (k \o s)[3] = s[1] /\ (k \o s)[4] = s[2]
      BY <1>4, <1>7, <2>1, Zenon
    <2>3. /\ (k \o s \o t)[1] = a.kind /\ (k \o s \o t)[2] = a.flags /\ (k \o s \o t)[3] = s[1]
          /\ (k \o s \o t)[4] = s[2] /\ (k \o s \o t)[5] = a.team /\ (k \o s \o t)[6] = a.src
          /\ (k \o s \o t)[7] = a.dst /\ (k \o s \o t)[8] = a.ttl
      BY <1>4, <1>8, <2>1, <2>2, Zenon
    <2> QED BY <1>9, <2>1, <2>3, Zenon
  <1> QED BY <1>2, <1>3, <1>9, <1>10, Zenon

LEMMA AppRoundTrip ==
  ASSUME NEW a, IsApp(a), AppHeader + Len(a.body) =< MaxPayload
  PROVE  /\ EncodeApp(a).ret = "OK" /\ EncodeApp(a).bytes \in Seq(Octets)
         /\ Len(EncodeApp(a).bytes) = 10 + Len(a.body)
         /\ DecodeApp(EncodeApp(a).bytes) = [ret |-> "OK", packet |-> a]
  <1> DEFINE h == HeadOf(a)
             b == h \o a.body
             n == Len(a.body)
  <1>1. a.body \in Seq(Octets)
    BY DEF IsApp
  <1>2. n \in Nat /\ MaxPayload \in Nat /\ MaxPayload < 65536
    BY <1>1, LenProperties, CodecAssumption
  <1>3. n \in Shorts
    BY <1>2, SMT DEF Shorts, AppHeader
  <1>4. ~(MaxPayload < AppHeader + n)
    BY <1>2, SMT DEF AppHeader
  <1>5. EncodeApp(a) = [ret |-> "OK", bytes |-> b]
    BY <1>4, Zenon DEF EncodeApp, HeadOf
  <1>6. /\ h \in Seq(Octets) /\ Len(h) = 10
        /\ h[1] = a.kind /\ h[2] = a.flags /\ h[5] = a.team /\ h[6] = a.src /\ h[7] = a.dst /\ h[8] = a.ttl
        /\ h[3] + 256 * h[4] = a.seq /\ h[9] + 256 * h[10] = n
    BY <1>3, HeadIs
  <1> HIDE DEF h
  <1>7. ASSUME NEW i \in 1 .. 10 PROVE b[i] = h[i]
    <2>1. i \in 1 .. Len(h)
      BY <1>6, Zenon
    <2> QED BY <1>1, <1>6, <2>1, InPrefix, Zenon
  <1>8. /\ b[1] = a.kind /\ b[2] = a.flags /\ b[5] = a.team /\ b[6] = a.src /\ b[7] = a.dst /\ b[8] = a.ttl
        /\ b[3] + 256 * b[4] = a.seq /\ b[9] + 256 * b[10] = n
    <2>1. /\ b[1] = h[1] /\ b[2] = h[2] /\ b[3] = h[3] /\ b[4] = h[4] /\ b[5] = h[5]
          /\ b[6] = h[6] /\ b[7] = h[7] /\ b[8] = h[8] /\ b[9] = h[9] /\ b[10] = h[10]
      <3>1. 1 \in 1 .. 10 /\ 2 \in 1 .. 10 /\ 3 \in 1 .. 10 /\ 4 \in 1 .. 10 /\ 5 \in 1 .. 10
            /\ 6 \in 1 .. 10 /\ 7 \in 1 .. 10 /\ 8 \in 1 .. 10 /\ 9 \in 1 .. 10 /\ 10 \in 1 .. 10
        BY SMT
      <3> QED BY <1>7, <3>1, Zenon
    <2> QED BY <1>6, <2>1, Zenon
  <1>9. b \in Seq(Octets) /\ Len(b) = 10 + n
    <2>1. b \in Seq(Octets) /\ Len(b) = Len(h) + n
      BY <1>1, <1>6, ConcatProperties, Zenon
    <2> QED BY <1>6, <2>1, Zenon
  <1>10. SubSeq(b, AppHeader + 1, AppHeader + n) = a.body
    <2>1. AppHeader + 1 = Len(h) + 1 /\ AppHeader + n = Len(h) + n
      BY <1>6, Zenon DEF AppHeader
    <2>2. h \in Seq(Octets) /\ a.body \in Seq(Octets) /\ n = Len(a.body)
      BY <1>1, <1>6, Zenon
    <2>3. SubSeq(h \o a.body, AppHeader + 1, AppHeader + n) = a.body
      BY <2>1, <2>2, AfterPrefix
    <2> QED BY <2>3
  <1>11. U16(b, 3) = a.seq /\ U16(b, 9) = n
    <2>1. 3 + 1 = 4 /\ 9 + 1 = 10
      BY SMT
    <2> QED BY <1>8, <2>1, Zenon DEF U16
  <1> HIDE DEF b
  <1>12. ~(Len(b) < AppHeader) /\ BodyFits(b)
    <2>1. ~(Len(b) < 10) /\ Len(b) >= 10 + n
      BY <1>2, <1>9
    <2> QED BY <1>11, <2>1, Zenon DEF AppHeader, BodyFits
  <1>13. DecodeApp(b) = [ret |-> "OK", packet |-> [kind |-> a.kind, flags |-> a.flags, seq |-> a.seq, team |-> a.team,
            src |-> a.src, dst |-> a.dst, ttl |-> a.ttl, body |-> a.body]]
    BY <1>8, <1>10, <1>11, <1>12, Zenon DEF DecodeApp
  <1>14. a = [kind |-> a.kind, flags |-> a.flags, seq |-> a.seq, team |-> a.team,
              src |-> a.src, dst |-> a.dst, ttl |-> a.ttl, body |-> a.body]
    BY DEF IsApp
  <1> QED BY <1>5, <1>9, <1>13, <1>14

Carried(hash, app, route) ==
    [version |-> 0, type |-> GroupData, route |-> route, codes |-> << >>, hops |-> 0, size |-> 1,
     path |-> << >>, payload |-> <<hash, 0, 0>> \o app]

LEMMA HeaderOfGroupData ==
  ASSUME NEW route \in {Flood, Direct}
  PROVE  /\ ~HasCodes(route) /\ 4 * 6 + route \in Octets
         /\ 64 * (0 % 4) + 4 * (6 % 16) + (route % 4) = 4 * 6 + route
         /\ (4 * 6 + route) % 4 = route /\ ((4 * 6 + route) \div 4) % 16 = 6 /\ (4 * 6 + route) \div 64 = 0
  <1>1. route = 1 \/ route = 2
    BY DEF Flood, Direct
  <1>2. CASE route = 1
    BY <1>2, SMT DEF Flood, Direct, HasCodes, TransportFlood, TransportDirect, Octets
  <1>3. CASE route = 2
    BY <1>3, SMT DEF Flood, Direct, HasCodes, TransportFlood, TransportDirect, Octets
  <1> QED BY <1>1, <1>2, <1>3

LEMMA PairLaid ==
  ASSUME NEW x \in Octets, NEW y \in Octets
  PROVE  <<x>> \o <<y>> = <<x, y>>
  <1>1. <<x>> \in Seq(Octets) /\ <<y>> \in Seq(Octets) /\ Len(<<x>>) = 1 /\ Len(<<y>>) = 1
    OBVIOUS
  <1>2. Joint(Octets, <<x>>, <<y>>, 1, 1)
    BY <1>1, Laid
  <1>3. /\ <<x>> \o <<y>> \in Seq(Octets) /\ Len(<<x>> \o <<y>>) = 2
        /\ (<<x>> \o <<y>>)[1] = x /\ (<<x>> \o <<y>>)[2] = y
    BY <1>2 DEF Joint
  <1>4. /\ <<x, y>> \in Seq(Octets) /\ Len(<<x, y>>) = 2
        /\ \A i \in 1 .. 2 : (<<x>> \o <<y>>)[i] = <<x, y>>[i]
    BY <1>3
  <1> QED BY <1>3, <1>4, SeqEqual

LEMMA MeshRoundTrip ==
  ASSUME NEW hash \in Octets, NEW app \in Seq(Octets), NEW route \in {Flood, Direct}, Len(app) + 3 =< MaxPayload
  PROVE  /\ EncodeMesh(Carried(hash, app, route)).ret = "OK"
         /\ DecodeMesh(EncodeMesh(Carried(hash, app, route)).bytes)
              = [ret |-> "OK", packet |-> Carried(hash, app, route)]
  <1> DEFINE p == Carried(hash, app, route)
             w == <<hash, 0, 0>>
             h == <<4 * 6 + route, 0>>
             b == h \o (w \o app)
  <1>1. Len(app) \in Nat /\ MaxPayload \in Nat /\ MaxPath \in Nat
    BY LenProperties, CodecAssumption
  <1>2. /\ ~HasCodes(route) /\ 4 * 6 + route \in Octets
        /\ 64 * (0 % 4) + 4 * (6 % 16) + (route % 4) = 4 * 6 + route
        /\ (4 * 6 + route) % 4 = route /\ ((4 * 6 + route) \div 4) % 16 = 6 /\ (4 * 6 + route) \div 64 = 0
    BY HeaderOfGroupData
  <1>3. 0 \in Octets
    BY SMT DEF Octets
  <1>4. w \in Seq(Octets) /\ Len(w) = 3 /\ h \in Seq(Octets) /\ Len(h) = 2 /\ h[1] = 4 * 6 + route /\ h[2] = 0
    BY <1>2, <1>3, SMT
  <1>5. MakeHeader(p) = 4 * 6 + route
    <2>1. p.version = 0 /\ p.type = 6 /\ p.route = route
      BY Zenon DEF Carried, GroupData
    <2> QED BY <1>2, <2>1, Zenon DEF MakeHeader
  <1>6. /\ p.hops = 0 /\ p.size = 1 /\ p.codes = << >> /\ p.path = << >> /\ p.payload = w \o app
    BY Zenon DEF Carried
  <1>7. MakePathLength(p.hops, IF p.size = 0 THEN 1 ELSE p.size) = 0
    <2>1. (IF p.size = 0 THEN 1 ELSE p.size) = 1
      BY <1>6, SMT
    <2>2. 64 * (1 - 1) + 0 = 0
      BY SMT
    <2> QED BY <1>6, <2>1, <2>2, Zenon DEF MakePathLength
  <1>8. <<4 * 6 + route>> \o << >> \o <<0>> \o << >> \o (w \o app) = b
    <2>1. <<4 * 6 + route>> \o << >> = <<4 * 6 + route>> /\ <<4 * 6 + route>> \o <<0>> = h
      <3>1. <<4 * 6 + route>> \in Seq(Octets)
        BY <1>2
      <3>2. <<4 * 6 + route>> \o <<0>> = <<4 * 6 + route, 0>>
        BY <1>2, <1>3, PairLaid
      <3> QED BY <3>1, <3>2, ConcatEmptySeq
    <2>2. h \o << >> = h
      BY <1>4, ConcatEmptySeq
    <2> QED BY <2>1, <2>2, Zenon
  <1>9. w \o app \in Seq(Octets) /\ Len(w \o app) = 3 + Len(app)
    BY <1>4, ConcatProperties
  <1> HIDE DEF w, h
  <1>10. b \in Seq(Octets) /\ Len(b) = 2 + (3 + Len(app))
    <2>1. b \in Seq(Octets) /\ Len(b) = Len(h) + Len(w \o app)
      BY <1>4, <1>9, ConcatProperties, Zenon
    <2> QED BY <1>4, <1>9, <2>1, Zenon
  <1>11. EncodeMesh(p) = [ret |-> "OK", bytes |-> b]
    <2>1. ~(Len(p.payload) > MaxPayload \/ p.size > 3 \/ p.hops > 63 \/ Len(p.path) > MaxPath)
      <3>1. ~(3 + Len(app) > MaxPayload) /\ ~(1 > 3) /\ ~(0 > 63) /\ ~(0 > MaxPath) /\ Len(<< >>) = 0
        BY <1>1, SMT
      <3> QED BY <1>6, <1>9, <3>1, Zenon
    <2>2. ~(MaxPacket < Len(b))
      BY <1>1, <1>10, SMT DEF MaxPacket
    <2>3. <<MakeHeader(p)>> \o (IF p.codes = << >> THEN << >> ELSE PutU16(p.codes[1]) \o PutU16(p.codes[2]))
          \o <<MakePathLength(p.hops, IF p.size = 0 THEN 1 ELSE p.size)>> \o p.path \o p.payload = b
      <3>1. (IF p.codes = << >> THEN << >> ELSE PutU16(p.codes[1]) \o PutU16(p.codes[2])) = << >>
        BY <1>6
      <3> QED BY <1>5, <1>6, <1>7, <1>8, <3>1, Zenon
    <2> QED BY <2>1, <2>2, <2>3, Zenon DEF EncodeMesh
  <1>12. b[1] = 4 * 6 + route /\ b[2] = 0
    <2>1. 1 \in 1 .. Len(h) /\ 2 \in 1 .. Len(h)
      BY <1>4, SMT
    <2> QED BY <1>4, <1>9, <2>1, InPrefix
  <1>13. From(b, 3) = w \o app
    <2> DEFINE v == w \o app
    <2>1. h \in Seq(Octets) /\ v \in Seq(Octets) /\ Len(h) = 2 /\ Len(v) = 3 + Len(app)
      BY <1>4, <1>9
    <2>2. Len(b) = 2 + (3 + Len(app)) /\ b = h \o v
      BY <1>10
    <2> DEFINE e == 2 + (3 + Len(app))
    <2> DEFINE m == Len(h) + 1
    <2>3. m = Len(h) + 1 /\ e = Len(h) + Len(v) /\ m = 3
      BY <1>1, <2>1
    <2> HIDE DEF v, b, e, m
    <2>4. SubSeq(h \o v, m, e) = v
      <3>1. h \in Seq(Octets) /\ v \in Seq(Octets)
        BY <2>1
      <3>2. m = Len(h) + 1 /\ e = Len(h) + Len(v)
        BY <2>3
      <3> QED BY ONLY <3>1, <3>2, AfterPrefix, SMT
    <2> QED BY <2>2, <2>3, <2>4, Zenon DEF From, v, e
  <1> HIDE DEF b
  <1>14. SubSeq(b, 3, 2) = << >>
    BY <1>10, SubSeqEmpty, SMT
  <1>15. DecodeMesh(b) = [ret |-> "OK", packet |-> p]
    <2>1. ~(Len(b) < 2) /\ ~TooLong(b, 2, 0)
      BY <1>1, <1>10, SMT DEF TooLong
    <2>2. b[1] % 4 = route /\ b[1] \div 64 = 0 /\ (b[1] \div 4) % 16 = 6
      BY <1>2, <1>12, Zenon
    <2>3. b[2] % 64 = 0 /\ b[2] \div 64 + 1 = 1 /\ 0 * 1 = 0 /\ ~(1 > 3) /\ 2 + 1 = 3 /\ 2 + 0 = 2 /\ 2 + 0 + 1 = 3
      <3>1. 0 % 64 = 0 /\ 0 \div 64 + 1 = 1 /\ 0 * 1 = 0 /\ ~(1 > 3) /\ 2 + 1 = 3 /\ 2 + 0 = 2 /\ 2 + 0 + 1 = 3
        BY SMT
      <3> QED BY <1>12, <3>1, Zenon
    <2>4. DecodeMesh(b) = [ret |-> "OK", packet |-> [version |-> 0, type |-> 6, route |-> route, codes |-> << >>,
                             hops |-> 0, size |-> 1, path |-> << >>, payload |-> w \o app]]
      BY <1>2, <1>13, <1>14, <2>1, <2>2, <2>3, ZenonT(60) DEF DecodeMesh
    <2> QED BY <2>4, Zenon DEF Carried, GroupData, w
  <1>16. EncodeMesh(p).ret = "OK" /\ EncodeMesh(p).bytes = b
    BY <1>11
  <1> QED BY <1>15, <1>16, Zenon

LEMMA SentHeard ==
  ASSUME NEW hash \in Octets, NEW a, IsApp(a), Len(a.body) + 13 =< MaxPayload
  PROVE  Sent(a, hash).ret = "OK" /\ Received(Sent(a, hash).bytes, hash) = [ret |-> "OK", packet |-> a]
  <1> DEFINE app == EncodeApp(a).bytes
             route == IF a.dst = 255 THEN Flood ELSE Direct
             b == EncodeMesh(Carried(hash, app, route)).bytes
  <1>1. Len(a.body) \in Nat /\ MaxPayload \in Nat
    <2>1. Len(a.body) \in Nat
      BY LenProperties DEF IsApp
    <2>2. MaxPayload \in Nat
      BY CodecAssumption, SMT
    <2> QED BY <2>1, <2>2
  <1>2. AppHeader + Len(a.body) =< MaxPayload
    BY <1>1, SMT DEF AppHeader
  <1>3. /\ EncodeApp(a).ret = "OK" /\ app \in Seq(Octets) /\ Len(app) = 10 + Len(a.body)
        /\ DecodeApp(app) = [ret |-> "OK", packet |-> a]
    BY <1>2, AppRoundTrip
  <1>4. Len(app) + 3 =< MaxPayload /\ ~(Len(app) + Wrapper > MaxPayload) /\ Len(app) \in Nat
    BY <1>1, <1>3, SMT DEF Wrapper
  <1>5. route \in {Flood, Direct} /\ ~HasCodes(route)
    BY HeaderOfGroupData, Zenon
  <1> HIDE DEF app, route
  <1>6. /\ EncodeMesh(Carried(hash, app, route)).ret = "OK"
        /\ DecodeMesh(b) = [ret |-> "OK", packet |-> Carried(hash, app, route)]
    BY <1>3, <1>4, <1>5, MeshRoundTrip, Zenon
  <1>7. Wrap(hash, app, route) = [ret |-> "OK", packet |-> Carried(hash, app, route)]
    BY <1>4, <1>5, Zenon DEF Wrap, Carried
  <1>8. Sent(a, hash) = EncodeMesh(Carried(hash, app, route))
    BY <1>3, <1>7 DEF Sent, app, route
  <1> HIDE DEF b
  <1>9. Unwrap(Carried(hash, app, route)) = [ret |-> "OK", hash |-> hash, app |-> app]
    <2>1. <<hash, 0, 0>> \in Seq(Octets) /\ Len(<<hash, 0, 0>>) = 3 /\ <<hash, 0, 0>>[1] = hash
      BY SMT DEF Octets
    <2>2. Joint(Octets, <<hash, 0, 0>>, app, 3, Len(app))
      BY <1>3, <1>4, <2>1, Laid
    <2>3. Len(<<hash, 0, 0>> \o app) = 3 + Len(app) /\ (<<hash, 0, 0>> \o app)[1] = hash
      BY <2>1, <2>2 DEF Joint
    <2>4. From(<<hash, 0, 0>> \o app, 4) = app
      <3>1. 4 = Len(<<hash, 0, 0>>) + 1 /\ 3 + Len(app) = Len(<<hash, 0, 0>>) + Len(app)
        BY <2>1, SMT
      <3>2. SubSeq(<<hash, 0, 0>> \o app, 4, 3 + Len(app)) = app
        BY <1>3, <2>1, <3>1, AfterPrefix
      <3> QED BY <2>3, <3>2, Zenon DEF From
    <2>5. ~(Len(<<hash, 0, 0>> \o app) < Wrapper) /\ Wrapper + 1 = 4
      BY <1>4, <2>3, SMT DEF Wrapper
    <2>6. Carried(hash, app, route).type = GroupData /\ Carried(hash, app, route).payload = <<hash, 0, 0>> \o app
      BY Zenon DEF Carried
    <2> QED BY <2>3, <2>4, <2>5, <2>6, Zenon DEF Unwrap
  <1>10. Received(b, hash) = DecodeApp(app)
    BY <1>6, <1>9 DEF Received
  <1> QED BY <1>3, <1>6, <1>8, <1>10, Zenon DEF b

LEMMA TooLongToSend ==
  ASSUME NEW hash \in Octets, NEW a, IsApp(a), ~(Len(a.body) + 13 =< MaxPayload)
  PROVE  Sent(a, hash).ret = "BUF"
  <1>1. Len(a.body) \in Nat /\ MaxPayload \in Nat
    <2>1. Len(a.body) \in Nat
      BY LenProperties DEF IsApp
    <2>2. MaxPayload \in Nat
      BY CodecAssumption, SMT
    <2> QED BY <2>1, <2>2
  <1>2. CASE MaxPayload < AppHeader + Len(a.body)
    <2>1. EncodeApp(a) = [ret |-> "BUF"]
      BY <1>2, Zenon DEF EncodeApp, Fail
    <2> QED BY <2>1 DEF Sent
  <1>3. CASE ~(MaxPayload < AppHeader + Len(a.body))
    <2>1. AppHeader + Len(a.body) =< MaxPayload
      BY <1>1, <1>3, SMT DEF AppHeader
    <2>2. EncodeApp(a).ret = "OK" /\ Len(EncodeApp(a).bytes) = 10 + Len(a.body)
      BY <2>1, AppRoundTrip
    <2>3. Len(EncodeApp(a).bytes) + Wrapper > MaxPayload
      <3>1. 10 + Len(a.body) + Wrapper > MaxPayload
        BY <1>1, SMT DEF Wrapper
      <3> QED BY <2>2, <3>1, Zenon
    <2>4. \A route : Wrap(hash, EncodeApp(a).bytes, route) = [ret |-> "BUF"]
      BY <2>3, Zenon DEF Wrap, Fail
    <2> QED BY <2>2, <2>4 DEF Sent
  <1> QED BY <1>2, <1>3

(* Whatever packet is to be sent, with any fields, sequence number and      *)
(* body: the next node hears it as it was, unless its body is too long,     *)
(* and then the sender is told so.  (sle_team_send_app and the start of     *)
(* sle_team_node_on_packet.)                                                *)
THEOREM EveryPacketIsHeard ==
  ASSUME NEW hash \in Octets, NEW a, IsApp(a)
  PROVE  ComesBack(a, hash)
  <1>1. Len(a.body) + AppHeader + Wrapper = Len(a.body) + 13
    <2>1. Len(a.body) \in Nat
      BY LenProperties DEF IsApp
    <2> QED BY <2>1, SMT DEF AppHeader, Wrapper
  <1>2. CASE Len(a.body) + 13 =< MaxPayload
    BY <1>1, <1>2, SentHeard, Zenon DEF ComesBack
  <1>3. CASE ~(Len(a.body) + 13 =< MaxPayload)
    BY <1>1, <1>3, TooLongToSend, Zenon DEF ComesBack
  <1> QED BY <1>2, <1>3

(***************************************************************************)
(* The four parts, for every buffer.                                       *)
(***************************************************************************)
IsBuffer == buf \in Seq(Octets)

LEMMA MeshFits ==
  ASSUME IsBuffer PROVE DecodedFits /\ MeshInverse
  <1> SUFFICES ASSUME DecodeMesh(buf).ret = "OK"
               PROVE  /\ LET d == DecodeMesh(buf) IN
                         /\ Len(d.packet.path) =< MaxPath /\ Len(d.packet.payload) =< MaxPayload
                         /\ d.packet.size * d.packet.hops = Len(d.packet.path)
                      /\ EncodeMesh(DecodeMesh(buf).packet) = [ret |-> "OK", bytes |-> buf]
    BY DEF DecodedFits, MeshInverse
  <1>1. buf \in Seq(Octets)
    BY DEF IsBuffer
  <1>2. DecodeMesh(buf).packet = MeshPacket(buf)
    BY <1>1, MeshDecoded
  <1>3. /\ MeshPacket(buf).hops = Hops(buf) /\ MeshPacket(buf).size = HashSize(buf)
        /\ Len(MeshPacket(buf).path) = PathLen(buf) /\ Len(MeshPacket(buf).path) =< MaxPath
        /\ Len(MeshPacket(buf).payload) =< MaxPayload
    BY <1>1, MeshReencoded
  <1>4. Hops(buf) \in 0 .. 63 /\ HashSize(buf) \in 1 .. 3
    BY <1>1, MeshDecoded
  <1>5. HashSize(buf) * Hops(buf) = PathLen(buf)
    BY <1>4, SMT DEF PathLen
  <1>6. EncodeMesh(MeshPacket(buf)) = [ret |-> "OK", bytes |-> buf]
    BY <1>1, MeshReencoded
  <1> QED BY <1>2, <1>3, <1>5, <1>6, Zenon

LEMMA AppFits ==
  ASSUME IsBuffer PROVE AppInverse
  <1> DEFINE n == U16(buf, 9)
             p == AppPacket(buf)
  <1> SUFFICES ASSUME DecodeApp(buf).ret = "OK"
               PROVE  LET d == DecodeApp(buf) IN
                      /\ AppHeader + Len(d.packet.body) =< Len(buf)
                      /\ IF AppHeader + Len(d.packet.body) =< MaxPayload
                           THEN EncodeApp(d.packet).ret = "OK" /\ IsPrefix(EncodeApp(d.packet).bytes, buf)
                         ELSE EncodeApp(d.packet).ret = "BUF"
    BY DEF AppInverse
  <1>1. buf \in Seq(Octets)
    BY DEF IsBuffer
  <1>2. DecodeApp(buf).packet = p /\ n \in Nat /\ 10 + n =< Len(buf)
    BY <1>1, AppDecoded
  <1>3. /\ Len(p.body) = n
        /\ AppHeader + n =< MaxPayload => EncodeApp(p) = [ret |-> "OK", bytes |-> SubSeq(buf, 1, 10 + n)]
        /\ ~(AppHeader + n =< MaxPayload) => EncodeApp(p).ret = "BUF"
    BY <1>1, AppReencoded
  <1>4. IsPrefix(SubSeq(buf, 1, 10 + n), buf)
    <2> DEFINE u == SubSeq(buf, 1, 10 + n)
    <2>1. u \in Seq(Octets) /\ Len(u) = 10 + n
      BY <1>1, <1>2, LenProperties, SMT
    <2>2. SubSeq(u, 1, Len(u)) = u
      BY <2>1, SubSeqFull
    <2> QED BY <1>2, <2>1, <2>2, Zenon DEF IsPrefix
  <1>5. AppHeader + n =< Len(buf)
    BY <1>2 DEF AppHeader
  <1> HIDE DEF p, n
  <1>6. CASE AppHeader + n =< MaxPayload
    <2>1. EncodeApp(p).ret = "OK" /\ EncodeApp(p).bytes = SubSeq(buf, 1, 10 + n)
      BY <1>3, <1>6
    <2> QED BY <1>2, <1>3, <1>4, <1>5, <1>6, <2>1, Zenon
  <1>7. CASE ~(AppHeader + n =< MaxPayload)
    BY <1>2, <1>3, <1>5, <1>7, Zenon
  <1> QED BY <1>6, <1>7

LEMMA BufferIsHeard ==
  ASSUME IsBuffer PROVE SentIsHeard
  <1>1. ASSUME buf # << >>, NEW seq \in Shorts, NEW dst \in Octets PROVE ComesBack(Probe(seq, dst), 9)
    <2> DEFINE a == Probe(seq, dst)
    <2>1. Head(buf) \in Octets /\ Tail(buf) \in Seq(Octets)
      BY <1>1, HeadTailProperties DEF IsBuffer
    <2>2. 0 \in Octets /\ 1 \in Octets /\ 3 \in Octets /\ 7 \in Octets /\ 9 \in Octets
      BY SMT DEF Octets
    <2>3. IsApp(a)
      BY <2>1, <2>2, SMT DEF IsApp, Probe
    <2> QED BY <2>2, <2>3, EveryPacketIsHeard
  <1>2. {255, 65280} \subseteq Shorts /\ {1, 255} \subseteq Octets
    BY SMT DEF Shorts, Octets
  <1>3. buf # << >> => \A seq \in {255, 65280}, dst \in {1, 255} : ComesBack(Probe(seq, dst), 9)
    BY <1>1, <1>2, SMT
  <1> QED BY <1>3, SMT DEF SentIsHeard

(* Encoding and decoding are each other's inverse, in both layers, for      *)
(* every buffer and any limits of path and payload.                         *)
THEOREM CodecHolds == CodecSpec => []CodecInverse
  <1>1. CodecInit => IsBuffer
    BY DEF CodecInit, IsBuffer
  <1>2. IsBuffer /\ [CodecNext]_buf => IsBuffer'
    <2> SUFFICES ASSUME IsBuffer, [CodecNext]_buf PROVE IsBuffer'
      OBVIOUS
    <2>1. ASSUME NEW b \in Byte, buf' = Append(buf, b) PROVE IsBuffer'
      <3>1. b \in Octets
        BY CodecAssumption DEF Octets
      <3> QED BY <2>1, <3>1, AppendProperties DEF IsBuffer
    <2> QED BY <2>1 DEF CodecNext, IsBuffer
  <1>3. IsBuffer => CodecInverse
    BY MeshFits, AppFits, BufferIsHeard DEF CodecInverse
  <1> QED BY <1>1, <1>2, <1>3, PTL DEF CodecSpec
=============================================================================
