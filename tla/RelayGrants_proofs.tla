-------------------------- MODULE RelayGrants_proofs --------------------------
(***************************************************************************)
(* How many relays a leader plans, for a table, a direct limit and a memory *)
(* of any size and for any setting of the operator; and what the grants    *)
(* that it gives and takes guarantee, for any members and any signals.     *)
(***************************************************************************)
EXTENDS RelayGrants, FiniteSetTheorems, TLAPS

(* What team_ceil_div_u16_to_u8 computes.                                   *)
LEMMA CeilDivRounds ==
    ASSUME NEW a \in Nat, NEW b \in Nat \ {0}
    PROVE  /\ CeilDiv(a, b) \in Nat
           /\ a =< b * CeilDiv(a, b)
           /\ b * CeilDiv(a, b) < a + b
  <1> DEFINE n == a + b - 1
  <1>1. n \in Nat /\ n \div b \in Nat /\ n % b \in 0 .. b - 1
    OBVIOUS
  <1>2. n = b * (n \div b) + (n % b)
    OBVIOUS
  <1>3. b * (n \div b) \in Nat
    BY <1>1
  <1> HIDE DEF n
  <1>4. n = a + b - 1
    BY DEF n
  <1> QED
    BY <1>1, <1>2, <1>3, <1>4 DEF CeilDiv, n

(* Products keep the order of their factors.                                *)
LEMMA ProductOrder ==
    ASSUME NEW b \in Nat, NEW x \in Nat, NEW y \in Nat, x =< y
    PROVE  b * x =< b * y /\ b * x \in Nat /\ b * y \in Nat
  <1> DEFINE k == y - x
  <1>1. k \in Nat /\ y = x + k
    OBVIOUS
  <1>2. b * y = b * x + b * k
    BY <1>1
  <1>3. b * k \in Nat /\ b * x \in Nat
    BY <1>1
  <1> QED
    BY <1>2, <1>3

(* The number of groups grows with what is divided.                         *)
LEMMA CeilDivGrows ==
    ASSUME NEW a \in Nat, NEW c \in Nat, a =< c, NEW b \in Nat \ {0}
    PROVE  CeilDiv(a, b) =< CeilDiv(c, b)
  <1> DEFINE q == CeilDiv(a, b)
             r == CeilDiv(c, b)
  <1>1. /\ q \in Nat /\ b * q < a + b
        /\ r \in Nat /\ c =< b * r
    BY CeilDivRounds
  <1>2. b * q \in Nat /\ b * r \in Nat
    BY <1>1
  <1>3. b * q < b * r + b
    BY <1>1, <1>2
  <1> HIDE DEF q, r
  <1>4. CASE q > r
    <2>1. b * (r + 1) =< b * q
      BY <1>1, <1>4, ProductOrder
    <2>2. b * (r + 1) = b * r + b
      BY <1>1
    <2> QED
      BY <2>1, <2>2, <1>2, <1>3
  <1>5. CASE q =< r
    BY <1>5 DEF q, r
  <1> QED
    BY <1>1, <1>4, <1>5

LEMMA Leasts ==
    ASSUME NEW a \in Nat, NEW b \in Nat
    PROVE  Least(a, b) \in Nat /\ Least(a, b) =< a /\ Least(a, b) =< b /\ Least(a, b) \in {a, b}
  BY DEF Least

(* A leader has a place at least, and no more than its radio.               *)
LEMMA Places ==
    ASSUME NEW setting \in Nat
    PROVE  DirectCapacity(setting) \in 1 .. MaxDirect
  BY PolicyAssumption DEF DirectCapacity

LEMMA BudgetFacts ==
    ASSUME NEW cap \in 1 .. MaxDirect
    PROVE  /\ RelayBudget(cap) \in Nat
           /\ RelayBudget(cap) =< cap
           /\ MaxMembers > cap =>
                RelayBudget(cap) >= 1
  <1> DEFINE groups == CeilDiv(MaxMembers - cap, MaxDirect)
             ram == Least(RamRelays, MaxMembers)
             wanted == Least(groups, ram)
             room == Least(MaxDirect, cap)
  <1> USE PolicyAssumption
  <1>1. CASE MaxMembers =< cap
    BY <1>1 DEF RelayBudget
  <1>2. CASE MaxMembers > cap
    <2>1. MaxMembers - cap \in Nat /\ MaxMembers - cap >= 1
      BY <1>2
    <2>2. groups \in Nat /\ MaxMembers - cap =< MaxDirect * groups
      BY <2>1, CeilDivRounds
    <2>3. groups # 0
      <3>1. groups = 0 => MaxDirect * groups = 0
        BY <2>2
      <3> QED
        BY <2>1, <2>2, <3>1
    <2>4. ram \in Nat \ {0} /\ room \in Nat \ {0} /\ room =< cap
      BY DEF Least
    <2>5. RelayBudget(cap) = Least(wanted, room)
      BY <1>2 DEF RelayBudget
    <2> HIDE DEF groups, ram, room
    <2>6. wanted \in Nat \ {0}
      BY <2>2, <2>3, <2>4 DEF Least
    <2> HIDE DEF wanted
    <2> QED
      BY <2>4, <2>5, <2>6 DEF Least
  <1> QED
    BY <1>1, <1>2

LEMMA WantedFacts ==
    ASSUME NEW cap \in 1 .. MaxDirect, NEW wanted \in Nat
    PROVE  DenseTarget(cap, wanted) \in Nat /\ wanted =< DenseTarget(cap, wanted)
  BY PolicyAssumption, BudgetFacts DEF DenseTarget

(* A leader plans no more relays than it has direct places for, none for a  *)
(* team that it holds directly, and one at least for any larger team that   *)
(* its table takes (team_leader_relay_target_for_member_count).             *)
THEOREM RelaysFit ==
    ASSUME NEW setting \in Nat, NEW count \in 0 .. MaxMembers
    PROVE  LET cap == DirectCapacity(setting) IN
           /\ RelayTarget(count, cap) =< cap
           /\ RelayTarget(count, cap) = 0 <=> count =< cap
  <1> DEFINE cap == DirectCapacity(setting)
             wanted == CeilDiv(count - cap, MaxDirect)
             dense == DenseTarget(cap, wanted)
  <1> USE PolicyAssumption
  <1>1. cap \in 1 .. MaxDirect
    BY Places
  <1> HIDE DEF cap
  <1>2. CASE count =< cap
    BY <1>1, <1>2 DEF RelayTarget, cap
  <1>3. CASE count > cap
    <2>1. count - cap \in Nat /\ count - cap >= 1
      BY <1>1, <1>3
    <2>2. wanted \in Nat /\ count - cap =< MaxDirect * wanted
      BY <2>1, CeilDivRounds
    <2>3. wanted # 0
      <3>1. wanted = 0 => MaxDirect * wanted = 0
        BY <2>2
      <3> QED
        BY <2>1, <2>2, <3>1
    <2>4. RelayTarget(count, cap) = Least(dense, RelayBudget(cap))
      BY <1>1, <1>3 DEF RelayTarget
    <2> HIDE DEF wanted
    <2>5. dense \in Nat /\ wanted =< dense
      BY <1>1, <2>2, WantedFacts
    <2>6. RelayBudget(cap) \in Nat /\ RelayBudget(cap) =< cap /\ RelayBudget(cap) >= 1
      BY <1>1, <1>3, BudgetFacts
    <2> HIDE DEF dense
    <2>7. Least(dense, RelayBudget(cap)) =< cap /\ Least(dense, RelayBudget(cap)) # 0
      BY <1>1, <2>2, <2>3, <2>5, <2>6 DEF Least
    <2> QED
      BY <1>1, <1>3, <2>4, <2>7 DEF cap
  <1> QED
    BY <1>1, <1>2, <1>3

(* A member more never means a relay fewer: joins do not demote.            *)
THEOREM TargetGrowsWithTeam ==
    ASSUME NEW setting \in Nat, NEW more \in 0 .. MaxMembers, NEW count \in 0 .. more
    PROVE  LET cap == DirectCapacity(setting) IN RelayTarget(count, cap) =< RelayTarget(more, cap)
  <1> DEFINE cap == DirectCapacity(setting)
             few == CeilDiv(count - cap, MaxDirect)
             many == CeilDiv(more - cap, MaxDirect)
             budget == RelayBudget(cap)
  <1> USE PolicyAssumption
  <1>1. cap \in 1 .. MaxDirect
    BY Places
  <1> HIDE DEF cap
  <1>2. budget \in Nat
    BY <1>1, BudgetFacts
  <1>3. CASE count =< cap /\ more =< cap
    BY <1>1, <1>3 DEF RelayTarget, cap
  <1>4. CASE count =< cap /\ more > cap
    <2>1. more - cap \in Nat
      BY <1>1, <1>4
    <2>2. many \in Nat
      BY <2>1, CeilDivRounds
    <2>3. DenseTarget(cap, many) \in Nat
      BY <1>1, <2>2, WantedFacts
    <2>4. RelayTarget(count, cap) = 0 /\ RelayTarget(more, cap) = Least(DenseTarget(cap, many), budget)
      BY <1>1, <1>4 DEF RelayTarget
    <2> QED
      BY <1>2, <2>3, <2>4, Leasts DEF cap
  <1>5. CASE count > cap
    <2>1. count - cap \in Nat /\ more - cap \in Nat /\ count - cap =< more - cap
      BY <1>1, <1>5
    <2>2. few \in Nat /\ many \in Nat /\ few =< many
      BY <2>1, CeilDivRounds, CeilDivGrows
    <2>3. /\ RelayTarget(count, cap) = Least(DenseTarget(cap, few), budget)
          /\ RelayTarget(more, cap) = Least(DenseTarget(cap, many), budget)
      BY <1>1, <1>5 DEF RelayTarget
    <2> HIDE DEF few, many, budget
    <2>4. DenseTarget(cap, few) =< DenseTarget(cap, many)
      BY <1>1, <1>2, <2>2 DEF DenseTarget
    <2>5. DenseTarget(cap, few) \in Nat /\ DenseTarget(cap, many) \in Nat
      BY <1>1, <2>2, WantedFacts
    <2>6. Least(DenseTarget(cap, few), budget) =< Least(DenseTarget(cap, many), budget)
      BY <1>2, <2>4, <2>5 DEF Least
    <2> QED
      BY <2>3, <2>6 DEF cap
  <1> QED
    BY <1>1, <1>3, <1>4, <1>5

(* With memory for a relay per place and a table that a full set of relays  *)
(* can carry, the plan seats the team: directly, or behind its relays,      *)
(* which hold MaxDirect each.                                               *)
THEOREM SeatsEveryone ==
    ASSUME NEW setting \in Nat, NEW count \in 0 .. MaxMembers,
           RamRelays >= MaxDirect, MaxMembers >= MaxDirect,
           MaxMembers =< DirectCapacity(setting) + MaxDirect * DirectCapacity(setting)
    PROVE  LET cap == DirectCapacity(setting) IN
           count =< cap + MaxDirect * RelayTarget(count, cap)
  <1> DEFINE cap == DirectCapacity(setting)
             wanted == CeilDiv(count - cap, MaxDirect)
             groups == CeilDiv(MaxMembers - cap, MaxDirect)
             dense == DenseTarget(cap, wanted)
             budget == RelayBudget(cap)
  <1> USE PolicyAssumption
  <1>1. cap \in 1 .. MaxDirect /\ MaxMembers =< cap + MaxDirect * cap
    BY Places
  <1> HIDE DEF cap
  <1>2. CASE count =< cap
    <2>1. RelayTarget(count, cap) = 0
      BY <1>2 DEF RelayTarget
    <2> QED
      BY <1>1, <1>2, <2>1 DEF cap
  <1>3. CASE count > cap
    <2>1. /\ count - cap \in Nat /\ MaxMembers - cap \in Nat
          /\ count - cap =< MaxMembers - cap
      BY <1>1, <1>3
    <2>2. /\ wanted \in Nat /\ count - cap =< MaxDirect * wanted
          /\ groups \in Nat /\ MaxMembers - cap =< MaxDirect * groups
      BY <2>1, CeilDivRounds
    <2>3. RelayTarget(count, cap) = Least(dense, budget)
      BY <1>1, <1>3 DEF RelayTarget
    <2>4. budget = Least(Least(groups, Least(RamRelays, MaxMembers)), Least(MaxDirect, cap))
      BY <1>1, <1>3 DEF RelayBudget
    <2>5. /\ MaxDirect * cap \in Nat /\ MaxDirect * MaxDirect \in Nat
          /\ MaxDirect * cap =< MaxDirect * MaxDirect
      BY <1>1, ProductOrder
    <2> HIDE DEF wanted, groups
    <2>6. Least(RamRelays, MaxMembers) \in Nat /\ Least(RamRelays, MaxMembers) >= cap
          /\ Least(MaxDirect, cap) = cap
      BY <1>1 DEF Least
    <2>7. budget \in Nat /\ (budget = groups \/ budget >= cap)
      BY <1>1, <2>2, <2>4, <2>6 DEF Least
    <2>8. budget \in Nat
      BY <1>1, BudgetFacts
    <2> HIDE DEF budget
    <2>9. MaxDirect * budget \in Nat /\ MaxMembers - cap =< MaxDirect * budget
      <3>1. CASE budget = groups
        BY <2>2, <2>8, <3>1, ProductOrder
      <3>2. CASE budget >= cap
        <4>1. MaxDirect * cap =< MaxDirect * budget /\ MaxDirect * budget \in Nat
          BY <1>1, <2>8, <3>2, ProductOrder
        <4> QED
          BY <1>1, <2>1, <2>5, <4>1
      <3> QED
        BY <1>1, <2>7, <3>1, <3>2
    <2>10. dense \in Nat /\ wanted =< dense
      BY <1>1, <2>2, WantedFacts
    <2> HIDE DEF dense
    <2>11. MaxDirect * dense \in Nat /\ count - cap =< MaxDirect * dense
      <3>1. MaxDirect * wanted =< MaxDirect * dense /\ MaxDirect * dense \in Nat /\ MaxDirect * wanted \in Nat
        BY <2>2, <2>10, ProductOrder
      <3> QED
        BY <2>1, <2>2, <3>1
    <2>12. Least(dense, budget) \in {dense, budget}
      BY DEF Least
    <2>13. count - cap =< MaxDirect * Least(dense, budget)
      BY <2>1, <2>9, <2>11, <2>12
    <2>14. MaxDirect * Least(dense, budget) \in Nat
      BY <2>9, <2>11, <2>12
    <2> QED
      BY <1>1, <2>1, <2>3, <2>13, <2>14 DEF cap
  <1> QED
    BY <1>1, <1>2, <1>3
-----------------------------------------------------------------------------
(* Before a plan the grants of absent and of silent relays are gone; the    *)
(* plan takes away those of down and gives new ones to up.                  *)
Lost(r) == {m \in Member : r[m].relay /\ r[m].status # "online"}
Stale(r) == {m \in Relays(r) : r[m].silence = 2}
Fit(r) == Granted(r, Lost(r) \cup Stale(r), FALSE)
Met(r, down, up) == Granted(Granted(Fit(r), down, FALSE), up, TRUE)

Beyond(a, b) == IF a < b THEN b - a ELSE 0
Count(r) == Cardinality(Relays(r))
Plan(r, e, down, up) ==
    /\ down \in WorstOf(Fit(r), Beyond(Target(Fit(r), e), Count(Fit(r))))
    /\ up \in BestOf(Fit(r), e, Beyond(Count(Fit(r)), Target(Fit(r), e)))

(* What the rest of a rebalance does: nothing more, or a swap.  next is what *)
(* it watches after its look.                                               *)
PairOf(clock) == <<clock.candidate, clock.victim>>
Due(r, e, next) == PairOf(next) \in SwapPairs(r, e) /\ next.since >= SwapStable
Swapped(r, next) == Granted(Granted(r, {next.candidate}, TRUE), {next.victim}, FALSE)
Changed(r, down, up) == Stale(r) \cup down \cup up

Settled(r, before, down, up, next) ==
    /\ roster' = Met(r, down, up)
    /\ Tell(Met(r, down, up), Changed(r, down, up), Lost(r), before)
    /\ swap' = next
Traded(r, e, before, down, up, next) ==
    /\ Due(Met(r, down, up), e, next)
    /\ roster' = Swapped(Met(r, down, up), next)
    /\ Tell(roster', Changed(r, down, up) \cup {next.candidate, next.victim}, Lost(r), before)
    /\ swap' = NoSwap
Rest(r, e, before, clock, gaps, down, up, next) ==
    /\ Plan(r, e, down, up)
    /\ next \in Watch(clock, SwapPairs(Met(r, down, up), e))
    /\ gapFor' = Looked(Met(r, down, up), gaps)
    /\ Settled(r, before, down, up, next) \/ Traded(r, e, before, down, up, next)

LEMMA RebalanceParts ==
    ASSUME NEW r, NEW e, NEW before, NEW clock, NEW gaps,
           Rebalance(r, e, before, clock, gaps), ~e.pairing
    PROVE  \E down, up, next : Rest(r, e, before, clock, gaps, down, up, next)
  <1>1. PICK down \in WorstOf(Fit(r), Beyond(Target(Fit(r), e), Count(Fit(r)))),
             up \in BestOf(Fit(r), e, Beyond(Count(Fit(r)), Target(Fit(r), e))) :
           /\ gapFor' = Looked(Met(r, down, up), gaps)
           /\ \E next \in Watch(clock, SwapPairs(Met(r, down, up), e)) :
                 IF Due(Met(r, down, up), e, next)
                 THEN /\ roster' = Swapped(Met(r, down, up), next)
                      /\ Tell(roster', Changed(r, down, up) \cup {next.candidate, next.victim}, Lost(r), before)
                      /\ swap' = NoSwap
                 ELSE Settled(r, before, down, up, next)
    BY DEF Rebalance, Settled, Due, Swapped, PairOf, Changed, Met, Fit, Lost, Stale, Beyond, Count
  <1>2. PICK next \in Watch(clock, SwapPairs(Met(r, down, up), e)) :
           IF Due(Met(r, down, up), e, next)
           THEN /\ roster' = Swapped(Met(r, down, up), next)
                /\ Tell(roster', Changed(r, down, up) \cup {next.candidate, next.victim}, Lost(r), before)
                /\ swap' = NoSwap
           ELSE Settled(r, before, down, up, next)
    BY <1>1
  <1>3. Settled(r, before, down, up, next) \/ Traded(r, e, before, down, up, next)
    BY <1>2 DEF Traded
  <1>4. Rest(r, e, before, clock, gaps, down, up, next)
    BY <1>1, <1>2, <1>3 DEF Rest, Plan
  <1> QED
    BY <1>4

(* A grant taken takes the children with it, a grant given brings none.     *)
SameButFor(r, ms, s) ==
    /\ s \in [Member -> Entry]
    /\ \A m \in Member : s[m].status = r[m].status /\ s[m].silence = r[m].silence
    /\ \A m \in Member \ ms : s[m].relay = r[m].relay /\ s[m].kids = r[m].kids
Revoked(r, ms, s) == SameButFor(r, ms, s) /\ \A m \in Member : m \in ms => ~s[m].relay
Promoted(r, ms, s) ==
    SameButFor(r, ms, s) /\ \A m \in Member : m \in ms => s[m].relay /\ (s[m].kids <=> r[m].kids)

LEMMA RevokedFacts ==
    ASSUME NEW r \in [Member -> Entry], NEW ms
    PROVE  Revoked(r, ms, Granted(r, ms, FALSE))
  <1> DEFINE changed(m) == [r[m] EXCEPT !.relay = FALSE, !.kids = @ /\ FALSE]
             s == Granted(r, ms, FALSE)
  <1>1. \A m \in Member : r[m] \in Entry
    OBVIOUS
  <1>2. ASSUME NEW m \in Member
        PROVE  /\ changed(m) \in Entry
               /\ changed(m).status = r[m].status /\ changed(m).silence = r[m].silence
               /\ ~changed(m).relay
    BY <1>1 DEF Entry
  <1>3. s = [m \in Member |-> IF m \in ms THEN changed(m) ELSE r[m]]
    BY DEF Granted
  <1> HIDE DEF changed, s
  <1>4. Revoked(r, ms, s)
    BY <1>1, <1>2, <1>3 DEF Revoked, SameButFor
  <1> QED
    BY <1>4 DEF s

LEMMA PromotedFacts ==
    ASSUME NEW r \in [Member -> Entry], NEW ms
    PROVE  Promoted(r, ms, Granted(r, ms, TRUE))
  <1> DEFINE changed(m) == [r[m] EXCEPT !.relay = TRUE, !.kids = @ /\ TRUE]
             s == Granted(r, ms, TRUE)
  <1>1. \A m \in Member : r[m] \in Entry
    OBVIOUS
  <1>2. ASSUME NEW m \in Member
        PROVE  /\ changed(m) \in Entry
               /\ changed(m).status = r[m].status /\ changed(m).silence = r[m].silence
               /\ changed(m).relay /\ (changed(m).kids <=> r[m].kids)
    BY <1>1 DEF Entry
  <1>3. s = [m \in Member |-> IF m \in ms THEN changed(m) ELSE r[m]]
    BY DEF Granted
  <1> HIDE DEF changed, s
  <1>4. Promoted(r, ms, s)
    BY <1>1, <1>2, <1>3 DEF Promoted, SameButFor
  <1> QED
    BY <1>4 DEF s

(* Tables of members.                                                       *)
LEMMA RelaySets ==
    ASSUME NEW r \in [Member -> Entry]
    PROVE  /\ IsFiniteSet(Relays(r)) /\ IsFiniteSet(Victims(r)) /\ Victims(r) \subseteq Relays(r)
           /\ Relays(r) \subseteq Online(r) /\ Online(r) \subseteq Member
           /\ Count(r) \in Nat
  <1>1. Relays(r) \subseteq Member /\ Victims(r) \subseteq Relays(r)
    BY DEF Relays, Online, Victims
  <1>2. IsFiniteSet(Relays(r)) /\ IsFiniteSet(Victims(r))
    BY <1>1, GrantsAssumption, FS_Subset
  <1> QED
    BY <1>1, <1>2, FS_CardinalityType DEF Relays, Online, Count

LEMMA CandidateSets ==
    ASSUME NEW r \in [Member -> Entry], NEW e
    PROVE  IsFiniteSet(Candidates(r, e)) /\ Candidates(r, e) \subseteq Online(r) /\ Candidates(r, e) \cap Relays(r) = {}
  <1>1. Candidates(r, e) \subseteq Member
    BY DEF Candidates, Online
  <1> QED
    BY <1>1, GrantsAssumption, FS_Subset DEF Candidates, Relays

LEMMA CapacityFacts ==
    ASSUME NEW e \in Team
    PROVE  /\ Capacity(e) \in 1 .. MaxDirect
           /\ RelayBudget(Capacity(e)) \in Nat \ {0}
  <1>1. e.setting \in Nat
    BY GrantsAssumption DEF Team
  <1>2. Capacity(e) \in 1 .. MaxDirect
    BY <1>1, Places DEF Capacity
  <1>3. MaxMembers > Capacity(e)
    BY <1>2, GrantsAssumption, PolicyAssumption
  <1> QED
    BY <1>2, <1>3, BudgetFacts

LEMMA TargetFacts ==
    ASSUME NEW r \in [Member -> Entry], NEW e \in Team
    PROVE  /\ Target(r, e) \in Nat /\ Target(r, e) =< RelayBudget(Capacity(e))
           /\ e.window /\ Relays(r) # {} => Target(r, e) >= 1
  <1> DEFINE plain == RelayTarget(Demand(r, e), Capacity(e))
             budget == RelayBudget(Capacity(e))
  <1>1. Demand(r, e) \in Nat
    <2>1. IsFiniteSet(Counted(r, e)) /\ IsFiniteSet(Newcomers(r, e))
      <3>1. Counted(r, e) \subseteq Member /\ Newcomers(r, e) \subseteq Member
        BY DEF Counted, Known, Newcomers, Team
      <3> QED
        BY <3>1, GrantsAssumption, FS_Subset
    <2>2. Cardinality(Counted(r, e)) \in Nat /\ Cardinality(Newcomers(r, e)) \in Nat
      BY <2>1, FS_CardinalityType
    <2> QED
      BY <2>2, PolicyAssumption DEF Demand, Least
  <1>2. budget \in Nat \ {0} /\ Capacity(e) \in 1 .. MaxDirect
    BY CapacityFacts
  <1>3. plain \in Nat
    <2>1. CASE Demand(r, e) =< Capacity(e)
      BY <2>1 DEF RelayTarget
    <2>2. CASE ~(Demand(r, e) =< Capacity(e))
      <3> DEFINE over == Demand(r, e) - Capacity(e)
      <3>1. over \in Nat /\ MaxDirect \in Nat \ {0}
        BY <1>1, <1>2, <2>2, PolicyAssumption
      <3> HIDE DEF over
      <3>2. CeilDiv(over, MaxDirect) \in Nat
        BY <3>1, CeilDivRounds
      <3>3. DenseTarget(Capacity(e), CeilDiv(over, MaxDirect)) \in Nat
        BY <1>2, <3>2, WantedFacts
      <3>4. plain = Least(DenseTarget(Capacity(e), CeilDiv(over, MaxDirect)), budget)
        BY <2>2 DEF RelayTarget, over
      <3> QED
        BY <1>2, <3>3, <3>4, Leasts
    <2> QED
      BY <2>1, <2>2
  <1>4. Target(r, e) = Least(IF plain = 0 /\ Relays(r) # {} /\ e.window THEN 1 ELSE plain, budget)
    BY DEF Target
  <1> HIDE DEF plain, budget
  <1>5. Target(r, e) \in Nat /\ Target(r, e) =< budget
    BY <1>2, <1>3, <1>4 DEF Least
  <1>6. e.window /\ Relays(r) # {} => Target(r, e) >= 1
    BY <1>2, <1>3, <1>4 DEF Least
  <1> QED
    BY <1>5, <1>6 DEF budget

LEMMA FitFacts ==
    ASSUME NEW r \in [Member -> Entry]
    PROVE  /\ Fit(r) \in [Member -> Entry]
           /\ \A m \in Member : Fit(r)[m].status = r[m].status /\ Fit(r)[m].silence = r[m].silence
           /\ \A m \in Member : m \notin Lost(r) \cup Stale(r) =>
                                  Fit(r)[m].relay = r[m].relay /\ Fit(r)[m].kids = r[m].kids
           /\ \A m \in Member : m \in Lost(r) \cup Stale(r) => ~Fit(r)[m].relay
           /\ Relays(Fit(r)) = Relays(r) \ Stale(r)
  <1>1. /\ Fit(r) \in [Member -> Entry]
        /\ \A m \in Member : Fit(r)[m].status = r[m].status /\ Fit(r)[m].silence = r[m].silence
        /\ \A m \in Member : m \notin Lost(r) \cup Stale(r) =>
                               Fit(r)[m].relay = r[m].relay /\ Fit(r)[m].kids = r[m].kids
        /\ \A m \in Member : m \in Lost(r) \cup Stale(r) => ~Fit(r)[m].relay
    <2>1. Revoked(r, Lost(r) \cup Stale(r), Fit(r))
      BY RevokedFacts DEF Fit
    <2> QED
      BY <2>1 DEF Revoked, SameButFor
  <1>2. Relays(Fit(r)) = Relays(r) \ Stale(r)
    BY <1>1 DEF Relays, Online, Stale, Lost
  <1> QED
    BY <1>1, <1>2

(* A plan that gives takes nothing, and stays within its target.            *)
LEMMA PlanFacts ==
    ASSUME NEW r \in [Member -> Entry], NEW e \in Team, NEW down, NEW up, Plan(r, e, down, up)
    PROVE  /\ down \subseteq Victims(Fit(r)) /\ up \subseteq Candidates(Fit(r), e)
           /\ up # {} => down = {} /\ Count(Fit(r)) + Cardinality(up) =< Target(Fit(r), e)
           /\ Cardinality(down) =< Beyond(Target(Fit(r), e), Count(Fit(r)))
  <1> DEFINE s == Fit(r)
             wanted == Target(s, e)
             give == Beyond(Count(s), wanted)
             take == Beyond(wanted, Count(s))
  <1>1. s \in [Member -> Entry]
    BY FitFacts
  <1>2. wanted \in Nat /\ Count(s) \in Nat
    BY <1>1, TargetFacts, RelaySets
  <1>3. /\ down \subseteq Victims(s) /\ Cardinality(down) = Least(take, Cardinality(Victims(s)))
        /\ up \subseteq Candidates(s, e) /\ Cardinality(up) = Least(give, Cardinality(Candidates(s, e)))
    BY DEF Plan, WorstOf, BestOf
  <1>4. IsFiniteSet(Victims(s)) /\ IsFiniteSet(Candidates(s, e))
    BY <1>1, RelaySets, CandidateSets
  <1>5. IsFiniteSet(down) /\ IsFiniteSet(up)
    BY <1>3, <1>4, FS_Subset
  <1>6. /\ Cardinality(Victims(s)) \in Nat /\ Cardinality(Candidates(s, e)) \in Nat
        /\ Cardinality(down) \in Nat /\ Cardinality(up) \in Nat
    BY <1>4, <1>5, FS_CardinalityType
  <1> HIDE DEF s, wanted
  <1>7. give \in Nat /\ take \in Nat /\ (give # 0 => take = 0 /\ Count(s) + give = wanted)
    BY <1>2 DEF Beyond
  <1> HIDE DEF give, take
  <1>8. Cardinality(down) =< take /\ Cardinality(up) =< give
    BY <1>3, <1>6, <1>7, Leasts
  <1>9. ASSUME up # {}
        PROVE  down = {} /\ Count(s) + Cardinality(up) =< wanted
    <2>1. Cardinality(up) # 0
      BY <1>5, <1>9, FS_EmptySet
    <2>2. give # 0
      BY <1>6, <1>7, <1>8, <2>1
    <2>3. Cardinality(down) = 0
      BY <1>6, <1>7, <1>8, <2>2
    <2> QED
      BY <1>2, <1>5, <1>6, <1>7, <1>8, <2>2, <2>3, FS_EmptySet
  <1> QED
    BY <1>3, <1>8, <1>9 DEF s, wanted, take

(* The table after a plan.                                                  *)
LEMMA MetFacts ==
    ASSUME NEW r \in [Member -> Entry], NEW e \in Team, NEW down, NEW up, Plan(r, e, down, up)
    PROVE  /\ Met(r, down, up) \in [Member -> Entry]
           /\ \A m \in Member : Met(r, down, up)[m].status = r[m].status
                                /\ Met(r, down, up)[m].silence = r[m].silence
           /\ \A m \in Member : m \notin Lost(r) \cup Stale(r) \cup down =>
                  (Met(r, down, up)[m].kids <=> r[m].kids)
           /\ \A m \in Member : m \notin Lost(r) \cup Stale(r) \cup down \cup up =>
                  Met(r, down, up)[m].relay = r[m].relay
           /\ \A m \in up : Met(r, down, up)[m].relay
           /\ Relays(Met(r, down, up)) = (Relays(Fit(r)) \ down) \cup up
           /\ down \subseteq Online(r) /\ up \subseteq Online(r)
           /\ \A m \in down : ~r[m].kids /\ r[m].relay /\ m \notin Stale(r)
  <1> DEFINE s == Fit(r)
             t == Granted(s, down, FALSE)
             u == Granted(t, up, TRUE)
  <1>1. /\ s \in [Member -> Entry]
        /\ \A m \in Member : s[m].status = r[m].status /\ s[m].silence = r[m].silence
        /\ \A m \in Member : m \notin Lost(r) \cup Stale(r) =>
                               s[m].relay = r[m].relay /\ s[m].kids = r[m].kids
        /\ \A m \in Member : m \in Lost(r) \cup Stale(r) => ~s[m].relay
    BY FitFacts
  <1>2. down \subseteq Victims(s) /\ up \subseteq Candidates(s, e) /\ (up # {} => down = {})
    BY PlanFacts
  <1>3. u = Met(r, down, up) /\ t = Granted(s, down, FALSE) /\ u = Granted(t, up, TRUE)
    BY DEF Met
  <1> HIDE DEF s, t, u
  <1>4. Revoked(s, down, t) /\ t \in [Member -> Entry]
    <2>1. Revoked(s, down, t)
      BY <1>1, <1>3, RevokedFacts
    <2> QED
      BY <2>1 DEF Revoked, SameButFor
  <1>5. Promoted(t, up, u) /\ u \in [Member -> Entry]
    <2>1. Promoted(t, up, u)
      BY <1>3, <1>4, PromotedFacts
    <2> QED
      BY <2>1 DEF Promoted, SameButFor
  <1>6. /\ down \subseteq Online(r) /\ up \subseteq Online(r)
        /\ \A m \in down : ~r[m].kids /\ r[m].relay /\ m \notin Stale(r)
        /\ \A m \in up : ~s[m].relay
    <2>1. down \subseteq Member /\ up \subseteq Member
      BY <1>2 DEF Victims, Candidates, Relays, Online
    <2>2. \A m \in down : s[m].relay /\ ~s[m].kids /\ s[m].status = "online"
      BY <1>2 DEF Victims, Relays, Online
    <2>3. \A m \in up : ~s[m].relay /\ s[m].status = "online"
      BY <1>2 DEF Candidates, Online
    <2> QED
      BY <1>1, <2>1, <2>2, <2>3 DEF Online
  <1>7. Relays(u) = (Relays(s) \ down) \cup up
    BY <1>1, <1>4, <1>5, <1>6 DEF Relays, Online, Revoked, Promoted, SameButFor
  <1>8. \A m \in Member : u[m].status = r[m].status /\ u[m].silence = r[m].silence
    BY <1>1, <1>4, <1>5 DEF Revoked, Promoted, SameButFor
  <1>9. /\ \A m \in Member : m \notin Lost(r) \cup Stale(r) \cup down => (u[m].kids <=> r[m].kids)
        /\ \A m \in Member : m \notin Lost(r) \cup Stale(r) \cup down \cup up => u[m].relay = r[m].relay
    BY <1>1, <1>4, <1>5 DEF Revoked, Promoted, SameButFor
  <1>10. \A m \in up : u[m].relay
    BY <1>5, <1>6 DEF Promoted, Online
  <1> QED
    BY <1>3, <1>5, <1>6, <1>7, <1>8, <1>9, <1>10 DEF s

(* How many relays there are then.                                          *)
LEMMA MetCount ==
    ASSUME NEW r \in [Member -> Entry], NEW e \in Team, NEW down, NEW up, Plan(r, e, down, up)
    PROVE  /\ up # {} => Count(Met(r, down, up)) =< RelayBudget(Capacity(e))
           /\ e.window /\ Relays(Fit(r)) # {} => Relays(Met(r, down, up)) # {}
  <1> DEFINE s == Fit(r)
             u == Met(r, down, up)
             wanted == Target(s, e)
             budget == RelayBudget(Capacity(e))
  <1>1. s \in [Member -> Entry]
    BY FitFacts
  <1>2. /\ down \subseteq Victims(s) /\ up \subseteq Candidates(s, e)
        /\ up # {} => down = {} /\ Count(s) + Cardinality(up) =< wanted
        /\ Cardinality(down) =< Beyond(wanted, Count(s))
    BY PlanFacts
  <1>3. Relays(u) = (Relays(s) \ down) \cup up
    BY MetFacts
  <1>4. wanted \in Nat /\ wanted =< budget /\ budget \in Nat
        /\ (e.window /\ Relays(s) # {} => wanted >= 1)
    BY <1>1, TargetFacts, CapacityFacts
  <1>5. /\ IsFiniteSet(Relays(s)) /\ Count(s) \in Nat /\ Victims(s) \subseteq Relays(s)
        /\ IsFiniteSet(Candidates(s, e)) /\ Candidates(s, e) \cap Relays(s) = {}
    BY <1>1, RelaySets, CandidateSets
  <1> HIDE DEF s, u, wanted, budget
  <1>6. IsFiniteSet(down) /\ IsFiniteSet(up) /\ down \subseteq Relays(s) /\ up \cap Relays(s) = {}
    BY <1>2, <1>5, FS_Subset
  <1>7. Cardinality(down) \in Nat /\ Cardinality(up) \in Nat
    BY <1>6, FS_CardinalityType
  <1>8. ASSUME up # {}
        PROVE  Count(u) =< budget
    <2>1. Relays(u) = Relays(s) \cup up /\ Count(s) + Cardinality(up) =< wanted
      BY <1>2, <1>3, <1>8
    <2>2. Relays(s) \cap up = {}
      BY <1>6
    <2>3. Cardinality(Relays(s) \cup up)
            = Cardinality(Relays(s)) + Cardinality(up) - Cardinality(Relays(s) \cap up)
      BY <1>5, <1>6, FS_Union
    <2>4. Cardinality(Relays(s) \cap up) = 0
      BY <2>2, FS_EmptySet
    <2> QED
      BY <1>4, <1>5, <1>7, <2>1, <2>3, <2>4 DEF Count
  <1>9. ASSUME e.window, Relays(s) # {}
        PROVE  Relays(u) # {}
    <2>1. wanted >= 1
      BY <1>4, <1>9
    <2>2. Count(s) >= 1
      <3>1. Count(s) # 0
        BY <1>5, <1>9, FS_EmptySet DEF Count
      <3> QED
        BY <1>5, <3>1
    <2>3. Cardinality(down) < Count(s)
      BY <1>2, <1>4, <1>5, <1>7, <2>1, <2>2 DEF Beyond
    <2>4. down # Relays(s)
      BY <1>5, <2>3 DEF Count
    <2> QED
      BY <1>3, <1>6, <2>4
  <1> QED
    BY <1>8, <1>9 DEF s, u, budget

(* A swap is between a member online that is no relay and a relay online    *)
(* that holds no children, and keeps their number.                          *)
LEMMA SwapFacts ==
    ASSUME NEW r \in [Member -> Entry], NEW e \in Team, NEW next, PairOf(next) \in SwapPairs(r, e)
    PROVE  LET c == next.candidate
               v == next.victim
               s == Swapped(r, next)
           IN
           /\ c \in Online(r) /\ ~r[c].relay /\ r[c].silence = 0
           /\ v \in Online(r) /\ r[v].relay /\ ~r[v].kids
           /\ ~e.window
           /\ s \in [Member -> Entry]
           /\ \A m \in Member : s[m].status = r[m].status /\ s[m].silence = r[m].silence
           /\ \A m \in Member \ {c, v} : s[m].relay = r[m].relay
           /\ s[c].relay /\ ~s[v].relay
           /\ Count(s) =< RelayBudget(Capacity(e))
  <1> DEFINE c == next.candidate
             v == next.victim
             t == Granted(r, {c}, TRUE)
             s == Granted(t, {v}, FALSE)
  <1>1. /\ ~e.window /\ Cardinality(Relays(r)) = Target(r, e)
        /\ <<c, v>> \in Candidates(r, e) \X Victims(r)
    BY DEF SwapPairs, PairOf
  <1>2. c \in Candidates(r, e) /\ v \in Victims(r)
    BY <1>1
  <1>3. s = Swapped(r, next) /\ t = Granted(r, {c}, TRUE) /\ s = Granted(t, {v}, FALSE)
    BY DEF Swapped
  <1> HIDE DEF c, v, s, t
  <1>4. /\ c \in Online(r) /\ ~r[c].relay /\ r[c].silence = 0 /\ c \in Member
        /\ v \in Online(r) /\ r[v].relay /\ ~r[v].kids /\ v \in Member /\ c # v
    BY <1>1, <1>2 DEF Candidates, Victims, Relays, Online
  <1>5. Promoted(r, {c}, t) /\ t \in [Member -> Entry]
    <2>1. Promoted(r, {c}, t)
      BY <1>3, PromotedFacts
    <2> QED
      BY <2>1 DEF Promoted, SameButFor
  <1>6. Revoked(t, {v}, s) /\ s \in [Member -> Entry]
    <2>1. Revoked(t, {v}, s)
      BY <1>3, <1>5, RevokedFacts
    <2> QED
      BY <2>1 DEF Revoked, SameButFor
  <1>7. /\ \A m \in Member : s[m].status = r[m].status /\ s[m].silence = r[m].silence
        /\ \A m \in Member \ {c, v} : s[m].relay = r[m].relay
        /\ s[c].relay /\ ~s[v].relay
    BY <1>4, <1>5, <1>6 DEF Revoked, Promoted, SameButFor
  <1>8. Relays(s) = (Relays(r) \cup {c}) \ {v}
    BY <1>4, <1>7 DEF Relays, Online
  <1>9. Count(s) = Count(r)
    <2>1. IsFiniteSet(Relays(r)) /\ Count(r) \in Nat
      BY RelaySets
    <2>2. c \notin Relays(r) /\ v \in Relays(r)
      BY <1>4 DEF Relays
    <2>3. /\ Cardinality(Relays(r) \cup {c}) = Cardinality(Relays(r)) + 1
          /\ IsFiniteSet(Relays(r) \cup {c})
      BY <2>1, <2>2, FS_AddElement
    <2>4. Cardinality((Relays(r) \cup {c}) \ {v}) = Cardinality(Relays(r) \cup {c}) - 1
      BY <2>2, <2>3, FS_RemoveElement
    <2> QED
      BY <1>8, <2>1, <2>3, <2>4 DEF Count
  <1>10. Count(r) =< RelayBudget(Capacity(e))
    BY <1>1, TargetFacts DEF Count
  <1> QED
    BY <1>1, <1>3, <1>4, <1>6, <1>7, <1>9, <1>10 DEF c, v
-----------------------------------------------------------------------------
(* A member that is away is not sure of its grant.                          *)
AwayIsUnsure == \A m \in Member \ Online(roster) : told[m] = "unsure"

(* Every look has found the gap of a watched pair, since it is watched.     *)
Swap == [candidate : Member \cup {NoMember}, victim : Member \cup {NoMember}, since : 0 .. SwapStable]
Gaps == [Pair -> 0 .. SwapStable + 1]
Seen(clock, gaps) == PairOf(clock) \in Pair => clock.since < gaps[PairOf(clock)]
PairIsSteady == Seen(swap, gapFor)
ClockOK(clock, gaps) == clock \in Swap /\ gaps \in Gaps /\ Seen(clock, gaps)
SwapOK == ClockOK(swap, gapFor)

GrantsInv == GrantsTypeOK /\ ToldOrUntold /\ AwayIsUnsure /\ PairIsSteady

(* The same of any table, telling and set of those to be told.              *)
ToldOf(r, t, u) == \A m \in Online(r) : t[m] # "unsure" => t[m] = AsTold(r[m].relay) \/ m \in u
AwayOf(r, t) == \A m \in Member \ Online(r) : t[m] = "unsure"
TellingOf(r, t, u) == t \in [Member -> Telling] /\ u \subseteq Member /\ ToldOf(r, t, u) /\ AwayOf(r, t)

LEMMA InvParts ==
    GrantsInv <=> /\ roster \in [Member -> Entry] /\ team \in Team
                  /\ TellingOf(roster, told, untold) /\ SwapOK
  BY DEF GrantsInv, GrantsTypeOK, ToldOrUntold, AwayIsUnsure, PairIsSteady, ToldOf, AwayOf, TellingOf, Swap, Gaps, ClockOK, SwapOK

LEMMA InvNext ==
    ASSUME roster' \in [Member -> Entry], team' \in Team,
           TellingOf(roster', told', untold'), SwapOK'
    PROVE  GrantsInv'
  BY DEF GrantsInv, GrantsTypeOK, ToldOrUntold, AwayIsUnsure, PairIsSteady, ToldOf, AwayOf, TellingOf, Swap, Gaps, ClockOK, SwapOK

LEMMA TellKeeps ==
    ASSUME NEW r \in [Member -> Entry], NEW before, TellingOf(r, before, untold),
           NEW s \in [Member -> Entry], Online(s) = Online(r),
           NEW ms \in SUBSET Online(r), NEW gone, gone \cap Online(r) = {},
           \A m \in Online(r) \ ms : s[m].relay = r[m].relay,
           Tell(s, ms, gone, before)
    PROVE  TellingOf(s, told', untold')
  <1>1. PICK failed \in SUBSET ms :
          /\ untold' = (untold \ (ms \cup gone)) \cup failed
          /\ told' = [m \in Member |-> IF m \in ms \ failed THEN AsTold(s[m].relay) ELSE before[m]]
    BY DEF Tell
  <1>2. Online(r) \subseteq Member
    BY DEF Online
  <1>3. before \in [Member -> Telling] /\ untold \subseteq Member
    BY DEF TellingOf
  <1>4. \A m : AsTold(s[m].relay) \in Telling
    BY DEF AsTold, Telling
  <1>5. told' \in [Member -> Telling] /\ untold' \subseteq Member
    BY <1>1, <1>2, <1>3, <1>4
  <1>6. ToldOf(s, told', untold')
    <2> SUFFICES ASSUME NEW m \in Online(r), told'[m] # "unsure"
                 PROVE  told'[m] = AsTold(s[m].relay) \/ m \in untold'
      BY DEF ToldOf
    <2>1. CASE m \in ms
      BY <1>1, <1>2, <2>1
    <2>2. CASE m \notin ms
      <3>1. told'[m] = before[m] /\ s[m].relay = r[m].relay
        BY <1>1, <1>2, <2>2
      <3>2. before[m] = AsTold(r[m].relay) \/ m \in untold
        BY <3>1 DEF TellingOf, ToldOf
      <3> QED
        BY <1>1, <2>2, <3>1, <3>2
    <2> QED
      BY <2>1, <2>2
  <1>7. AwayOf(s, told')
    BY <1>1 DEF TellingOf, AwayOf
  <1> QED
    BY <1>5, <1>6, <1>7 DEF TellingOf

(* The clocks after a second, and after a look.                             *)
LEMMA OlderKeeps ==
    ASSUME SwapOK
    PROVE  ClockOK(OlderSwap, OlderGaps)
  <1> USE GrantsAssumption
  <1>1. swap \in Swap /\ gapFor \in Gaps /\ Seen(swap, gapFor)
    BY DEF SwapOK, ClockOK
  <1>2. \A cv \in Pair : gapFor[cv] \in 0 .. SwapStable + 1
    BY <1>1 DEF Gaps
  <1>3. OlderGaps \in Gaps
    <2>1. \A n \in 0 .. SwapStable + 1 : Least(n + 1, SwapStable + 1) \in 0 .. SwapStable + 1
      BY DEF Least
    <2> QED
      BY <1>2, <2>1 DEF OlderGaps, Gaps
  <1>4. CASE swap = NoSwap
    <2>1. PairOf(NoSwap) \notin Pair
      BY DEF PairOf, NoSwap, Pair
    <2> QED
      BY <1>1, <1>3, <1>4, <2>1 DEF ClockOK, OlderSwap, Seen
  <1>5. CASE swap # NoSwap
    <2> DEFINE n == Least(swap.since + 1, SwapStable)
    <2>1. swap.since \in 0 .. SwapStable
      BY <1>1 DEF Swap
    <2>2. n \in 0 .. SwapStable /\ n =< swap.since + 1 /\ n =< SwapStable
      BY <2>1 DEF Least
    <2>3. OlderSwap = [swap EXCEPT !.since = n]
      BY <1>1, <1>5 DEF OlderSwap, Swap
    <2> HIDE DEF n
    <2>4. OlderSwap \in Swap /\ OlderSwap.since = n /\ PairOf(OlderSwap) = PairOf(swap)
      BY <1>1, <2>2, <2>3 DEF Swap, PairOf
    <2>5. ASSUME PairOf(swap) \in Pair
          PROVE  n < OlderGaps[PairOf(swap)]
      <3> DEFINE cv == PairOf(swap)
                 g == gapFor[cv]
      <3>1. swap.since < g /\ g \in 0 .. SwapStable + 1
        BY <1>1, <1>2, <2>5 DEF Seen
      <3>2. OlderGaps[cv] = IF g = 0 THEN 0 ELSE Least(g + 1, SwapStable + 1)
        BY <2>5 DEF OlderGaps
      <3> HIDE DEF g, cv
      <3>3. n < OlderGaps[cv]
        BY <2>1, <2>2, <3>1, <3>2 DEF Least
      <3> QED
        BY <3>3 DEF cv
    <2> QED
      BY <1>3, <2>4, <2>5 DEF ClockOK, Seen
  <1> QED
    BY <1>4, <1>5

LEMMA WatchKeeps ==
    ASSUME NEW clock, NEW gaps, ClockOK(clock, gaps), NEW r, NEW e,
           NEW next \in Watch(clock, SwapPairs(r, e))
    PROVE  ClockOK(next, Looked(r, gaps)) /\ ClockOK(NoSwap, Looked(r, gaps))
  <1> DEFINE pairs == SwapPairs(r, e)
             after == Looked(r, gaps)
  <1> USE GrantsAssumption
  <1>1. clock \in Swap /\ gaps \in Gaps /\ Seen(clock, gaps)
    BY DEF ClockOK
  <1>2. \A cv \in Pair : gaps[cv] \in 0 .. SwapStable + 1
    BY <1>1 DEF Gaps
  <1>3. after \in Gaps
    <2>1. 0 \in 0 .. SwapStable + 1 /\ 1 \in 0 .. SwapStable + 1
      OBVIOUS
    <2> QED
      BY <1>2, <2>1 DEF Looked, Gaps
  <1>4. \A cv \in pairs : /\ cv \in Pair /\ cv = <<cv[1], cv[2]>> /\ cv[1] \in Member /\ cv[2] \in Member
                          /\ Gap(r, cv[1], cv[2])
    <2>1. Candidates(r, e) \subseteq Member /\ Victims(r) \subseteq Member
      BY DEF Candidates, Victims, Relays, Online
    <2> QED
      BY <2>1 DEF SwapPairs, Pair
  <1>5. \A cv \in pairs : after[cv] = IF gaps[cv] = 0 THEN 1 ELSE gaps[cv]
    BY <1>4 DEF Looked
  <1>6. ClockOK(NoSwap, after)
    BY <1>3 DEF ClockOK, NoSwap, Swap, Seen, PairOf, Pair
  <1>7. next \in Watch(clock, pairs)
    OBVIOUS
  <1> HIDE DEF pairs, after
  <1>8. CASE pairs = {}
    BY <1>6, <1>7, <1>8 DEF Watch, after
  <1>9. CASE pairs # {}
    <2>1. PICK cv \in pairs : next = IF cv = PairOf(clock) THEN clock
                                    ELSE [candidate |-> cv[1], victim |-> cv[2], since |-> 0]
      BY <1>7, <1>9 DEF Watch, PairOf
    <2>2. cv \in Pair /\ cv = <<cv[1], cv[2]>> /\ cv[1] \in Member /\ cv[2] \in Member
      BY <1>4
    <2>3. gaps[cv] \in 0 .. SwapStable + 1 /\ after[cv] = IF gaps[cv] = 0 THEN 1 ELSE gaps[cv]
      BY <1>2, <1>5, <2>2
    <2>4. CASE cv = PairOf(clock)
      <3>1. next = clock /\ clock.since < gaps[cv] /\ clock.since \in 0 .. SwapStable
        BY <1>1, <2>1, <2>2, <2>4 DEF Seen, Swap
      <3>2. clock.since < after[cv]
        BY <2>3, <3>1
      <3> QED
        BY <1>1, <1>3, <1>6, <2>4, <3>1, <3>2 DEF ClockOK, Seen, after
    <2>5. CASE cv # PairOf(clock)
      <3>1. next = [candidate |-> cv[1], victim |-> cv[2], since |-> 0]
        BY <2>1, <2>5
      <3>2. 0 < after[cv]
        BY <2>3
      <3>3. next \in Swap /\ PairOf(next) = cv /\ next.since = 0
        BY <2>2, <3>1 DEF Swap, PairOf
      <3> QED
        BY <1>3, <1>6, <3>2, <3>3 DEF ClockOK, Seen, after
    <2> QED
      BY <2>4, <2>5
  <1> QED
    BY <1>8, <1>9

LEMMA PairsTyped ==
    ASSUME NEW r, NEW e
    PROVE  SwapPairs(r, e) \subseteq Pair
  <1>1. Candidates(r, e) \subseteq Member /\ Victims(r) \subseteq Member
    BY DEF Candidates, Victims, Relays, Online
  <1> QED
    BY <1>1 DEF SwapPairs, Pair

(* Who is swapped has been better for the whole time.                       *)
LEMMA DueIsSeen ==
    ASSUME NEW next, NEW gaps, ClockOK(next, gaps), NEW r, NEW e, Due(r, e, next)
    PROVE  gaps[PairOf(next)] > SwapStable
  <1>1. PairOf(next) \in Pair /\ next.since >= SwapStable
    BY PairsTyped DEF Due
  <1>2. next.since \in Nat /\ gaps[PairOf(next)] \in Nat /\ next.since < gaps[PairOf(next)]
    BY <1>1, GrantsAssumption DEF ClockOK, Seen, Swap, Gaps
  <1> QED
    BY <1>1, <1>2, GrantsAssumption

(* What a rebalance does to any table: who is there stays, and who is told  *)
(* of a change, or is to be told, has it from this table.                   *)
LEMMA RebalanceKeeps ==
    ASSUME NEW r \in [Member -> Entry], NEW e \in Team, NEW before, NEW clock, NEW gaps,
           TellingOf(r, before, untold), ClockOK(clock, gaps), Rebalance(r, e, before, clock, gaps)
    PROVE  /\ roster' \in [Member -> Entry] /\ TellingOf(roster', told', untold') /\ ClockOK(swap', gapFor')
           /\ \A m \in Member : roster'[m].status = r[m].status
  <1>1. CASE e.pairing
    <2>1. roster' = r /\ told' = before /\ swap' = clock /\ gapFor' = gaps /\ untold' = untold
      BY <1>1 DEF Rebalance
    <2> QED
      BY <2>1
  <1>2. CASE ~e.pairing
    <2>1. PICK down, up, next : Rest(r, e, before, clock, gaps, down, up, next)
      BY <1>2, RebalanceParts
    <2>0. Plan(r, e, down, up)
      BY <2>1 DEF Rest
    <2> DEFINE u == Met(r, down, up)
               gone == Lost(r)
               ms == Changed(r, down, up)
    <2>11. gapFor' = Looked(u, gaps) /\ ClockOK(next, Looked(u, gaps)) /\ ClockOK(NoSwap, Looked(u, gaps))
      BY <2>1, WatchKeeps DEF Rest
    <2>2. /\ u \in [Member -> Entry]
          /\ \A m \in Member : u[m].status = r[m].status
          /\ \A m \in Member : m \notin Lost(r) \cup Stale(r) \cup down \cup up => u[m].relay = r[m].relay
          /\ down \subseteq Online(r) /\ up \subseteq Online(r)
      BY <2>0, MetFacts
    <2>3. ms \subseteq Online(r) /\ gone \cap Online(r) = {} /\ Online(r) \subseteq Member
      BY <2>2 DEF Changed, Lost, Stale, Relays, Online
    <2>4. \A m \in Online(r) \ ms : u[m].relay = r[m].relay
      BY <2>2, <2>3 DEF Changed, Lost, Online
    <2>5. Online(u) = Online(r)
      BY <2>2 DEF Online
    <2>6. CASE Settled(r, before, down, up, next)
      <3>1. roster' = u /\ Tell(u, ms, gone, before) /\ swap' = next
        BY <2>6 DEF Settled
      <3> HIDE DEF u, gone, ms
      <3>2. TellingOf(u, told', untold')
        BY <2>2, <2>3, <2>4, <2>5, <3>1, TellKeeps
      <3> QED
        BY <2>2, <2>11, <3>1, <3>2
    <2>7. CASE Traded(r, e, before, down, up, next)
      <3> DEFINE w == Swapped(u, next)
                 c == next.candidate
                 v == next.victim
                 ns == ms \cup {c, v}
      <3>1. /\ roster' = w /\ Tell(w, ns, gone, before) /\ swap' = NoSwap
        BY <2>7 DEF Traded
      <3>2. PairOf(next) \in SwapPairs(u, e)
        BY <2>7 DEF Traded, Due
      <3> HIDE DEF u, gone, ms
      <3>3. /\ c \in Online(u) /\ v \in Online(u)
            /\ w \in [Member -> Entry]
            /\ \A m \in Member : w[m].status = u[m].status
            /\ \A m \in Member \ {c, v} : w[m].relay = u[m].relay
        BY <2>2, <3>2, SwapFacts
      <3> HIDE DEF w, c, v
      <3>4. ns \subseteq Online(r) /\ Online(w) = Online(r)
        BY <2>3, <2>5, <3>3 DEF Online
      <3>5. \A m \in Online(r) \ ns : w[m].relay = r[m].relay
        BY <2>3, <2>4, <3>3
      <3> HIDE DEF ns
      <3>6. TellingOf(w, told', untold')
        BY <2>3, <3>1, <3>3, <3>4, <3>5, TellKeeps
      <3> QED
        BY <2>2, <2>11, <3>1, <3>3, <3>6
    <2> QED
      BY <2>1, <2>6, <2>7 DEF Rest
  <1> QED
    BY <1>1, <1>2
-----------------------------------------------------------------------------
(* What a rebalance never does to a table r, whatever it plans.             *)
NewWithinBudget(r, e) ==
    \A m \in Member : ~r[m].relay /\ roster'[m].relay => Count(roster') =< RelayBudget(Capacity(e))
ParentsKept(r) == \A m \in Relays(r) : r[m].kids /\ r[m].silence < 2 => roster'[m].relay
OneIsLeft(r, e) ==
    e.window /\ Relays(roster') = {} => \A m \in Relays(r) : r[m].silence = 2
TradeIsSteady(r) ==
    \A g, d \in Member :
        ~r[g].relay /\ roster'[g].relay /\ d \in Relays(r) /\ ~roster'[d].relay /\ r[d].silence < 2
        => \E c, v \in Online(r) : /\ ~r[c].relay /\ roster'[c].relay
                                  /\ r[v].relay /\ ~roster'[v].relay
                                  /\ gapFor'[<<c, v>>] > SwapStable

LEMMA RebalanceActs ==
    ASSUME NEW r \in [Member -> Entry], NEW e \in Team, NEW before, NEW clock, NEW gaps,
           ClockOK(clock, gaps), Rebalance(r, e, before, clock, gaps)
    PROVE  NewWithinBudget(r, e) /\ ParentsKept(r) /\ OneIsLeft(r, e) /\ TradeIsSteady(r)
  <1>1. CASE e.pairing
    <2>1. roster' = r
      BY <1>1 DEF Rebalance
    <2> QED
      BY <2>1 DEF NewWithinBudget, ParentsKept, OneIsLeft, TradeIsSteady, Relays
  <1>2. CASE ~e.pairing
    <2>1. PICK down, up, next : Rest(r, e, before, clock, gaps, down, up, next)
      BY <1>2, RebalanceParts
    <2>0. Plan(r, e, down, up)
      BY <2>1 DEF Rest
    <2> DEFINE u == Met(r, down, up)
    <2>2. /\ u \in [Member -> Entry]
          /\ \A m \in Member : u[m].status = r[m].status /\ u[m].silence = r[m].silence
          /\ \A m \in Member : m \notin Lost(r) \cup Stale(r) \cup down => (u[m].kids <=> r[m].kids)
          /\ \A m \in Member : m \notin Lost(r) \cup Stale(r) \cup down \cup up => u[m].relay = r[m].relay
          /\ \A m \in up : u[m].relay
          /\ down \subseteq Online(r) /\ up \subseteq Online(r)
          /\ \A m \in down : ~r[m].kids /\ r[m].relay /\ m \notin Stale(r)
      BY <2>0, MetFacts
    <2>3. /\ up # {} => Count(u) =< RelayBudget(Capacity(e))
          /\ e.window /\ Relays(Fit(r)) # {} => Relays(u) # {}
      BY <2>0, MetCount
    <2>4. up # {} => down = {}
      BY <2>0, PlanFacts
    <2>5. Relays(Fit(r)) = Relays(r) \ Stale(r) /\ Relays(r) \cap Lost(r) = {}
      BY FitFacts DEF Relays, Online, Lost
    <2>6. \A m \in Member : ~r[m].relay /\ u[m].relay => m \in up
      BY <2>2, <2>0, MetFacts, FitFacts DEF Lost, Stale, Relays
    <2>7. \A m \in Relays(r) : r[m].kids /\ m \notin Stale(r) => u[m].relay /\ u[m].kids
      BY <2>2, <2>5 DEF Relays, Online
    <2>8. \A m \in Relays(r) : r[m].silence < 2 => m \notin Stale(r)
      BY DEF Stale
    <2>9. CASE Settled(r, before, down, up, next)
      <3>1. roster' = u
        BY <2>9 DEF Settled
      <3> HIDE DEF u
      <3>2. NewWithinBudget(r, e)
        BY <2>3, <2>6, <3>1 DEF NewWithinBudget
      <3>3. ParentsKept(r)
        BY <2>7, <2>8, <3>1 DEF ParentsKept
      <3>4. OneIsLeft(r, e)
        BY <2>3, <2>5, <3>1 DEF OneIsLeft, Stale
      <3>5. TradeIsSteady(r)
        <4> SUFFICES ASSUME NEW g \in Member, NEW d \in Member, ~r[g].relay, u[g].relay,
                            d \in Relays(r), ~u[d].relay, r[d].silence < 2
                     PROVE  FALSE
          BY <3>1 DEF TradeIsSteady
        <4>1. g \in up /\ d \notin up
          BY <2>2, <2>6
        <4>2. d \in down
          BY <2>2, <2>5, <2>8, <4>1 DEF Relays
        <4> QED
          BY <2>4, <4>1, <4>2
      <3> QED
        BY <3>2, <3>3, <3>4, <3>5
    <2>10. CASE Traded(r, e, before, down, up, next)
      <3> DEFINE w == Swapped(u, next)
                 c == next.candidate
                 v == next.victim
      <3>1. roster' = w /\ PairOf(next) \in SwapPairs(u, e) /\ Due(u, e, next)
        BY <2>10 DEF Traded, Due
      <3>8. ClockOK(next, Looked(u, gaps)) /\ gapFor' = Looked(u, gaps)
        BY <2>1, WatchKeeps DEF Rest
      <3>9. gapFor'[<<c, v>>] > SwapStable
        <4>1. Looked(u, gaps)[PairOf(next)] > SwapStable
          BY <3>1, <3>8, DueIsSeen
        <4> QED
          BY <3>8, <4>1 DEF PairOf
      <3> HIDE DEF u
      <3>2. /\ ~u[v].kids /\ ~e.window
            /\ w \in [Member -> Entry]
            /\ \A m \in Member \ {c, v} : w[m].relay = u[m].relay
            /\ w[c].relay /\ ~w[v].relay /\ u[v].relay /\ ~u[c].relay /\ u[c].silence = 0
            /\ c \in Online(u) /\ v \in Online(u)
            /\ Count(w) =< RelayBudget(Capacity(e))
        BY <2>2, <3>1, SwapFacts
      <3> HIDE DEF w, c, v
      <3>3. NewWithinBudget(r, e)
        BY <3>1, <3>2 DEF NewWithinBudget
      <3>4. ParentsKept(r)
        BY <2>7, <2>8, <3>1, <3>2 DEF ParentsKept, Relays, Online
      <3>5. OneIsLeft(r, e)
        BY <3>2 DEF OneIsLeft
      <3>6. c \in Online(r) /\ v \in Online(r) /\ c \in Member /\ v \in Member
        BY <2>2, <3>2 DEF Online
      <3>7. TradeIsSteady(r)
        <4> SUFFICES ASSUME NEW g \in Member, NEW d \in Member, ~r[g].relay, w[g].relay,
                            d \in Relays(r), ~w[d].relay, r[d].silence < 2
                     PROVE  ~r[c].relay /\ r[v].relay
          BY <3>1, <3>2, <3>6, <3>9 DEF TradeIsSteady
        <4>1. CASE up = {}
          <5>1. ~u[g].relay
            BY <2>6, <4>1
          <5>2. g = c
            BY <3>2, <5>1
          <5>3. r[v].relay
            BY <2>6, <3>2, <3>6, <4>1
          <5> QED
            BY <5>2, <5>3
        <4>2. CASE up # {}
          <5>1. down = {}
            BY <2>4, <4>2
          <5>2. d \notin Lost(r) \cup Stale(r) \cup down
            BY <2>5, <2>8, <5>1
          <5>3. u[d].relay
            BY <2>2, <5>2 DEF Relays
          <5>4. d = v
            BY <3>2, <5>3
          <5>5. r[c].relay => c \notin Lost(r) \cup Stale(r) \cup down
            BY <2>2, <3>2, <3>6, <5>1 DEF Lost, Stale, Online
          <5>6. ~r[c].relay
            BY <2>2, <3>2, <3>6, <5>5
          <5> QED
            BY <5>4, <5>6 DEF Relays
        <4> QED
          BY <4>1, <4>2
      <3> QED
        BY <3>3, <3>4, <3>5, <3>7
    <2> QED
      BY <2>1, <2>9, <2>10 DEF Rest
  <1> QED
    BY <1>1, <1>2
-----------------------------------------------------------------------------
(* What the properties of a step say, one by one.                           *)
StepWithinBudget ==
    \A m \in Member : ~roster[m].relay /\ roster'[m].relay /\ m \notin team.waiting =>
          Cardinality(Relays(roster')) =< RelayBudget(Capacity(team'))
StepKeepsParents ==
    \A m \in Relays(roster) : roster[m].kids /\ roster[m].silence < 2
          /\ m \in Online(roster') \ team.waiting => roster'[m].relay
StepKeepsOne ==
    team'.window /\ Relays(roster) # {} /\ Relays(roster') = {} =>
          \A m \in Relays(roster) : \/ m \notin Online(roster') \/ m \in team.waiting
                                      \/ roster[m].silence = 2
StepIsPatient ==
    Taken # {} /\ Given # {} =>
          \E c, v \in Member : /\ ~roster[c].relay /\ roster'[c].relay
                              /\ roster[v].relay /\ ~roster'[v].relay
                              /\ gapFor'[<<c, v>>] > SwapStable
StepOK == StepWithinBudget /\ StepKeepsParents /\ StepKeepsOne /\ StepIsPatient

(* Steps that change the grants of newcomers only.                          *)
LEMMA SameGrants ==
    ASSUME roster \in [Member -> Entry],
           \A m \in Member : m \notin team.waiting => roster'[m].relay = roster[m].relay
    PROVE  StepOK
  <1>1. Relays(roster) \subseteq Member /\ Online(roster) \subseteq Member
    BY DEF Relays, Online
  <1>2. StepWithinBudget
    BY DEF StepWithinBudget
  <1>3. StepKeepsParents
    BY <1>1 DEF StepKeepsParents, Relays
  <1>4. StepKeepsOne
    BY <1>1 DEF StepKeepsOne, Relays, Online
  <1>5. StepIsPatient
    BY <1>1 DEF StepIsPatient, Given
  <1> QED
    BY <1>2, <1>3, <1>4, <1>5 DEF StepOK

(* A rebalance of the table as it is, or without a relay that just went.    *)
LEMMA RebalanceOK ==
    ASSUME GrantsInv, NEW r \in [Member -> Entry], NEW before, NEW clock, NEW gaps, team' \in Team,
           TellingOf(r, before, untold), ClockOK(clock, gaps), Rebalance(r, team', before, clock, gaps),
           \A m \in Member : r[m] = roster[m] \/ (r[m].status # "online" /\ roster[m].relay)
    PROVE  GrantsInv' /\ StepOK
  <1> DEFINE e == team'
  <1>1. roster \in [Member -> Entry]
    BY InvParts
  <1>2. /\ roster' \in [Member -> Entry] /\ TellingOf(roster', told', untold') /\ ClockOK(swap', gapFor')
        /\ \A m \in Member : roster'[m].status = r[m].status
    BY RebalanceKeeps
  <1>3. NewWithinBudget(r, e) /\ ParentsKept(r) /\ OneIsLeft(r, e) /\ TradeIsSteady(r)
    BY RebalanceActs
  <1>4. \A m \in Member : m \in Online(roster') => r[m] = roster[m]
    BY <1>2 DEF Online
  <1>5. \A m \in Member : ~roster[m].relay => r[m] = roster[m]
    OBVIOUS
  <1>6. Relays(roster) \subseteq Member /\ Online(roster) \subseteq Member
    BY DEF Relays, Online
  <1>7. StepWithinBudget
    BY <1>3, <1>5 DEF StepWithinBudget, NewWithinBudget, Count
  <1>8. \A m \in Relays(roster) : m \in Online(roster') => m \in Relays(r) /\ r[m] = roster[m]
    BY <1>4, <1>6 DEF Relays, Online
  <1>9. StepKeepsParents
    BY <1>3, <1>8 DEF StepKeepsParents, ParentsKept
  <1>10. StepKeepsOne
    BY <1>3, <1>8 DEF StepKeepsOne, OneIsLeft
  <1>11. StepIsPatient
    <2> SUFFICES ASSUME NEW g \in Given, NEW d \in Taken
                 PROVE  \E c, v \in Member : /\ ~roster[c].relay /\ roster'[c].relay
                                             /\ roster[v].relay /\ ~roster'[v].relay
                                             /\ gapFor'[<<c, v>>] > SwapStable
      BY DEF StepIsPatient
    <2>1. g \in Member /\ r[g] = roster[g] /\ ~r[g].relay /\ roster'[g].relay
      BY <1>5 DEF Given
    <2>2. d \in Member /\ d \in Relays(r) /\ r[d] = roster[d] /\ ~roster'[d].relay /\ r[d].silence < 2
      BY <1>6, <1>8 DEF Taken
    <2>3. PICK c \in Online(r), v \in Online(r) : /\ ~r[c].relay /\ roster'[c].relay
                                                 /\ r[v].relay /\ ~roster'[v].relay
                                                 /\ gapFor'[<<c, v>>] > SwapStable
      BY <1>3, <2>1, <2>2 DEF TradeIsSteady
    <2>4. c \in Member /\ v \in Member /\ r[c] = roster[c] /\ r[v] = roster[v]
      BY DEF Online
    <2> QED
      BY <2>3, <2>4
  <1>12. GrantsInv'
    BY <1>2, InvNext DEF SwapOK
  <1> QED
    BY <1>7, <1>9, <1>10, <1>11, <1>12 DEF StepOK

LEMMA RebalanceTickOK ==
    ASSUME GrantsInv, RebalanceTick
    PROVE  GrantsInv' /\ StepOK
  <1>1. SwapOK /\ roster \in [Member -> Entry] /\ team \in Team /\ TellingOf(roster, told, untold)
    BY InvParts
  <1>2. ClockOK(OlderSwap, OlderGaps)
    BY <1>1, OlderKeeps
  <1>3. Rebalance(roster, team', told, OlderSwap, OlderGaps) /\ team' \in Team
    BY <1>1 DEF RebalanceTick
  <1> QED
    BY <1>1, <1>2, <1>3, RebalanceOK

LEMMA SetCapacityOK ==
    ASSUME GrantsInv, NEW s \in Settings, SetCapacity(s)
    PROVE  GrantsInv' /\ StepOK
  <1>1. team' \in Team /\ Rebalance(roster, team', told, swap, gapFor)
    BY InvParts DEF SetCapacity, Team
  <1> QED
    BY <1>1, InvParts, RebalanceOK DEF SwapOK

LEMMA RetryTickOK ==
    ASSUME GrantsInv, RetryTick
    PROVE  GrantsInv' /\ StepOK
  <1>1. PICK reached \in SUBSET (untold \cap Online(roster)) :
          /\ untold' = (untold \cap Online(roster)) \ reached
          /\ told' = [m \in Member |-> IF m \in reached THEN AsTold(roster[m].relay) ELSE told[m]]
          /\ UNCHANGED <<roster, team, swap, gapFor>>
    BY DEF RetryTick
  <1>2. roster \in [Member -> Entry] /\ team \in Team /\ SwapOK /\ TellingOf(roster, told, untold)
    BY InvParts
  <1>3. \A m : AsTold(roster[m].relay) \in Telling
    BY DEF AsTold, Telling
  <1>4. told' \in [Member -> Telling] /\ untold' \subseteq Member
    BY <1>1, <1>2, <1>3 DEF TellingOf
  <1>5. \A m \in Member : told'[m] = IF m \in reached THEN AsTold(roster[m].relay) ELSE told[m]
    BY <1>1
  <1>6. Online(roster) \subseteq Member
    BY DEF Online
  <1>7. ToldOf(roster, told', untold') /\ AwayOf(roster, told')
    BY <1>1, <1>2, <1>5, <1>6 DEF TellingOf, ToldOf, AwayOf
  <1>8. SwapOK'
    BY <1>1, <1>2 DEF SwapOK
  <1>9. GrantsInv'
    BY <1>1, <1>2, <1>4, <1>7, <1>8, InvNext DEF TellingOf
  <1> QED
    BY <1>1, <1>2, <1>9, SameGrants

(* A member comes or reports.                                               *)
LEMMA MemberChanges ==
    ASSUME GrantsInv, NEW m \in Member,
           roster' \in [Member -> Entry], team' \in Team, UNCHANGED <<untold, swap, gapFor>>,
           \A x \in Member : roster'[x].relay = roster[x].relay,
           Online(roster) \subseteq Online(roster'),
           \/ told' = told
           \/ m \in Online(roster') /\ told' = [told EXCEPT ![m] = AsTold(roster[m].relay)]
    PROVE  GrantsInv' /\ StepOK
  <1>1. roster \in [Member -> Entry] /\ team \in Team /\ SwapOK /\ TellingOf(roster, told, untold)
    BY InvParts
  <1>2. AsTold(roster[m].relay) \in Telling
    BY DEF AsTold, Telling
  <1>3. told \in [Member -> Telling] /\ untold \subseteq Member
    BY <1>1 DEF TellingOf
  <1>4. told' \in [Member -> Telling]
    BY <1>2, <1>3
  <1>5. \A x \in Member : told'[x] # told[x] => x = m /\ m \in Online(roster') /\ told'[x] = AsTold(roster[x].relay)
    BY <1>3
  <1>6. Online(roster) \subseteq Member /\ Online(roster') \subseteq Member
    BY DEF Online
  <1>7. ToldOf(roster', told', untold')
    <2> SUFFICES ASSUME NEW x \in Online(roster'), told'[x] # "unsure"
                 PROVE  told'[x] = AsTold(roster'[x].relay) \/ x \in untold
      BY DEF ToldOf
    <2>1. x \in Member /\ roster'[x].relay = roster[x].relay
      BY <1>6
    <2>2. CASE told'[x] # told[x]
      BY <1>5, <2>1, <2>2
    <2>3. CASE told'[x] = told[x]
      BY <1>1, <2>1, <2>3 DEF TellingOf, ToldOf, AwayOf
    <2> QED
      BY <2>2, <2>3
  <1>8. AwayOf(roster', told')
    BY <1>1, <1>5 DEF TellingOf, AwayOf
  <1>9. SwapOK'
    BY <1>1 DEF SwapOK
  <1>10. GrantsInv'
    BY <1>3, <1>4, <1>7, <1>8, <1>9, InvNext DEF TellingOf
  <1> QED
    BY <1>1, <1>10, SameGrants

LEMMA HeardOK ==
    ASSUME GrantsInv, NEW m \in Member, NEW rssi \in Rssi \cup {Unknown}, Heard(m, rssi)
    PROVE  GrantsInv' /\ StepOK
  <1>1. roster \in [Member -> Entry] /\ team \in Team
    BY InvParts
  <1> DEFINE entry == [roster[m] EXCEPT !.status = "online", !.silence = 0, !.rssi = rssi]
  <1>2. roster[m] \in Entry
    BY <1>1
  <1>3. entry \in Entry /\ entry.status = "online" /\ entry.relay = roster[m].relay
    <2>1. 0 \in 0 .. 2
      OBVIOUS
    <2> QED
      BY <1>2, <2>1 DEF Entry
  <1>4. roster' = [roster EXCEPT ![m] = entry]
    BY <1>1 DEF Heard
  <1> HIDE DEF entry
  <1>5. roster' \in [Member -> Entry] /\ \A x \in Member : roster'[x].relay = roster[x].relay
    BY <1>1, <1>3, <1>4
  <1>6. Online(roster) \subseteq Online(roster')
    BY <1>1, <1>3, <1>4 DEF Online
  <1> QED
    BY <1>1, <1>5, <1>6, MemberChanges DEF Heard

LEMMA HelloKnownOK ==
    ASSUME GrantsInv, NEW m \in Member, NEW sent \in BOOLEAN, HelloKnown(m, sent)
    PROVE  GrantsInv' /\ StepOK
  <1>1. roster \in [Member -> Entry] /\ team \in Team
    BY InvParts
  <1> DEFINE entry == [roster[m] EXCEPT !.status = "online", !.silence = 0]
  <1>2. roster[m] \in Entry
    BY <1>1
  <1>3. entry \in Entry /\ entry.status = "online" /\ entry.relay = roster[m].relay
    <2>1. 0 \in 0 .. 2
      OBVIOUS
    <2> QED
      BY <1>2, <2>1 DEF Entry
  <1>4. roster' = [roster EXCEPT ![m] = entry]
    BY <1>1 DEF HelloKnown
  <1> HIDE DEF entry
  <1>5. roster' \in [Member -> Entry] /\ \A x \in Member : roster'[x].relay = roster[x].relay
    BY <1>1, <1>3, <1>4
  <1>6. Online(roster) \subseteq Online(roster') /\ m \in Online(roster')
    BY <1>1, <1>3, <1>4 DEF Online
  <1> QED
    BY <1>1, <1>5, <1>6, MemberChanges DEF HelloKnown

LEMMA SilentOK ==
    ASSUME GrantsInv, NEW m \in Member, Silent(m)
    PROVE  GrantsInv' /\ StepOK
  <1>1. roster \in [Member -> Entry] /\ team \in Team
    BY InvParts
  <1> DEFINE entry == [roster[m] EXCEPT !.silence = roster[m].silence + 1]
  <1>2. roster[m] \in Entry /\ roster[m].silence < 2
    BY <1>1 DEF Silent
  <1>3. roster[m].silence + 1 \in 0 .. 2
    BY <1>2 DEF Entry
  <1>4. entry \in Entry /\ entry.status = roster[m].status /\ entry.relay = roster[m].relay
    BY <1>2, <1>3 DEF Entry
  <1>5. roster' = [roster EXCEPT ![m] = entry]
    BY <1>1 DEF Silent
  <1> HIDE DEF entry
  <1>6. roster' \in [Member -> Entry] /\ \A x \in Member : roster'[x].relay = roster[x].relay
    BY <1>1, <1>4, <1>5
  <1>7. Online(roster) \subseteq Online(roster')
    BY <1>1, <1>4, <1>5 DEF Online
  <1> QED
    BY <1>1, <1>6, <1>7, MemberChanges DEF Silent

LEMMA ChildrenOK ==
    ASSUME GrantsInv, NEW m \in Member, NEW kids \in BOOLEAN, Children(m, kids)
    PROVE  GrantsInv' /\ StepOK
  <1>1. roster \in [Member -> Entry] /\ team \in Team
    BY InvParts
  <1> DEFINE entry == [roster[m] EXCEPT !.kids = kids]
  <1>2. roster[m] \in Entry
    BY <1>1
  <1>3. entry \in Entry /\ entry.status = roster[m].status /\ entry.relay = roster[m].relay
    BY <1>2 DEF Entry
  <1>4. roster' = [roster EXCEPT ![m] = entry]
    BY <1>1 DEF Children
  <1> HIDE DEF entry
  <1>5. roster' \in [Member -> Entry] /\ \A x \in Member : roster'[x].relay = roster[x].relay
    BY <1>1, <1>3, <1>4
  <1>6. Online(roster) \subseteq Online(roster')
    BY <1>1, <1>3, <1>4 DEF Online
  <1> QED
    BY <1>1, <1>5, <1>6, MemberChanges DEF Children

(* Only the rest of what a plan depends on changes.                         *)
LEMMA TeamOnly ==
    ASSUME GrantsInv, team' \in Team, UNCHANGED <<roster, untold, swap, told, gapFor>>
    PROVE  GrantsInv' /\ StepOK
  <1>1. roster \in [Member -> Entry] /\ SwapOK /\ TellingOf(roster, told, untold)
    BY InvParts
  <1>2. SwapOK'
    BY <1>1 DEF SwapOK
  <1> QED
    BY <1>1, <1>2, InvNext, SameGrants

LEMMA WindowsOK ==
    ASSUME GrantsInv, WindowShrinks \/ PairingStart \/ \E m \in Member : Knock(m)
    PROVE  GrantsInv' /\ StepOK
  <1>0. team \in Team
    BY InvParts
  <1>1. team' \in Team
    <2>1. CASE PairingStart \/ \E m \in Member : Knock(m)
      BY <1>0, <2>1 DEF PairingStart, Knock, Team
    <2>2. CASE WindowShrinks
      <3>1. PICK left \in SUBSET team.watched, w \in BOOLEAN, x \in Member \cup {NoMember} :
               team' = [team EXCEPT !.watched = left, !.window = w, !.lost = x]
        BY <1>0, <2>2 DEF WindowShrinks, Team
      <3> QED
        BY <1>0, <3>1 DEF Team
    <2> QED
      BY <2>1, <2>2
  <1>2. UNCHANGED <<roster, untold, swap, told, gapFor>>
    BY DEF WindowShrinks, PairingStart, Knock
  <1> QED
    BY <1>1, <1>2, TeamOnly

(* A member goes: the table without it, and what it was told.               *)
LEMMA GoOfflineOK ==
    ASSUME GrantsInv, NEW m \in Member, NEW expired \in BOOLEAN, NEW held \in SUBSET Member,
           GoOffline(m, expired, held)
    PROVE  GrantsInv' /\ StepOK
  <1> DEFINE entry == [roster[m] EXCEPT !.status = "offline", !.kids = FALSE, !.relay = @ /\ expired, !.silence = 0]
             r == [roster EXCEPT ![m].status = "offline", ![m].kids = FALSE,
                                 ![m].relay = @ /\ expired, ![m].silence = 0]
             away == [told EXCEPT ![m] = "unsure"]
  <1>1. roster \in [Member -> Entry] /\ team \in Team /\ SwapOK /\ TellingOf(roster, told, untold)
    BY InvParts
  <1>2. roster[m] \in Entry
    BY <1>1
  <1>3. entry \in Entry /\ entry.status = "offline" /\ (entry.relay <=> roster[m].relay /\ expired)
    <2> DEFINE b == roster[m].relay /\ expired
    <2>1. b \in BOOLEAN /\ 0 \in 0 .. 2
      BY <1>2 DEF Entry
    <2>2. entry = [roster[m] EXCEPT !.status = "offline", !.kids = FALSE, !.relay = b, !.silence = 0]
      OBVIOUS
    <2> HIDE DEF b, entry
    <2>3. entry \in Entry /\ entry.status = "offline" /\ (entry.relay <=> b)
      BY <1>2, <2>1, <2>2 DEF Entry
    <2> QED
      BY <2>3 DEF b
  <1>4. r = [roster EXCEPT ![m] = entry]
    BY <1>1
  <1>5. \/ roster[m].relay /\ Rebalance(r, team', away, swap, gapFor)
           /\ \/ team' = team
              \/ team' = [team EXCEPT !.window = held # {}, !.watched = held,
                                      !.lost = IF held # {} THEN m ELSE NoMember]
        \/ ~roster[m].relay /\ roster' = r /\ told' = away /\ UNCHANGED <<team, untold, swap, gapFor>>
    BY DEF GoOffline
  <1> HIDE DEF entry
  <1>6. /\ r \in [Member -> Entry] /\ r[m] = entry
        /\ \A x \in Member \ {m} : r[x] = roster[x]
    BY <1>1, <1>3, <1>4
  <1>7. told \in [Member -> Telling] /\ untold \subseteq Member
    BY <1>1 DEF TellingOf
  <1>8. away \in [Member -> Telling] /\ away[m] = "unsure" /\ \A x \in Member \ {m} : away[x] = told[x]
    BY <1>7 DEF Telling
  <1> HIDE DEF r, away
  <1>9. ToldOf(r, away, untold) /\ AwayOf(r, away)
    BY <1>1, <1>3, <1>6, <1>8 DEF TellingOf, ToldOf, AwayOf, Online
  <1>10. TellingOf(r, away, untold)
    BY <1>7, <1>8, <1>9 DEF TellingOf
  <1>11. CASE roster[m].relay
    <2>1. team' \in Team /\ Rebalance(r, team', away, swap, gapFor) /\ ClockOK(swap, gapFor)
      BY <1>1, <1>5, <1>11 DEF Team, SwapOK
    <2>2. \A x \in Member : r[x] = roster[x] \/ (r[x].status # "online" /\ roster[x].relay)
      BY <1>3, <1>6, <1>11
    <2> QED
      BY <1>6, <1>10, <2>1, <2>2, RebalanceOK
  <1>12. CASE ~roster[m].relay
    <2>1. roster' = r /\ told' = away /\ UNCHANGED <<team, untold, swap, gapFor>>
      BY <1>5, <1>12
    <2>2. SwapOK'
      BY <1>1, <2>1 DEF SwapOK
    <2>3. GrantsInv'
      BY <1>1, <1>6, <1>10, <2>1, <2>2, InvNext
    <2>4. roster[m].relay \in BOOLEAN /\ r[m].relay \in BOOLEAN
      BY <1>2, <1>3, <1>6 DEF Entry
    <2>5. \A x \in Member : r[x].relay = roster[x].relay
      BY <1>3, <1>6, <1>12, <2>4
    <2> QED
      BY <1>1, <2>1, <2>3, <2>5, SameGrants
  <1> QED
    BY <1>11, <1>12

(* Newcomers are let in.                                                    *)
LEMMA LetInOK ==
    ASSUME GrantsInv, NEW granted \in SUBSET Member, NEW failed,
           LetIn(team.waiting, granted, failed), team' \in Team
    PROVE  GrantsInv' /\ StepOK
  <1> DEFINE admitted == team.waiting
             entry(m) == [roster[m] EXCEPT !.status = "online", !.relay = m \in granted]
  <1>1. roster \in [Member -> Entry] /\ team \in Team /\ SwapOK /\ TellingOf(roster, told, untold)
    BY InvParts
  <1>2. ASSUME NEW m \in Member
        PROVE  entry(m) \in Entry /\ entry(m).status = "online" /\ (entry(m).relay <=> m \in granted)
    <2> DEFINE b == m \in granted
               came == [roster[m] EXCEPT !.status = "online"]
    <2>1. roster[m] \in Entry
      BY <1>1
    <2>2. came \in Entry /\ came.status = "online"
      BY <2>1 DEF Entry
    <2>3. b \in BOOLEAN
      OBVIOUS
    <2>4. entry(m) = [came EXCEPT !.relay = b]
      BY <2>1 DEF Entry
    <2> HIDE DEF entry, came, b
    <2>5. entry(m) \in Entry /\ entry(m).status = "online" /\ (entry(m).relay <=> b)
      BY <2>2, <2>3, <2>4 DEF Entry
    <2> QED
      BY <2>5 DEF b
  <1>3. /\ roster' = [m \in Member |-> IF m \notin admitted THEN roster[m] ELSE entry(m)]
        /\ told' = [m \in Member |-> IF m \notin admitted THEN told[m]
                                     ELSE IF m \in failed THEN "unsure" ELSE AsTold(m \in granted)]
        /\ UNCHANGED <<untold, swap, gapFor>>
    BY DEF LetIn
  <1> HIDE DEF entry, admitted
  <1>4. roster' \in [Member -> Entry]
    BY <1>1, <1>2, <1>3
  <1>5. told \in [Member -> Telling] /\ untold \subseteq Member
    BY <1>1 DEF TellingOf
  <1>6. \A m : AsTold(m \in granted) \in Telling
    BY DEF AsTold, Telling
  <1>7. told' \in [Member -> Telling]
    BY <1>3, <1>5, <1>6 DEF Telling
  <1>8. ToldOf(roster', told', untold')
    <2> SUFFICES ASSUME NEW m \in Online(roster'), told'[m] # "unsure"
                 PROVE  told'[m] = AsTold(roster'[m].relay) \/ m \in untold
      BY <1>3 DEF ToldOf
    <2>1. m \in Member
      BY DEF Online
    <2>2. CASE m \in admitted
      <3>1. told'[m] = AsTold(m \in granted) /\ roster'[m] = entry(m)
        BY <1>3, <2>1, <2>2
      <3>2. entry(m).relay <=> m \in granted
        BY <1>2, <2>1
      <3> QED
        BY <3>1, <3>2 DEF AsTold
    <2>3. CASE m \notin admitted
      <3>1. told'[m] = told[m] /\ roster'[m] = roster[m]
        BY <1>3, <2>1, <2>3
      <3> QED
        BY <1>1, <2>1, <3>1 DEF TellingOf, ToldOf, Online
    <2> QED
      BY <2>2, <2>3
  <1>9. AwayOf(roster', told')
    BY <1>1, <1>2, <1>3 DEF TellingOf, AwayOf, Online
  <1>10. SwapOK'
    BY <1>1, <1>3 DEF SwapOK
  <1>11. GrantsInv'
    BY <1>3, <1>4, <1>5, <1>7, <1>8, <1>9, <1>10, InvNext DEF TellingOf
  <1>12. \A m \in Member : m \notin team.waiting => roster'[m].relay = roster[m].relay
    BY <1>3 DEF admitted
  <1> QED
    BY <1>1, <1>11, <1>12, SameGrants

LEMMA PairingStopOK ==
    ASSUME GrantsInv, PairingStop
    PROVE  GrantsInv' /\ StepOK
  <1>1. PICK failed \in SUBSET team.waiting :
          LetIn(team.waiting, {}, failed) /\ team' = [team EXCEPT !.pairing = FALSE, !.waiting = failed]
    BY DEF PairingStop
  <1>2. team' \in Team
    BY <1>1, InvParts DEF Team
  <1> QED
    BY <1>1, <1>2, LetInOK

LEMMA AutoApproveOK ==
    ASSUME GrantsInv, AutoApprove
    PROVE  GrantsInv' /\ StepOK
  <1>1. PICK failed \in SUBSET team.waiting, granted \in SUBSET team.waiting :
          LetIn(team.waiting, granted, failed) /\ team' = [team EXCEPT !.waiting = failed]
    BY DEF AutoApprove
  <1>2. team' \in Team /\ granted \subseteq Member
    BY <1>1, InvParts DEF Team
  <1> QED
    BY <1>1, <1>2, LetInOK

LEMMA GrantsStart == GrantsInit => GrantsInv
  <1> SUFFICES ASSUME GrantsInit PROVE GrantsInv
    OBVIOUS
  <1>1. roster \in [Member -> Entry]
    <2>1. 0 \in 0 .. 2
      OBVIOUS
    <2>2. [status |-> "unknown", relay |-> FALSE, kids |-> FALSE, rssi |-> Unknown, silence |-> 0] \in Entry
      BY <2>1 DEF Entry
    <2> QED
      BY <2>2 DEF GrantsInit
  <1>2. team \in Team
    BY DEF GrantsInit, Team
  <1>3. Online(roster) = {}
    BY DEF GrantsInit, Online
  <1>4. TellingOf(roster, told, untold)
    BY <1>3 DEF GrantsInit, TellingOf, ToldOf, AwayOf, Telling
  <1>5. SwapOK
    <2>1. swap = NoSwap /\ gapFor = [cv \in Pair |-> 0] /\ 0 \in 0 .. SwapStable + 1
      BY GrantsAssumption DEF GrantsInit
    <2>2. NoSwap \in Swap /\ PairOf(NoSwap) \notin Pair
      BY GrantsAssumption DEF NoSwap, Swap, PairOf, Pair
    <2> QED
      BY <2>1, <2>2 DEF SwapOK, ClockOK, Seen, Gaps
  <1> QED
    BY <1>1, <1>2, <1>4, <1>5, InvParts

LEMMA GrantsSteps ==
    ASSUME GrantsInv, GrantsNext
    PROVE  GrantsInv' /\ StepOK
  <1>1. CASE RebalanceTick \/ (\E s \in Settings : SetCapacity(s)) \/ RetryTick
    BY <1>1, RebalanceTickOK, SetCapacityOK, RetryTickOK
  <1>2. CASE Pairing \/ WindowShrinks
    BY <1>2, WindowsOK, PairingStopOK, AutoApproveOK DEF Pairing
  <1>3. ASSUME NEW m \in Member, Coming(m) \/ Going(m)
        PROVE  GrantsInv' /\ StepOK
    BY <1>3, HeardOK, HelloKnownOK, ChildrenOK, SilentOK, GoOfflineOK DEF Coming, Going
  <1> QED
    BY <1>1, <1>2, <1>3 DEF GrantsNext

LEMMA GrantsStutter ==
    ASSUME GrantsInv, UNCHANGED grantVars
    PROVE  GrantsInv'
  BY InvParts, TeamOnly DEF grantVars

LEMMA GrantsInvariant == GrantsSpec => []GrantsInv
  <1>1. GrantsInv /\ [GrantsNext]_grantVars => GrantsInv'
    BY GrantsSteps, GrantsStutter
  <1> QED
    BY <1>1, GrantsStart, PTL DEF GrantsSpec
-----------------------------------------------------------------------------
(* However plans change, whichever CONFIGs cannot be sent and whoever comes *)
(* and goes: a member that has not been away believes what the leader's     *)
(* table says of its grant, or a retry is due.                              *)
THEOREM MembersAreTold == GrantsSpec => []GrantsSafety
  <1>1. GrantsInv => GrantsSafety
    BY DEF GrantsInv, GrantsSafety
  <1> QED
    BY <1>1, GrantsInvariant, PTL

(* A rebalance never grants beyond what the leader's direct places take,    *)
(* for any signals, any limits of the operator and any losses.              *)
THEOREM PlansFitBudget == GrantsSpec => GrantsWithinBudget
  <1>1. GrantsInv /\ [GrantsNext]_grantVars => [StepWithinBudget]_grantVars
    BY GrantsSteps DEF StepOK
  <1> QED
    BY <1>1, GrantsInvariant, PTL DEF GrantsSpec, GrantsWithinBudget, StepWithinBudget

(* No plan takes the grant of a relay that holds children, nor, during the  *)
(* failover of another, that of the last relay.                             *)
THEOREM PlansKeepRelays == GrantsSpec => RelaysStay
  <1>1. GrantsInv /\ [GrantsNext]_grantVars => [StepKeepsParents]_grantVars /\ [StepKeepsOne]_grantVars
    BY GrantsSteps DEF StepOK
  <1>2. GrantsSpec => ParentsStay
    BY <1>1, GrantsInvariant, PTL DEF GrantsSpec, ParentsStay, StepKeepsParents
  <1>3. GrantsSpec => FailoverKeepsRelay
    BY <1>1, GrantsInvariant, PTL DEF GrantsSpec, FailoverKeepsRelay, StepKeepsOne
  <1> QED
    BY <1>2, <1>3 DEF RelaysStay

(* No relay is swapped for another before every look of a whole stable time *)
(* has found the gap between the two (the seconds of a pairing window, in   *)
(* which nobody looks, count too): whoever comes, goes, reports and is      *)
(* approved meanwhile, and whatever else the same plan grants and revokes.  *)
THEOREM SwapsAreSteady == GrantsSpec => SwapIsPatient
  <1>1. GrantsInv /\ [GrantsNext]_grantVars => [StepIsPatient]_grantVars
    BY GrantsSteps DEF StepOK
  <1> QED
    BY <1>1, GrantsInvariant, PTL DEF GrantsSpec, SwapIsPatient, StepIsPatient
=============================================================================
