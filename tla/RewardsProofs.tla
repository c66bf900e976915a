----------------------------- MODULE RewardsProofs -----------------------------
(* What an approval pays and leads to: facts about the reward arithmetic, for  *)
(* all widths, instants and rewards; about the honors, for any catalogue and   *)
(* any number of students and evaluations; and about the boards, for any       *)
(* users, days, workers, ledger and faults.                                    *)
EXTENDS RewardSchedule, Rankings, Honors, FiniteSetTheorems, NaturalsInduction,
        SequenceTheorems, WellFoundedInduction, TLAPS

\* Whatever the submission instant, the tier is one of the four.
LEMMA FractionIsTier ==
    ASSUME NEW s \in Int, NEW d \in Int
    PROVE  RewardFraction(s, d) \in Fractions
BY DEF RewardFraction, Fractions, FractionLate

\* reward_fraction never rises with the submission instant.
LEMMA FractionNeverRises ==
    ASSUME NEW s \in Int, NEW r \in Int, NEW d \in Int, s <= r
    PROVE  RewardFraction(r, d) <= RewardFraction(s, d)
BY TierAssumption DEF RewardFraction, FractionLate

\* reward_points pays at most the base reward, never a negative amount, and
\* all of it at 100%.
LEMMA PointsWithinBase ==
    ASSUME NEW b \in Nat, NEW f \in Fractions
    PROVE  /\ RewardPoints(b, f) \in 0..b
           /\ RewardPoints(b, 100) = b
<1>1. CASE f = 100 BY <1>1 DEF RewardPoints
<1>2. CASE f = 80  BY <1>2 DEF RewardPoints
<1>3. CASE f = 50  BY <1>3 DEF RewardPoints
<1>4. CASE f = 20  BY <1>4 DEF RewardPoints
<1> QED BY <1>1, <1>2, <1>3, <1>4 DEF Fractions

\* reward_points is monotone in the fraction.
LEMMA PointsFollowFraction ==
    ASSUME NEW b \in Nat, NEW f \in Fractions, NEW g \in Fractions, f <= g
    PROVE  RewardPoints(b, f) <= RewardPoints(b, g)
<1>1. RewardPoints(b, 20) <= RewardPoints(b, 50) BY DEF RewardPoints
<1>2. RewardPoints(b, 50) <= RewardPoints(b, 80) BY DEF RewardPoints
<1>3. RewardPoints(b, 80) <= RewardPoints(b, 100) BY DEF RewardPoints
<1>4. \A x \in Fractions : RewardPoints(b, x) \in Int
  BY DEF RewardPoints, Fractions
<1> QED BY <1>1, <1>2, <1>3, <1>4 DEF Fractions

\* reward_points loses less than one point, and nothing at the full tier.
LEMMA PointsAreFloor ==
    ASSUME NEW b \in Nat, NEW f \in Fractions
    PROVE  /\ 100 * RewardPoints(b, f) <= b * f
           /\ b * f < 100 * (RewardPoints(b, f) + 1)
<1>1. CASE f = 100 BY <1>1 DEF RewardPoints
<1>2. CASE f = 80  BY <1>2 DEF RewardPoints
<1>3. CASE f = 50  BY <1>3 DEF RewardPoints
<1>4. CASE f = 20  BY <1>4 DEF RewardPoints
<1> QED BY <1>1, <1>2, <1>3, <1>4 DEF Fractions

-----------------------------------------------------------------------------
ScheduleTypes ==
    /\ policy \in Policies
    /\ base \in Bases
    /\ claimedAt \in Nat
    /\ at \in 0..Horizon

LEMMA RowType ==
    ASSUME ScheduleTypes PROVE Row.deadline \in Int
<1>1. policy.mode \in {"FIXED", "RELATIVE"} /\ policy.at \in Nat
  BY ScheduleAssumption DEF ScheduleTypes
<1> QED BY <1>1 DEF ScheduleTypes, Row, ClaimDeadlines, ClaimDeadline

LEMMA InitTypes == ScheduleInit => ScheduleTypes
BY ScheduleAssumption DEF ScheduleInit, ScheduleTypes

LEMMA StepTypes == ScheduleTypes /\ [HandInLater]_scheduleVars => ScheduleTypes'
BY ScheduleAssumption DEF ScheduleTypes, HandInLater, scheduleVars

\* The code pays by the table of its docstring: at every instant of the window
\* the tier is the one whose half-open interval holds the instant.
THEOREM TierIsOfTable == ScheduleSpec => []MatchesTable
<1>1. ScheduleTypes => MatchesTable
  <2> SUFFICES ASSUME ScheduleTypes PROVE MatchesTable OBVIOUS
  <2> DEFINE d == Row.deadline
  <2>1. d \in Int /\ at \in 0..Horizon /\ Row.grace = d + Grace
    BY RowType DEF ScheduleTypes, Row, ClaimDeadlines
  <2>2. Intervals(Row)[100] = {s \in 0..Horizon : s <= d}
    BY DEF Intervals, Fractions
  <2>3. Intervals(Row)[80] = {s \in 0..Horizon : d < s /\ s < d + EarlyWidth}
    BY DEF Intervals, Fractions
  <2>4. Intervals(Row)[50] = {s \in 0..Horizon : d + EarlyWidth <= s /\ s < d + MidWidth}
    BY DEF Intervals, Fractions
  <2>5. Intervals(Row)[20] = {s \in 0..Horizon : d + MidWidth <= s /\ s < Row.grace}
    BY DEF Intervals, Fractions
  <2>6. Fraction = RewardFraction(at, d) BY DEF Fraction
  <2> HIDE DEF d
  <2>7. ASSUME at < d + Grace, NEW f \in Fractions
        PROVE  at \in Intervals(Row)[f] <=> RewardFraction(at, d) = f
    <3>1. CASE f = 100 BY <2>1, <2>2, <3>1 DEF RewardFraction, FractionLate
    <3>2. CASE f = 80 BY <2>1, <2>3, <3>2, TierAssumption DEF RewardFraction, FractionLate
    <3>3. CASE f = 50 BY <2>1, <2>4, <3>3, TierAssumption DEF RewardFraction, FractionLate
    <3>4. CASE f = 20
      BY <2>1, <2>5, <2>7, <3>4, TierAssumption DEF RewardFraction, FractionLate
    <3> QED BY <3>1, <3>2, <3>3, <3>4 DEF Fractions
  <2>8. ~WindowClosed(at, Row.grace) => at < d + Grace
    BY <2>1, TierAssumption DEF WindowClosed
  <2> QED BY <2>6, <2>7, <2>8 DEF MatchesTable
<1> QED BY <1>1, InitTypes, StepTypes, PTL DEF ScheduleSpec

\* Nobody is paid a point too much, or loses a whole one to the rounding.
THEOREM FloorAlwaysExact == ScheduleSpec => []FloorIsExact
<1>1. ScheduleTypes => FloorIsExact
  <2> SUFFICES ASSUME ScheduleTypes PROVE FloorIsExact OBVIOUS
  <2>1. base \in Nat /\ at \in Int /\ Row.deadline \in Int
    BY RowType, ScheduleAssumption DEF ScheduleTypes
  <2>2. Fraction \in Fractions BY <2>1, FractionIsTier DEF Fraction
  <2> QED BY <2>1, <2>2, PointsAreFloor, PointsWithinBase DEF FloorIsExact, Points
<1> QED BY <1>1, InitTypes, StepTypes, PTL DEF ScheduleSpec

\* Every claim is paid by the table, rounded down and never more, for every
\* deadline policy, base reward and width of the tiers.
THEOREM TableAlwaysPaid == ScheduleSpec => []PaysByTheTable
<1>1. MatchesTable /\ FloorIsExact => PaysByTheTable BY DEF PaysByTheTable
<1> QED BY <1>1, TierIsOfTable, FloorAlwaysExact, PTL

\* A student who hands a file in later is never paid more for it, in every
\* schedule: the tiers and the floor are both monotone.
THEOREM LaterPaysLess == ScheduleSpec => LaterNeverPaysMore
<1>1. ScheduleInit => ScheduleTypes
  BY InitTypes
<1>2. ScheduleTypes /\ [HandInLater]_scheduleVars => ScheduleTypes'
  BY StepTypes
<1>3. ASSUME ScheduleTypes, [HandInLater]_scheduleVars
      PROVE  Points' <= Points
  <2>1. base \in Nat /\ at \in Int /\ Row.deadline \in Int
    BY <1>3, RowType, ScheduleAssumption DEF ScheduleTypes
  <2>2. base' = base /\ Row' = Row /\ at' \in Int /\ at <= at'
    BY <1>3, <2>1 DEF HandInLater, scheduleVars, Row, ScheduleTypes
  <2>3. Fraction \in Fractions /\ Fraction' \in Fractions /\ Fraction' <= Fraction
    <3>1. Fraction = RewardFraction(at, Row.deadline) BY DEF Fraction
    <3>2. Fraction' = RewardFraction(at', Row.deadline)
      BY <2>2 DEF Fraction, RewardFraction
    <3> QED BY <3>1, <3>2, <2>1, <2>2, FractionIsTier, FractionNeverRises
  <2>4. Points = RewardPoints(base, Fraction) /\ Points' = RewardPoints(base, Fraction')
    BY <2>2 DEF Points, RewardPoints
  <2> QED BY <2>1, <2>3, <2>4, PointsFollowFraction
<1>4. ScheduleTypes /\ [HandInLater]_scheduleVars => [Points' <= Points]_scheduleVars
  BY <1>3
<1> QED BY <1>1, <1>2, <1>4, PTL DEF ScheduleSpec, LaterNeverPaysMore

-----------------------------------------------------------------------------
(* Numbers *)

\* A set of numbers has a smallest one: the order is well-founded.
LEMMA SmallestNumber ==
    ASSUME NEW D \in SUBSET Nat, D # {}
    PROVE  Min(D) \in D /\ \A m \in D : Min(D) <= m
<1>1. PICK n \in D : \A m \in D : <<m, n>> \notin OpToRel(<, Nat)
  BY NatLessThanWellFounded, WFMin, Zenon
<1>2. \A m \in D : m < n => <<m, n>> \in OpToRel(<, Nat) BY Zenon DEF OpToRel
<1>3. \A m \in D : ~(m < n) BY <1>1, <1>2, Zenon
<1>4. \A m \in D : n <= m BY <1>3
<1> QED BY <1>4 DEF Min

\* A bounded one has a greatest: the smallest distance from the bound.
LEMMA GreatestNumber ==
    ASSUME NEW n \in Nat, NEW D \in SUBSET (0..n), D # {}
    PROVE  Max(D) \in D /\ \A m \in D : m <= Max(D)
<1> DEFINE E == {n - m : m \in D}
<1>1. E \in SUBSET Nat /\ E # {}
  <2>1. \A m \in D : n - m \in Nat OBVIOUS
  <2> QED BY <2>1
<1>2. Min(E) \in E /\ \A e \in E : Min(E) <= e
  <2> HIDE DEF E
  <2> QED BY <1>1, SmallestNumber
<1>3. PICK x \in D : Min(E) = n - x BY <1>2
<1>4. \A m \in D : n - x <= n - m BY <1>2, <1>3
<1>5. \A m \in D : m <= x BY <1>4
<1>6. \A m \in D : x >= m BY <1>5
<1> QED BY <1>6 DEF Max

LEMMA MaxOfTwo ==
    ASSUME NEW a \in Nat, NEW b \in Nat
    PROVE  Max({a, b}) \in {a, b} /\ a <= Max({a, b}) /\ b <= Max({a, b})
<1>1. \E x \in {a, b} : \A y \in {a, b} : x >= y OBVIOUS
<1> QED BY <1>1 DEF Max

-----------------------------------------------------------------------------
(* The inductive invariant *)

HonorTyped ==
    /\ stamps \in Nat /\ done \in [Students -> Seq(Completions)]
    /\ earned \in [Students -> Nat] /\ reached \in [Students -> Nat]
    /\ counted \in [Students -> Nat]
    /\ honors \subseteq DOMAIN Rules \cup Commemorative
    /\ owned \in [Students -> SUBSET honors]
    /\ evaluation \in [Approvers -> {Free} \cup EvaluationRows]

\* What an evaluation holds stands in the tables or in its own transaction, and
\* it was earned; what it counted is done, held or still to do.
EvaluationSound(e) ==
    /\ e.step \in {"review", "facts"} => e.rows = {} /\ e.grants = {} /\ e.todo = {}
    /\ e.step \notin {"review", "facts"} => e.facts \in FactRows
    /\ e.step \in {"insert", "grant"} => e.todo # {}
    /\ e.step = "grant" => Turn(e) \in honors \cup e.rows
    /\ e.grants \subseteq honors \cup e.rows
    /\ \A k \in e.todo \cup e.grants : Deserved(e.student, k)
    /\ e.step \notin {"review", "facts"} =>
           \A k \in DOMAIN Rules :
               Rules[k].fact = "completed" /\ e.facts.completed >= Rules[k].threshold
               => k \in e.todo \cup e.grants \cup owned[e.student]

\* Everybody works down the catalogue: what an evaluation has inserted comes
\* before what it has left to do.
DownTheCatalogue(e) ==
    /\ \A k \in e.grants, j \in e.todo : k < j
    /\ \A k \in e.rows, j \in e.todo : k <= j /\ (e.step # "grant" => k < j)

HonorInv ==
    /\ HonorTyped
    /\ \A s \in Students : earned[s] <= reached[s]
    /\ \A w \in Approvers : evaluation[w] # Free =>
           EvaluationSound(evaluation[w]) /\ DownTheCatalogue(evaluation[w])
    /\ HonorsAreDeserved
    /\ LostTriggerHeals

-----------------------------------------------------------------------------
(* Facts about the catalogue and the facts *)

LEMMA RulesAreRules ==
    /\ DOMAIN Rules \subseteq Nat
    /\ \A k \in DOMAIN Rules : /\ Rules[k].fact \in {"completed", "streak", "points"}
                               /\ Rules[k].threshold \in Nat \ {0}
<1> DEFINE R == [fact : {"completed", "streak", "points"}, threshold : Nat \ {0}]
<1>1. Rules \in Seq(R) BY HonorAssumption
<1>2. \A r \in R : r.fact \in {"completed", "streak", "points"} /\ r.threshold \in Nat \ {0}
  OBVIOUS
<1>3. DOMAIN Rules \subseteq Nat /\ \A k \in DOMAIN Rules : Rules[k] \in R
  <2> HIDE DEF R
  <2> QED BY <1>1
<1> QED BY <1>2, <1>3

LEMMA TurnIsFirst ==
    ASSUME NEW e \in EvaluationRows, e.todo # {}
    PROVE  Turn(e) \in e.todo /\ \A j \in e.todo : Turn(e) <= j
BY SmallestNumber, RulesAreRules DEF Turn, EvaluationRows

\* A streak is a number of claims.
LEMMA StreakIsANumber ==
    ASSUME NEW line \in Seq(Completions)
    PROVE  Streak(line) \in Nat
<1> DEFINE D == {i \in DOMAIN line :
                    \A j \in DOMAIN line : line[j].at >= line[i].at => line[j].onTime}
<1>1. Len(line) \in Nat /\ DOMAIN line = 1..Len(line) OBVIOUS
<1>2. IsFiniteSet(1..Len(line)) BY <1>1, FS_Interval
<1>3. D \subseteq 1..Len(line) BY <1>1
<1>4. IsFiniteSet(D)
  <2> HIDE DEF D
  <2> QED BY <1>2, <1>3, FS_Subset
<1>5. Cardinality(D) \in Nat
  <2> HIDE DEF D
  <2> QED BY <1>4, FS_CardinalityType
<1> QED BY <1>5 DEF Streak

LEMMA FactsAreFacts ==
    ASSUME HonorInv, NEW s \in Students
    PROVE  /\ Facts(s) \in FactRows
           /\ Matching(Facts(s)) \subseteq DOMAIN Rules
           /\ \A k \in Matching(Facts(s)) : Deserved(s, k)
           /\ \A k \in DOMAIN Rules :
                  Rules[k].fact = "completed" /\ Facts(s).completed >= Rules[k].threshold
                  => k \in Matching(Facts(s))
<1>1. done[s] \in Seq(Completions) /\ Streak(done[s]) \in Nat
  BY StreakIsANumber DEF HonorInv, HonorTyped
<1>2. Len(done[s]) \in Nat /\ earned[s] \in Nat /\ reached[s] \in Nat /\ earned[s] <= reached[s]
  BY DEF HonorInv, HonorTyped
<1>3. Facts(s) \in FactRows BY <1>1, <1>2 DEF Facts, FactRows
<1>4. Matching(Facts(s)) \subseteq DOMAIN Rules BY DEF Matching
<1>5. ASSUME NEW k \in Matching(Facts(s)) PROVE Deserved(s, k)
  <2>1. k \in DOMAIN Rules /\ Facts(s)[Rules[k].fact] >= Rules[k].threshold
    BY DEF Matching
  <2>2. Rules[k].threshold \in Nat BY <2>1, RulesAreRules
  <2>3. CASE Rules[k].fact = "completed" BY <2>1, <2>3 DEF Deserved, Facts
  <2>4. CASE Rules[k].fact = "points" BY <1>2, <2>1, <2>2, <2>4 DEF Deserved, Facts
  <2>5. CASE Rules[k].fact = "streak"
    <3>1. Streak(done[s]) >= Rules[k].threshold BY <2>1, <2>5 DEF Facts
    <3>2. SubSeq(done[s], 1, Len(done[s])) = done[s] BY <1>1, SubSeqFull
    <3>3. Len(done[s]) \in 0..Len(done[s]) BY <1>2
    <3>4. \E n \in 0..Len(done[s]) : Streak(SubSeq(done[s], 1, n)) >= Rules[k].threshold
      BY <3>1, <3>2, <3>3
    <3> QED BY <2>5, <3>4 DEF Deserved
  <2> QED BY <2>1, <2>3, <2>4, <2>5, RulesAreRules
<1>6. ASSUME NEW k \in DOMAIN Rules, Rules[k].fact = "completed",
             Facts(s).completed >= Rules[k].threshold
      PROVE  k \in Matching(Facts(s))
  BY <1>6 DEF Matching, Facts
<1> QED BY <1>3, <1>4, <1>5, <1>6

\* Another commit leaves what had committed before as it was.
LEMMA OneMore ==
    ASSUME NEW q \in Seq(Completions), NEW b \in Completions
    PROVE  /\ Append(q, b) \in Seq(Completions) /\ Len(Append(q, b)) = Len(q) + 1
           /\ \A n \in 0..Len(q) : SubSeq(Append(q, b), 1, n) = SubSeq(q, 1, n)
<1> DEFINE S == Completions
<1>1. q \in Seq(S) /\ b \in S OBVIOUS
<1> HIDE DEF S
<1>2. Append(q, b) \in Seq(S) /\ Len(Append(q, b)) = Len(q) + 1 BY <1>1
<1>3. Append(q, b) = q \o <<b>> /\ <<b>> \in Seq(S) BY <1>1
<1>4. ASSUME NEW n \in 0..Len(q) PROVE SubSeq(Append(q, b), 1, n) = SubSeq(q, 1, n)
  <2>1. Len(q) \in Nat BY <1>1
  <2>2. CASE n = 0 BY <2>2, SubSeqEmpty
  <2>3. CASE n # 0
    <3>1. 1 \in 1..Len(q) /\ n \in 1..Len(q) BY <2>1, <2>3
    <3> QED BY <1>1, <1>3, <3>1, SubSeqOfConcat1
  <2> QED BY <2>2, <2>3
<1> QED BY <1>2, <1>4 DEF S

\* What a student deserves stays deserved: claims are completed and points are
\* reached, and neither is undone.
LEMMA DeservedStays ==
    ASSUME HonorTyped, NEW s \in Students, NEW k \in DOMAIN Rules, Deserved(s, k),
           reached'[s] \in Nat, reached'[s] >= reached[s],
           done'[s] = done[s] \/ \E b \in Completions : done'[s] = Append(done[s], b)
    PROVE  Deserved(s, k)'
<1> DEFINE old == done[s]
           new == done'[s]
           t == Rules[k].threshold
<1>1. t \in Nat \ {0} /\ Rules[k].fact \in {"completed", "streak", "points"} BY RulesAreRules
<1>2. old \in Seq(Completions) /\ Len(old) \in Nat /\ reached[s] \in Nat BY DEF HonorTyped
<1>3. /\ Len(new) \in Nat /\ Len(new) >= Len(old)
      /\ \A n \in 0..Len(old) : SubSeq(new, 1, n) = SubSeq(old, 1, n)
  <2>1. CASE \E b \in Completions : new = Append(old, b)
    <3>1. PICK b \in Completions : new = Append(old, b) BY <2>1
    <3> HIDE DEF old, new
    <3> QED BY <1>2, <3>1, OneMore
  <2>2. CASE new = old BY <1>2, <2>2
  <2> QED BY <2>1, <2>2
<1>4. CASE Rules[k].fact = "completed"
  <2>1. Len(old) >= t BY <1>4 DEF Deserved
  <2>2. Len(new) >= t
    <3> HIDE DEF old, new, t
    <3> QED BY <1>1, <1>2, <1>3, <2>1
  <2> QED BY <1>4, <2>2 DEF Deserved
<1>5. CASE Rules[k].fact = "points" BY <1>1, <1>2, <1>5 DEF Deserved
<1>6. CASE Rules[k].fact = "streak"
  <2>1. PICK n \in 0..Len(old) : Streak(SubSeq(old, 1, n)) >= t BY <1>6 DEF Deserved
  <2>2. n \in 0..Len(new) /\ SubSeq(new, 1, n) = SubSeq(old, 1, n)
    <3> HIDE DEF old, new
    <3> QED BY <1>2, <1>3
  <2>3. \E m \in 0..Len(new) : Streak(SubSeq(new, 1, m)) >= t
    <3> HIDE DEF old, new, t
    <3> QED BY <2>1, <2>2
  <2> QED BY <1>6, <2>3 DEF Deserved, Streak
<1> QED BY <1>1, <1>4, <1>5, <1>6

-----------------------------------------------------------------------------
(* What a step leaves alone *)

\* Claims are completed, points reached, honors made and granted and counts
\* raised; nothing of it is undone.
Grows ==
    /\ HonorTyped'
    /\ \A s \in Students :
           /\ done'[s] = done[s] \/ \E b \in Completions : done'[s] = Append(done[s], b)
           /\ reached'[s] >= reached[s]
           /\ owned[s] \subseteq owned'[s]
    /\ honors \subseteq honors'

LEMMA DeservedGrows ==
    ASSUME HonorTyped, Grows, NEW s \in Students, NEW k \in DOMAIN Rules, Deserved(s, k)
    PROVE  Deserved(s, k)'
<1>1. reached'[s] \in Nat BY DEF Grows, HonorTyped
<1> QED BY <1>1, DeservedStays DEF Grows

\* An evaluation that does not move stays sound.
LEMMA SoundStays ==
    ASSUME HonorInv, Grows, NEW e \in EvaluationRows, EvaluationSound(e)
    PROVE  EvaluationSound(e)'
<1>1. HonorTyped /\ e.student \in Students /\ e.todo \cup e.grants \subseteq DOMAIN Rules
  BY DEF HonorInv, EvaluationRows
<1>2. \A k \in e.todo \cup e.grants : Deserved(e.student, k)'
  BY <1>1, DeservedGrows DEF EvaluationSound
<1>3. owned[e.student] \subseteq owned'[e.student] /\ honors \subseteq honors' BY <1>1 DEF Grows
<1> QED BY <1>2, <1>3 DEF EvaluationSound, Turn

\* A step preserves the invariant if the one evaluation it moves, if any, stays
\* sound, and what is newly owned or counted was deserved.
LEMMA StepPreserves ==
    ASSUME HonorInv, Grows,
           \A s \in Students : earned'[s] <= reached'[s],
           \A w \in Approvers : evaluation'[w] = evaluation[w] \/ evaluation'[w] = Free
               \/ (EvaluationSound(evaluation[w]) /\ DownTheCatalogue(evaluation[w]))',
           \A s \in Students : \A k \in owned'[s] \ Commemorative :
               k \in owned[s] \/ Deserved(s, k)',
           \A s \in Students : counted'[s] = counted[s] \/
               \A k \in DOMAIN Rules :
                   Rules[k].fact = "completed" /\ counted'[s] >= Rules[k].threshold => k \in owned'[s]
    PROVE  HonorInv'
<1>1. HonorTyped /\ HonorTyped' BY DEF HonorInv, Grows
<1>2. ASSUME NEW w \in Approvers, evaluation'[w] # Free
      PROVE  EvaluationSound(evaluation[w])' /\ DownTheCatalogue(evaluation[w])'
  <2>1. CASE evaluation'[w] = evaluation[w]
    <3> DEFINE e == evaluation[w]
    <3>1. e \in EvaluationRows /\ EvaluationSound(e) /\ DownTheCatalogue(e)
      BY <1>1, <1>2, <2>1 DEF HonorInv, HonorTyped
    <3>2. \A r \in EvaluationRows : EvaluationSound(r) => EvaluationSound(r)'
      BY SoundStays
    <3>4. PICK r \in EvaluationRows : r = e BY <3>1
    <3>5. EvaluationSound(r)' BY <3>1, <3>2, <3>4
    <3>6. EvaluationSound(r)' => EvaluationSound(evaluation[w])'
      BY <2>1, <3>4 DEF EvaluationSound, Turn, Deserved
    <3>7. DownTheCatalogue(evaluation[w])' BY <2>1, <3>1 DEF DownTheCatalogue
    <3> QED BY <3>5, <3>6, <3>7
  <2> QED BY <1>2, <2>1
<1>3. HonorsAreDeserved'
  <2>1. ASSUME NEW s \in Students, NEW k \in owned'[s] \ Commemorative PROVE Deserved(s, k)'
    <3>1. k \in DOMAIN Rules BY <1>1 DEF HonorTyped
    <3>2. k \in owned[s] => Deserved(s, k) BY DEF HonorInv, HonorsAreDeserved
    <3> QED BY <1>1, <3>1, <3>2, DeservedGrows
  <2> QED BY <2>1 DEF HonorsAreDeserved
<1>4. LostTriggerHeals'
  BY DEF HonorInv, LostTriggerHeals, Grows
<1> QED BY <1>1, <1>2, <1>3, <1>4 DEF HonorInv

-----------------------------------------------------------------------------
(* The initial states and the steps *)

LEMMA HonorStarts == HonorInit => HonorInv
<1> SUFFICES ASSUME HonorInit PROVE HonorInv OBVIOUS
<1>1. HonorTyped BY DEF HonorInit, HonorTyped
<1>2. LostTriggerHeals
  <2>1. \A s \in Students, k \in DOMAIN Rules : ~(counted[s] >= Rules[k].threshold)
    BY RulesAreRules DEF HonorInit
  <2> QED BY <2>1 DEF LostTriggerHeals
<1> QED BY <1>1, <1>2 DEF HonorInit, HonorInv, HonorsAreDeserved

LEMMA BeginStep ==
    ASSUME HonorInv, NEW w \in Approvers, NEW s \in Students, Begin(w, s)
    PROVE  HonorInv'
<1>1. HonorTyped BY DEF HonorInv
<1>2. stamps' = stamps + 1 /\ UNCHANGED <<done, earned, honors, owned, reached, counted>>
  BY DEF Begin
<1>3. /\ evaluation'[w] \in EvaluationRows /\ evaluation'[w].step = "review"
      /\ evaluation'[w].todo = {} /\ evaluation'[w].rows = {} /\ evaluation'[w].grants = {}
      /\ \A v \in Approvers \ {w} : evaluation'[v] = evaluation[v]
      /\ evaluation' \in [Approvers -> {Free} \cup EvaluationRows]
  BY <1>1 DEF Begin, HonorTyped, EvaluationRows
<1>4. HonorTyped' BY <1>1, <1>2, <1>3 DEF HonorTyped
<1>5. Grows BY <1>1, <1>2, <1>4 DEF Grows, HonorTyped
<1>6. \A u \in Students : earned'[u] <= reached'[u] BY <1>2 DEF HonorInv
<1>7. (EvaluationSound(evaluation[w]) /\ DownTheCatalogue(evaluation[w]))'
  BY <1>3 DEF EvaluationSound, DownTheCatalogue
<1> QED BY <1>2, <1>3, <1>5, <1>6, <1>7, StepPreserves

LEMMA ApproveStep ==
    ASSUME HonorInv, NEW w \in Approvers, evaluation[w] # Free, NEW onTime \in BOOLEAN,
           NEW points \in Rewards, Approve(w, onTime, points)
    PROVE  HonorInv'
<1> DEFINE e == evaluation[w]
           s == e.student
           top == Max({reached[s], earned[s] + points})
           claim == [at |-> e.at, onTime |-> onTime]
           line == Append(done[s], claim)
<1>1. HonorTyped /\ e \in EvaluationRows /\ EvaluationSound(e) /\ e.step = "review"
  BY DEF HonorInv, HonorTyped, Approve
<1>2. s \in Students /\ e.at \in Nat BY <1>1 DEF EvaluationRows
<1>3. points \in Nat /\ earned[s] \in Nat /\ reached[s] \in Nat
  BY <1>1, <1>2, HonorAssumption DEF HonorTyped
<1>4. top \in Nat /\ top >= reached[s] /\ top >= earned[s] + points
  <2>1. earned[s] + points \in Nat BY <1>3
  <2> HIDE DEF s
  <2> QED BY <1>3, <2>1, MaxOfTwo
<1>5. /\ reached' = [reached EXCEPT ![s] = top] /\ earned' = [earned EXCEPT ![s] = @ + points]
      /\ done' = [done EXCEPT ![s] = line]
      /\ evaluation' = [evaluation EXCEPT ![w] = [e EXCEPT !.step = "facts"]]
      /\ stamps' = stamps /\ honors' = honors /\ owned' = owned /\ counted' = counted
  BY <1>1, <1>2 DEF Approve, HonorTyped
<1> HIDE DEF top
<1>6. e.rows = {} /\ e.grants = {} /\ e.todo = {} BY <1>1 DEF EvaluationSound
<1>7. /\ evaluation'[w] \in EvaluationRows /\ evaluation'[w].step = "facts"
      /\ evaluation'[w].todo = {} /\ evaluation'[w].rows = {} /\ evaluation'[w].grants = {}
      /\ \A v \in Approvers \ {w} : evaluation'[v] = evaluation[v]
      /\ evaluation' \in [Approvers -> {Free} \cup EvaluationRows]
  BY <1>1, <1>5, <1>6 DEF HonorTyped, EvaluationRows
<1>8. claim \in Completions BY <1>2 DEF Completions
<1>9. line \in Seq(Completions) /\ \E b \in Completions : line = Append(done[s], b)
  <2> HIDE DEF claim, s
  <2>1. done[s] \in Seq(Completions) BY <1>1, <1>2 DEF HonorTyped
  <2> QED BY <1>8, <2>1, OneMore
<1> HIDE DEF s, e
<1>10. HonorTyped'
  <2> HIDE DEF line
  <2>1. done' \in [Students -> Seq(Completions)]
    <3> DEFINE lines == Seq(Completions)
    <3>1. done \in [Students -> lines] /\ line \in lines /\ done' = [done EXCEPT ![s] = line]
      BY <1>1, <1>5, <1>9 DEF HonorTyped
    <3> HIDE DEF lines
    <3>2. done' = [u \in Students |-> IF u = s THEN line ELSE done[u]] BY <3>1
    <3>3. \A u \in Students : (IF u = s THEN line ELSE done[u]) \in lines BY <3>1
    <3>4. done' \in [Students -> lines] BY <3>2, <3>3
    <3> QED BY <3>4 DEF lines
  <2>2. earned' \in [Students -> Nat]
    <3> DEFINE more == earned[s] + points
    <3>1. more \in Nat /\ earned \in [Students -> Nat] BY <1>1, <1>3 DEF HonorTyped
    <3>2. earned' = [earned EXCEPT ![s] = more] BY <1>5
    <3> HIDE DEF more
    <3> QED BY <3>1, <3>2
  <2>3. reached' \in [Students -> Nat] BY <1>1, <1>4, <1>5 DEF HonorTyped
  <2>4. /\ stamps' \in Nat /\ counted' \in [Students -> Nat]
        /\ honors' \subseteq DOMAIN Rules \cup Commemorative
        /\ owned' \in [Students -> SUBSET honors']
    BY <1>1, <1>5 DEF HonorTyped
  <2> QED BY <1>7, <2>1, <2>2, <2>3, <2>4 DEF HonorTyped
<1>11. Grows
  <2> HIDE DEF line
  <2>1. done'[s] = line /\ \A u \in Students \ {s} : done'[u] = done[u]
    BY <1>1, <1>2, <1>5 DEF HonorTyped
  <2>2. \A u \in Students : done'[u] = done[u] \/ \E b \in Completions : done'[u] = Append(done[u], b)
    BY <1>9, <2>1
  <2>3. \A u \in Students : reached'[u] >= reached[u] BY <1>1, <1>3, <1>4, <1>5 DEF HonorTyped
  <2> QED BY <1>5, <1>10, <2>2, <2>3 DEF Grows
<1>12. \A u \in Students : earned'[u] <= reached'[u]
  BY <1>1, <1>3, <1>4, <1>5 DEF HonorInv, HonorTyped
<1>13. (EvaluationSound(evaluation[w]) /\ DownTheCatalogue(evaluation[w]))'
  BY <1>7 DEF EvaluationSound, DownTheCatalogue
<1> QED BY <1>5, <1>7, <1>11, <1>12, <1>13, StepPreserves

LEMMA TakeBackStep ==
    ASSUME HonorInv, NEW s \in Students, NEW points \in Rewards, TakeBack(s, points)
    PROVE  HonorInv'
<1>1. HonorTyped /\ points \in Nat /\ earned[s] \in Nat /\ earned[s] >= points
  BY HonorAssumption DEF HonorInv, HonorTyped, TakeBack
<1>2. earned' = [earned EXCEPT ![s] = earned[s] - points]
      /\ UNCHANGED <<stamps, done, honors, owned, evaluation, reached, counted>>
  BY DEF TakeBack
<1>3. HonorTyped' BY <1>1, <1>2 DEF HonorTyped
<1>4. Grows BY <1>1, <1>2, <1>3 DEF Grows, HonorTyped
<1>5. \A u \in Students : earned'[u] <= reached'[u]
  BY <1>1, <1>2 DEF HonorInv, HonorTyped
<1> QED BY <1>2, <1>4, <1>5, StepPreserves

\* A step of an evaluation alone.
LEMMA BecomeStep ==
    ASSUME HonorInv, NEW w \in Approvers, NEW e \in {Free} \cup EvaluationRows, Become(w, e),
           e # Free => EvaluationSound(e) /\ DownTheCatalogue(e)
    PROVE  HonorInv'
<1>1. HonorTyped BY DEF HonorInv
<1>2. evaluation' = [evaluation EXCEPT ![w] = e] /\ UNCHANGED <<stamps, done, earned, honors, owned, reached, counted>>
  BY DEF Become
<1>3. HonorTyped' BY <1>1, <1>2 DEF HonorTyped
<1>4. Grows BY <1>1, <1>2, <1>3 DEF Grows, HonorTyped
<1>5. evaluation'[w] = e /\ \A v \in Approvers \ {w} : evaluation'[v] = evaluation[v]
  BY <1>1, <1>2 DEF HonorTyped
<1>6. \A s \in Students : earned'[s] <= reached'[s] BY <1>2 DEF HonorInv
<1>7. e = Free \/ (EvaluationSound(evaluation[w]) /\ DownTheCatalogue(evaluation[w]))'
  BY <1>2, <1>5 DEF EvaluationSound, DownTheCatalogue, Turn, Deserved
<1> QED BY <1>2, <1>4, <1>5, <1>6, <1>7, StepPreserves

LEMMA ReadFactsStep ==
    ASSUME HonorInv, NEW w \in Approvers, evaluation[w] # Free, ReadFacts(w)
    PROVE  HonorInv'
<1> DEFINE e == evaluation[w]
           s == e.student
           r == [e EXCEPT !.step = "find", !.facts = Facts(s), !.todo = Matching(Facts(s))]
<1>1. e \in EvaluationRows /\ EvaluationSound(e) /\ e.step = "facts" /\ Become(w, r)
  BY DEF HonorInv, HonorTyped, ReadFacts
<1>2. s \in Students BY <1>1 DEF EvaluationRows
<1>3. /\ Facts(s) \in FactRows
      /\ Matching(Facts(s)) \subseteq DOMAIN Rules
      /\ \A k \in Matching(Facts(s)) : Deserved(s, k)
      /\ \A k \in DOMAIN Rules :
             Rules[k].fact = "completed" /\ Facts(s).completed >= Rules[k].threshold
             => k \in Matching(Facts(s))
  BY <1>2, FactsAreFacts
<1>4. r \in EvaluationRows BY <1>1, <1>3 DEF EvaluationRows
<1>5. e.rows = {} /\ e.grants = {} BY <1>1 DEF EvaluationSound
<1>6. /\ r.step = "find" /\ r.facts = Facts(s) /\ r.todo = Matching(Facts(s)) /\ r.student = s
      /\ r.rows = {} /\ r.grants = {}
  BY <1>1, <1>5 DEF EvaluationRows
<1>7. r.facts \in FactRows
  BY <1>1, <1>3, <1>6
<1> HIDE DEF r
<1>8. EvaluationSound(r) BY <1>3, <1>6, <1>7 DEF EvaluationSound
<1>9. DownTheCatalogue(r) BY <1>6 DEF DownTheCatalogue
<1> QED BY <1>1, <1>4, <1>8, <1>9, BecomeStep

LEMMA FindRowStep ==
    ASSUME HonorInv, NEW w \in Approvers, evaluation[w] # Free, FindRow(w)
    PROVE  HonorInv'
<1> DEFINE e == evaluation[w]
           step == IF Turn(e) \in honors \cup e.rows THEN "grant" ELSE "insert"
           r == [e EXCEPT !.step = step]
<1>1. e \in EvaluationRows /\ EvaluationSound(e) /\ DownTheCatalogue(e) /\ e.step = "find"
      /\ e.todo # {} /\ Become(w, r)
  BY DEF HonorInv, HonorTyped, FindRow
<1>2. step \in {"grant", "insert"} /\ (step = "grant" => Turn(e) \in honors \cup e.rows) OBVIOUS
<1> HIDE DEF step
<1>3. r \in EvaluationRows /\ r.student = e.student /\ r.step = step /\ r.facts = e.facts
      /\ r.todo = e.todo /\ r.rows = e.rows /\ r.grants = e.grants
  BY <1>1, <1>2 DEF EvaluationRows
<1>4. Turn(r) = Turn(e) BY <1>3 DEF Turn
<1> HIDE DEF r, e
<1>5. EvaluationSound(r) BY <1>1, <1>2, <1>3, <1>4 DEF EvaluationSound
<1>6. DownTheCatalogue(r) BY <1>1, <1>3 DEF DownTheCatalogue
<1> QED BY <1>1, <1>3, <1>5, <1>6, BecomeStep

LEMMA InsertRowStep ==
    ASSUME HonorInv, NEW w \in Approvers, evaluation[w] # Free, InsertRow(w)
    PROVE  HonorInv'
<1> DEFINE e == evaluation[w]
           rows == IF Turn(e) \in honors THEN e.rows ELSE e.rows \cup {Turn(e)}
           r == [e EXCEPT !.step = "grant", !.rows = rows]
<1>1. e \in EvaluationRows /\ EvaluationSound(e) /\ DownTheCatalogue(e) /\ e.step = "insert"
  BY DEF HonorInv, HonorTyped, InsertRow
<1>2. Become(w, r) BY <1>1 DEF InsertRow, Adopted, EvaluationRows
<1>3. Turn(e) \in e.todo /\ \A j \in e.todo : Turn(e) <= j
  BY <1>1, TurnIsFirst DEF EvaluationSound
<1>4. rows \subseteq e.rows \cup {Turn(e)} /\ e.rows \subseteq rows /\ Turn(e) \in honors \cup rows
  OBVIOUS
<1> HIDE DEF rows
<1>5. r \in EvaluationRows /\ r.student = e.student /\ r.step = "grant" /\ r.facts = e.facts
      /\ r.todo = e.todo /\ r.rows = rows /\ r.grants = e.grants
  BY <1>1, <1>3, <1>4 DEF EvaluationRows
<1>6. Turn(r) = Turn(e) BY <1>5 DEF Turn
<1> HIDE DEF r, e
<1>7. EvaluationSound(r)
  BY <1>1, <1>3, <1>4, <1>5, <1>6 DEF EvaluationSound
<1>8. DownTheCatalogue(r)
  BY <1>1, <1>3, <1>4, <1>5 DEF DownTheCatalogue
<1> QED BY <1>2, <1>5, <1>7, <1>8, BecomeStep

LEMMA GrantOnceStep ==
    ASSUME HonorInv, NEW w \in Approvers, evaluation[w] # Free, GrantOnce(w)
    PROVE  HonorInv'
<1> DEFINE e == evaluation[w]
           grants == IF Turn(e) \in owned[e.student] THEN e.grants ELSE e.grants \cup {Turn(e)}
           r == [e EXCEPT !.step = "find", !.todo = @ \ {Turn(e)}, !.grants = grants]
<1>1. e \in EvaluationRows /\ EvaluationSound(e) /\ DownTheCatalogue(e) /\ e.step = "grant"
  BY DEF HonorInv, HonorTyped, GrantOnce
<1>2. Become(w, r) BY <1>1 DEF GrantOnce, EvaluationRows
<1>3. Turn(e) \in e.todo /\ \A j \in e.todo : Turn(e) <= j
  BY <1>1, TurnIsFirst DEF EvaluationSound
<1>4. /\ grants \subseteq e.grants \cup {Turn(e)} /\ e.grants \subseteq grants
      /\ Turn(e) \in grants \cup owned[e.student]
  OBVIOUS
<1> HIDE DEF grants
<1>5. r \in EvaluationRows /\ r.student = e.student /\ r.step = "find" /\ r.facts = e.facts
      /\ r.todo = e.todo \ {Turn(e)} /\ r.rows = e.rows /\ r.grants = grants
  BY <1>1, <1>3, <1>4 DEF EvaluationRows
<1>6. e.todo \subseteq Nat /\ e.rows \subseteq Nat BY <1>1, RulesAreRules DEF EvaluationRows
<1> HIDE DEF r, e
<1>7. EvaluationSound(r)
  BY <1>1, <1>3, <1>4, <1>5 DEF EvaluationSound
<1>8. DownTheCatalogue(r)
  BY <1>1, <1>3, <1>4, <1>5, <1>6 DEF DownTheCatalogue
<1> QED BY <1>2, <1>5, <1>7, <1>8, BecomeStep

LEMMA CommitHonorsStep ==
    ASSUME HonorInv, NEW w \in Approvers, evaluation[w] # Free, CommitHonors(w)
    PROVE  HonorInv'
<1> DEFINE e == evaluation[w]
           s == e.student
           top == Max({counted[s], e.facts.completed})
<1>1. e \in EvaluationRows /\ EvaluationSound(e) /\ e.step = "find" /\ e.todo = {} /\ HonorTyped
  BY DEF HonorInv, HonorTyped, CommitHonors
<1>2. /\ honors' = honors \cup e.rows /\ owned' = [owned EXCEPT ![s] = @ \cup e.grants]
      /\ counted' = [counted EXCEPT ![s] = top]
      /\ evaluation' = [evaluation EXCEPT ![w] = Free]
      /\ UNCHANGED <<stamps, done, earned, reached>>
  BY <1>1 DEF CommitHonors, HonorTyped
<1>3. s \in Students /\ e.grants \subseteq honors \cup e.rows /\ e.rows \subseteq DOMAIN Rules
      /\ e.facts \in FactRows
  BY <1>1 DEF EvaluationRows, EvaluationSound
<1>4. counted[s] \in Nat /\ e.facts.completed \in Nat BY <1>1, <1>3 DEF HonorTyped, FactRows
<1>5. top \in Nat /\ top \in {counted[s], e.facts.completed} BY <1>4, MaxOfTwo
<1> HIDE DEF top, s, e
<1>6. HonorTyped'
  <2>1. owned' \in [Students -> SUBSET honors'] BY <1>1, <1>2, <1>3 DEF HonorTyped
  <2> QED BY <1>1, <1>2, <1>3, <1>5, <2>1 DEF HonorTyped
<1>7. Grows BY <1>1, <1>2, <1>6 DEF Grows, HonorTyped
<1>8. \A u \in Students : earned'[u] <= reached'[u] BY <1>2 DEF HonorInv
<1>9. \A v \in Approvers : evaluation'[v] = evaluation[v] \/ evaluation'[v] = Free
  BY <1>1, <1>2 DEF HonorTyped
<1>10. ASSUME NEW u \in Students, NEW k \in owned'[u] \ Commemorative
       PROVE  k \in owned[u] \/ Deserved(u, k)'
  <2>1. CASE k \in owned[u] BY <2>1
  <2>2. CASE k \notin owned[u]
    <3>1. u = s /\ k \in e.grants BY <1>1, <1>2, <1>3, <2>2 DEF HonorTyped
    <3>2. k \in DOMAIN Rules /\ Deserved(s, k) BY <1>1, <3>1 DEF EvaluationSound, EvaluationRows, s
    <3> QED BY <1>1, <1>3, <1>7, <3>1, <3>2, DeservedGrows
  <2> QED BY <2>1, <2>2
<1>11. ASSUME NEW u \in Students
       PROVE  counted'[u] = counted[u] \/
               \A k \in DOMAIN Rules :
                   Rules[k].fact = "completed" /\ counted'[u] >= Rules[k].threshold => k \in owned'[u]
  <2>1. CASE u = s /\ top = e.facts.completed
    <3>1. counted'[u] = e.facts.completed BY <1>1, <1>2, <1>3, <2>1 DEF HonorTyped
    <3>2. owned'[u] = owned[s] \cup e.grants BY <1>1, <1>2, <1>3, <2>1 DEF HonorTyped
    <3> QED BY <1>1, <3>1, <3>2 DEF EvaluationSound, s
  <2>2. CASE ~(u = s /\ top = e.facts.completed)
    BY <1>1, <1>2, <1>3, <1>5, <2>2 DEF HonorTyped
  <2> QED BY <2>1, <2>2
<1> QED BY <1>7, <1>8, <1>9, <1>10, <1>11, StepPreserves

LEMMA AdminStep ==
    ASSUME HonorInv, AdminNext
    PROVE  HonorInv'
<1>1. HonorTyped BY DEF HonorInv
<1>2. /\ honors \subseteq honors' /\ honors' \subseteq honors \cup Commemorative
      /\ UNCHANGED <<stamps, done, earned, evaluation, reached, counted>>
      /\ \A s \in Students : owned[s] \subseteq owned'[s] /\ owned'[s] \subseteq owned[s] \cup (Commemorative \cap honors')
      /\ owned' = [s \in Students |-> owned'[s]]
  <2>1. ASSUME NEW c \in Commemorative, CreateCommemorative(c) PROVE <1>2!:
    BY <1>1, <2>1 DEF CreateCommemorative, HonorTyped
  <2>2. ASSUME NEW s \in Students, NEW h \in honors \cup Commemorative, GrantCommemorative(s, h)
        PROVE  <1>2!:
    <3>1. h \in honors \cap Commemorative /\ owned' = [owned EXCEPT ![s] = @ \cup {h}]
      BY <2>2 DEF GrantCommemorative, Grantable
    <3>2. UNCHANGED <<stamps, done, earned, honors, evaluation, reached, counted>>
      BY <2>2 DEF GrantCommemorative
    <3>3. owned' = [u \in Students |-> IF u = s THEN owned[u] \cup {h} ELSE owned[u]]
      BY <1>1, <3>1 DEF HonorTyped
    <3>4. \A u \in Students : owned'[u] = IF u = s THEN owned[u] \cup {h} ELSE owned[u]
      BY <3>3
    <3>5. owned' = [u \in Students |-> owned'[u]] BY <3>3
    <3> HIDE DEF GrantCommemorative
    <3> QED BY <3>1, <3>2, <3>4, <3>5
  <2> QED BY <2>1, <2>2 DEF AdminNext
<1>3. owned' \in [Students -> SUBSET honors'] BY <1>1, <1>2 DEF HonorTyped
<1>4. HonorTyped' BY <1>1, <1>2, <1>3 DEF HonorTyped
<1>5. Grows BY <1>1, <1>2, <1>4 DEF Grows, HonorTyped
<1>6. \A u \in Students : earned'[u] <= reached'[u] BY <1>2 DEF HonorInv
<1>7. \A s \in Students : \A k \in owned'[s] \ Commemorative : k \in owned[s] BY <1>2
<1> QED BY <1>2, <1>5, <1>6, <1>7, StepPreserves

LEMMA HonorStep == HonorInv /\ [HonorNext]_honorVars => HonorInv'
<1> SUFFICES ASSUME HonorInv, [HonorNext]_honorVars PROVE HonorInv' OBVIOUS
<1>1. ASSUME NEW w \in Approvers, LoseEvaluation(w) PROVE HonorInv'
  BY <1>1, BecomeStep DEF LoseEvaluation
<1>2. ASSUME NEW w \in Approvers, EvaluationNext(w) PROVE HonorInv'
  BY <1>1, <1>2, ApproveStep, ReadFactsStep, FindRowStep, InsertRowStep, GrantOnceStep, CommitHonorsStep
  DEF EvaluationNext
<1>3. CASE UNCHANGED honorVars
  <2>1. HonorTyped /\ HonorTyped' BY <1>3 DEF HonorInv, HonorTyped, honorVars
  <2>2. Grows BY <1>3, <2>1 DEF Grows, honorVars, HonorTyped
  <2>3. \A s \in Students : earned'[s] <= reached'[s] BY <1>3 DEF HonorInv, honorVars
  <2> QED BY <1>3, <2>2, <2>3, StepPreserves DEF honorVars
<1> QED BY <1>2, <1>3, BeginStep, TakeBackStep, AdminStep DEF HonorNext

-----------------------------------------------------------------------------
(* What it gives *)

\* Two evaluations that waited for each other would be at the same honor, one of
\* them before and one after its insert, or each behind the other's grants.
LEMMA NobodyWaitsInACircle == HonorInv => NoWaitCycle
<1> SUFFICES ASSUME HonorInv, NEW w \in Approvers, NEW v \in Approvers,
                    RowHeldBy(w, v) \/ GrantHeldBy(w, v), RowHeldBy(v, w) \/ GrantHeldBy(v, w)
             PROVE  FALSE
  BY DEF NoWaitCycle
<1> DEFINE a == evaluation[w]
           b == evaluation[v]
<1>1. /\ a \in EvaluationRows /\ EvaluationSound(a) /\ DownTheCatalogue(a)
      /\ b \in EvaluationRows /\ EvaluationSound(b) /\ DownTheCatalogue(b)
      /\ a.step \in {"insert", "grant"} /\ b.step \in {"insert", "grant"}
  BY DEF HonorInv, HonorTyped, RowHeldBy, GrantHeldBy
<1>2. Turn(a) \in a.todo /\ Turn(b) \in b.todo BY <1>1, TurnIsFirst DEF EvaluationSound
<1>3. Turn(a) \in Nat /\ Turn(b) \in Nat BY <1>1, <1>2, RulesAreRules DEF EvaluationRows
<1>4. \/ a.step = "insert" /\ Turn(a) \in b.rows
      \/ a.step = "grant" /\ Turn(a) \in b.grants
  BY DEF RowHeldBy, GrantHeldBy
<1>5. \/ b.step = "insert" /\ Turn(b) \in a.rows
      \/ b.step = "grant" /\ Turn(b) \in a.grants
  BY DEF RowHeldBy, GrantHeldBy
<1>6. /\ Turn(a) \in b.rows => Turn(a) <= Turn(b) /\ (b.step # "grant" => Turn(a) < Turn(b))
      /\ Turn(a) \in b.grants => Turn(a) < Turn(b)
      /\ Turn(b) \in a.rows => Turn(b) <= Turn(a) /\ (a.step # "grant" => Turn(b) < Turn(a))
      /\ Turn(b) \in a.grants => Turn(b) < Turn(a)
  BY <1>1, <1>2 DEF DownTheCatalogue
<1> HIDE DEF a, b
<1> QED BY <1>3, <1>4, <1>5, <1>6

\* Overlapping, lost and repeated evaluations grant only what was reached, miss
\* nothing that a finished one has counted, and never wait for each other: for
\* any catalogue, any number of students and of reviews
\* (rankings/honor_service.py evaluate_honors, _ensure_definition_row, _grant_once).
THEOREM HonorsAlwaysSound == HonorSpec => []HonorsSound
<1>1. HonorInv => HonorsSound
  <2>1. HonorInv => HonorTypeOK
    BY DEF HonorInv, HonorTyped, HonorTypeOK, EvaluationRows, EvaluationSound
  <2> QED BY <2>1, NobodyWaitsInACircle DEF HonorInv, HonorsSound
<1> QED BY <1>1, HonorStarts, HonorStep, PTL DEF HonorSpec

-----------------------------------------------------------------------------
(* The boards.  What the ledger says is written of any ledger l and any    *)
(* boards B, so that it can be said before and after a step.               *)

EntryRows == [user : Earners, day : Days, amount : Int]
Keys == {AllTime} \cup {Daily(day) : day \in Days} \cup {Monthly(day) : day \in Days}

SumIn(l, user, board, n) ==
    Total([i \in {j \in 1..n : l[j].user = user /\ InBoard(l[j], board)} |-> l[i].amount])
SomeSum(l, x, user, board) == \E n \in 1..Len(l) : x = SumIn(l, user, board, n)

\* Entry i counts for the user on the board.
Touches(l, i, user, board) == l[i].user = user /\ InBoard(l[i], board)
Due(l, J, user, board) == \E i \in J : Touches(l, i, user, board)
On(B, board) == IF board \in DOMAIN B THEN B[board] ELSE NoScores

\* The scores say of the user what the ledger says.
Right(l, scores, user, board) ==
    /\ user \in DOMAIN scores <=> \E i \in DOMAIN l : Touches(l, i, user, board)
    /\ user \in DOMAIN scores => scores[user] = SumIn(l, user, board, Len(l))

\* The scores are right but for users with a job on its way.
RightOrDue(l, J, scores, board) ==
    \A user \in Earners : Due(l, J, user, board) \/ Right(l, scores, user, board)

ScoresSound(l, scores, board) ==
    /\ scores = [user \in DOMAIN scores |-> scores[user]]
    /\ DOMAIN scores \subseteq Earners /\ IsFiniteSet(DOMAIN scores)
    /\ \A user \in DOMAIN scores : SomeSum(l, scores[user], user, board)

WorkFields == {"job", "user", "written", "read"}
RebuildFields == {"at", "targets", "todo", "board", "scores", "stale", "quiet"}

\* A worker has read, for its user, sums of the boards its entry counts for.
KeysOf(l, x) == Affected(l[x.job].day)
WorkSound(l, x) ==
    /\ x = [f \in WorkFields |-> x[f]]
    /\ x.job \in DOMAIN l /\ x.user = l[x.job].user /\ x.written \in 0..2
    /\ \A k \in 1..3 : SomeSum(l, x.read[k], x.user, KeysOf(l, x)[k])

RebuildShaped(l, x) ==
    /\ x = [f \in RebuildFields |-> x[f]]
    /\ x.at \in {"READ", "WRITE", "DELETE"} /\ x.quiet \in BOOLEAN
    /\ x.targets \subseteq Keys /\ x.todo \subseteq x.targets
    /\ x.at = "WRITE" => x.board \in x.targets /\ ScoresSound(l, x.scores, x.board)
    /\ x.at = "DELETE" => x.todo = {} /\ x.stale \cap x.targets = {}

BoardsSoundIn(l, B) ==
    /\ B = [board \in DOMAIN B |-> B[board]] /\ DOMAIN B \subseteq Keys
    /\ \A board \in DOMAIN B : DOMAIN B[board] # {} /\ ScoresSound(l, B[board], board)

BoardsTyped ==
    /\ entries \in Seq(EntryRows) /\ jobs \subseteq DOMAIN entries
    /\ BoardsSoundIn(entries, boards)
    /\ projector = [w \in Projectors |-> projector[w]]
    /\ \A w \in Projectors : projector[w] # Idle => WorkSound(entries, projector[w])
    /\ rebuild # Idle => RebuildShaped(entries, rebuild)
    /\ disturbed \in BOOLEAN /\ faults \in 0..MaxFaults

\* What a rebuild that nothing overlaps has done so far stands.
RebuildSound(l, J, B, x) ==
    /\ \A i \in DOMAIN l \ J : \A board \in Keys : InBoard(l[i], board) => board \in x.targets
    /\ \A board \in x.targets \ x.todo : RightOrDue(l, J, On(B, board), board)
    /\ x.at = "WRITE" => RightOrDue(l, J, x.scores, x.board)
    /\ x.at = "DELETE" => DOMAIN B \ x.targets \subseteq x.stale

QuietRebuild ==
    /\ \A w \in Projectors : projector[w] = Idle
    /\ RebuildSound(entries, jobs, boards, rebuild)

\* A job that runs alone has written what it has read, and what it has read is right
\* or due again.
JobSound(l, J, B, x) ==
    /\ x.job \in J
    /\ \A k \in 1..x.written :
          /\ x.user \in DOMAIN On(B, KeysOf(l, x)[k])
          /\ On(B, KeysOf(l, x)[k])[x.user] = x.read[k]
    /\ \A k \in 1..3 : \/ x.read[k] = SumIn(l, x.user, KeysOf(l, x)[k], Len(l))
                       \/ Due(l, J \ {x.job}, x.user, KeysOf(l, x)[k])

NothingOverlaps ==
    /\ rebuild # Idle => rebuild.quiet
    /\ \A w \in Projectors : projector[w] # Idle => JobSound(entries, jobs, boards, projector[w])
    /\ \A w, v \in Projectors :
          projector[w] # Idle /\ projector[v] # Idle /\ projector[w].user = projector[v].user => w = v
    /\ \A board \in Keys : RightOrDue(entries, jobs, On(boards, board), board)

BoardsInv ==
    /\ BoardsTyped
    /\ rebuild # Idle /\ rebuild.quiet => QuietRebuild
    /\ ~disturbed => NothingOverlaps

LEMMA KeysDiffer ==
  /\ \A d, e : AllTime # Daily(d) /\ AllTime # Monthly(d) /\ Daily(d) # Monthly(e)
  /\ \A d, e : Daily(d) = Daily(e) => d = e
BY DEF AllTime, Daily, Monthly

\* The three boards of an entry.
LEMMA ThreeBoards ==
  ASSUME NEW e
  PROVE  /\ Affected(e.day)[1] = Daily(e.day) /\ Affected(e.day)[2] = Monthly(e.day)
         /\ Affected(e.day)[3] = AllTime /\ DOMAIN Affected(e.day) = 1..3 /\ Len(Affected(e.day)) = 3
         /\ \A b : InBoard(e, b) <=> \E k \in 1..3 : b = Affected(e.day)[k]
         /\ \A j, k \in 1..3 : Affected(e.day)[j] = Affected(e.day)[k] => j = k
         /\ e.day \in Days => \A k \in 1..3 : Affected(e.day)[k] \in Keys
<1>1. /\ Affected(e.day)[1] = Daily(e.day) /\ Affected(e.day)[2] = Monthly(e.day)
      /\ Affected(e.day)[3] = AllTime /\ DOMAIN Affected(e.day) = 1..3 /\ Len(Affected(e.day)) = 3
  BY DEF Affected
<1>2. \A k \in 1..3 : k = 1 \/ k = 2 \/ k = 3 OBVIOUS
<1>3. \A b : InBoard(e, b) <=> \E k \in 1..3 : b = Affected(e.day)[k] BY <1>1, <1>2 DEF InBoard
<1>4. \A j, k \in 1..3 : Affected(e.day)[j] = Affected(e.day)[k] => j = k BY <1>1, <1>2, KeysDiffer
<1>5. e.day \in Days => \A k \in 1..3 : Affected(e.day)[k] \in Keys BY <1>1, <1>2 DEF Keys
<1> QED BY <1>1, <1>3, <1>4, <1>5

Appends(l, m, e) == l \in Seq(EntryRows) /\ e \in EntryRows /\ m = Append(l, e)

\* A new entry changes what the ledger says only of its user on its boards.
LEMMA LedgerGrew ==
  ASSUME NEW l, NEW m, NEW e, Appends(l, m, e)
  PROVE  /\ DOMAIN m = 1..Len(l) + 1 /\ DOMAIN l = 1..Len(l)
         /\ Len(m) = Len(l) + 1 /\ Len(l) \in Nat
         /\ m \in Seq(EntryRows)
         /\ \A i \in DOMAIN l : m[i] = l[i] /\ i \in DOMAIN m
         /\ m[Len(l) + 1] = e
         /\ \A x, u, b : SomeSum(l, x, u, b) => SomeSum(m, x, u, b)
         /\ \A i \in DOMAIN l : \A u, b : Touches(m, i, u, b) <=> Touches(l, i, u, b)
         /\ \A u, b : (e.user = u /\ InBoard(e, b)) \/ SumIn(m, u, b, Len(m)) = SumIn(l, u, b, Len(l))
<1>1. /\ DOMAIN m = 1..Len(l) + 1 /\ DOMAIN l = 1..Len(l)
      /\ Len(m) = Len(l) + 1 /\ Len(l) \in Nat
      /\ m \in Seq(EntryRows)
      /\ \A i \in DOMAIN l : m[i] = l[i] /\ i \in DOMAIN m
      /\ m[Len(l) + 1] = e
  BY DEF Appends
<1>2. ASSUME NEW n \in 1..Len(l), NEW u, NEW b PROVE SumIn(m, u, b, n) = SumIn(l, u, b, n)
  <2>1. {j \in 1..n : m[j].user = u /\ InBoard(m[j], b)} = {j \in 1..n : l[j].user = u /\ InBoard(l[j], b)}
    BY <1>1
  <2>2. [i \in {j \in 1..n : m[j].user = u /\ InBoard(m[j], b)} |-> m[i].amount]
        = [i \in {j \in 1..n : l[j].user = u /\ InBoard(l[j], b)} |-> l[i].amount]
    BY <1>1, <2>1
  <2> QED BY <2>2 DEF SumIn
<1>3. \A x, u, b : SomeSum(l, x, u, b) => SomeSum(m, x, u, b) BY <1>1, <1>2 DEF SomeSum
<1>4. \A i \in DOMAIN l : \A u, b : Touches(m, i, u, b) <=> Touches(l, i, u, b) BY <1>1 DEF Touches
<1>5. ASSUME NEW u, NEW b, ~(e.user = u /\ InBoard(e, b))
      PROVE  SumIn(m, u, b, Len(m)) = SumIn(l, u, b, Len(l))
  <2> DEFINE S == {j \in 1..Len(l) : l[j].user = u /\ InBoard(l[j], b)}
             T == {j \in 1..Len(l) + 1 : m[j].user = u /\ InBoard(m[j], b)}
  <2>1. T = S BY <1>1, <1>5
  <2>2. S \subseteq DOMAIN l BY <1>1
  <2>3. [i \in T |-> m[i].amount] = [i \in S |-> l[i].amount] BY <1>1, <2>1, <2>2
  <2> QED BY <1>1, <2>3 DEF SumIn
<1> QED BY <1>1, <1>3, <1>4, <1>5

LEMMA SoundGrows ==
  ASSUME NEW l, NEW m, NEW e, Appends(l, m, e)
  PROVE  /\ \A s, b : ScoresSound(l, s, b) => ScoresSound(m, s, b)
         /\ \A x : WorkSound(l, x) => WorkSound(m, x) /\ KeysOf(m, x) = KeysOf(l, x)
         /\ \A x : RebuildShaped(l, x) => RebuildShaped(m, x)
         /\ \A B : BoardsSoundIn(l, B) => BoardsSoundIn(m, B)
<1>1. /\ \A x, u, b : SomeSum(l, x, u, b) => SomeSum(m, x, u, b)
      /\ \A i \in DOMAIN l : m[i] = l[i] /\ i \in DOMAIN m
  BY LedgerGrew
<1>2. \A s, b : ScoresSound(l, s, b) => ScoresSound(m, s, b) BY <1>1 DEF ScoresSound
<1>3. ASSUME NEW x, WorkSound(l, x) PROVE WorkSound(m, x) /\ KeysOf(m, x) = KeysOf(l, x)
  <2>1. KeysOf(m, x) = KeysOf(l, x) BY <1>1, <1>3 DEF WorkSound, KeysOf
  <2> QED BY <1>1, <1>3, <2>1 DEF WorkSound
<1>4. \A x : RebuildShaped(l, x) => RebuildShaped(m, x) BY <1>2 DEF RebuildShaped
<1>5. \A B : BoardsSoundIn(l, B) => BoardsSoundIn(m, B) BY <1>2 DEF BoardsSoundIn
<1> QED BY <1>2, <1>3, <1>4, <1>5

\* With a job for the new entry, what was right or due stays so.
LEMMA DueGrows ==
  ASSUME NEW l, NEW m, NEW e, Appends(l, m, e),
         NEW J \in SUBSET DOMAIN l, NEW K, K = J \cup {Len(l) + 1}
  PROVE  /\ \A u, b : Due(l, J, u, b) => Due(m, K, u, b)
         /\ \A s, b : RightOrDue(l, J, s, b) => RightOrDue(m, K, s, b)
<1>0. /\ Len(l) \in Nat /\ DOMAIN l = 1..Len(l) /\ DOMAIN m = 1..Len(l) + 1
      /\ m[Len(l) + 1] = e /\ Len(m) = Len(l) + 1
      /\ \A i \in DOMAIN l : \A u, b : Touches(m, i, u, b) <=> Touches(l, i, u, b)
      /\ \A u, b : (e.user = u /\ InBoard(e, b)) \/ SumIn(m, u, b, Len(m)) = SumIn(l, u, b, Len(l))
  BY LedgerGrew
<1>1. \A u, b : Due(l, J, u, b) => Due(m, K, u, b) BY <1>0 DEF Due
<1>2. ASSUME NEW u, NEW b, e.user = u /\ InBoard(e, b) PROVE Due(m, K, u, b)
  <2>1. Touches(m, Len(l) + 1, u, b) BY <1>0, <1>2 DEF Touches
  <2> QED BY <2>1 DEF Due
<1>3. ASSUME NEW s, NEW u, NEW b, ~(e.user = u /\ InBoard(e, b)), Right(l, s, u, b)
      PROVE  Right(m, s, u, b)
  <2>1. ~Touches(m, Len(l) + 1, u, b) BY <1>0, <1>3 DEF Touches
  <2>2. (\E i \in DOMAIN m : Touches(m, i, u, b)) <=> (\E i \in DOMAIN l : Touches(l, i, u, b))
    BY <1>0, <2>1
  <2>3. SumIn(m, u, b, Len(m)) = SumIn(l, u, b, Len(l)) BY <1>0, <1>3
  <2> QED BY <1>3, <2>2, <2>3 DEF Right
<1> QED BY <1>1, <1>2, <1>3 DEF RightOrDue

LEMMA QuietLost ==
  ASSUME NEW l, NEW x, RebuildShaped(l, x), NEW y, y = [x EXCEPT !.quiet = FALSE]
  PROVE  RebuildShaped(l, y) /\ y.quiet = FALSE
<1>1. /\ y = [f \in RebuildFields |-> y[f]] /\ y.quiet = FALSE
      /\ y.at = x.at /\ y.targets = x.targets /\ y.todo = x.todo /\ y.board = x.board
      /\ y.scores = x.scores /\ y.stale = x.stale
  BY DEF RebuildShaped, RebuildFields
<1> QED BY <1>1 DEF RebuildShaped

\* After a disturbance no rebuild is taken for quiet.
LEMMA DisturbedStep ==
  ASSUME BoardsInv, Disturb
  PROVE  disturbed' = TRUE /\ (rebuild' # Idle => RebuildShaped(entries, rebuild') /\ rebuild'.quiet = FALSE)
<1>1. CASE rebuild = Idle BY <1>1 DEF Disturb
<1>2. CASE rebuild # Idle
  <2>1. RebuildShaped(entries, rebuild) BY <1>2 DEF BoardsInv, BoardsTyped
  <2>2. rebuild' = [rebuild EXCEPT !.quiet = FALSE] /\ disturbed' = TRUE BY <1>2 DEF Disturb
  <2> QED BY <2>1, <2>2, QuietLost
<1> QED BY <1>1, <1>2

LEMMA FaultStep == ASSUME BoardsInv, Fault PROVE faults' \in 0..MaxFaults
BY RankingAssumption DEF BoardsInv, BoardsTyped, Fault

\* What a step that only adds an entry leaves of a job and of a rebuild.
LEMMA RebuildGrows ==
  ASSUME NEW l, NEW m, NEW e, Appends(l, m, e),
         NEW J \in SUBSET DOMAIN l, NEW K, K = J \cup {Len(l) + 1},
         NEW B, NEW x, RebuildSound(l, J, B, x)
  PROVE  RebuildSound(m, K, B, x)
<1>1. \A i \in DOMAIN m \ K : i \in DOMAIN l \ J /\ m[i] = l[i]
  <2>1. /\ Len(l) \in Nat /\ DOMAIN l = 1..Len(l) /\ DOMAIN m = 1..Len(l) + 1
        /\ \A i \in DOMAIN l : m[i] = l[i]
    BY LedgerGrew
  <2> QED BY <2>1
<1>2. \A s, b : RightOrDue(l, J, s, b) => RightOrDue(m, K, s, b) BY DueGrows
<1> QED BY <1>1, <1>2 DEF RebuildSound

LEMMA JobGrows ==
  ASSUME NEW l, NEW m, NEW e, Appends(l, m, e),
         NEW J \in SUBSET DOMAIN l, NEW K, K = J \cup {Len(l) + 1},
         NEW B, NEW x, WorkSound(l, x), JobSound(l, J, B, x)
  PROVE  JobSound(m, K, B, x)
<1>1. KeysOf(m, x) = KeysOf(l, x) BY SoundGrows
<1>2. /\ Len(l) \in Nat /\ DOMAIN l = 1..Len(l)
      /\ \A i \in DOMAIN l : \A u, b : Touches(m, i, u, b) <=> Touches(l, i, u, b)
      /\ \A u, b : (e.user = u /\ InBoard(e, b)) \/ SumIn(m, u, b, Len(m)) = SumIn(l, u, b, Len(l))
      /\ m[Len(l) + 1] = e
  BY LedgerGrew
<1>3. x.job # Len(l) + 1 BY <1>2 DEF WorkSound
<1>4. ASSUME NEW u, NEW b, Due(l, J \ {x.job}, u, b) PROVE Due(m, K \ {x.job}, u, b)
  BY <1>2, <1>4 DEF Due
<1>5. ASSUME NEW u, NEW b, e.user = u /\ InBoard(e, b) PROVE Due(m, K \ {x.job}, u, b)
  <2>1. Touches(m, Len(l) + 1, u, b) /\ Len(l) + 1 \in K \ {x.job} BY <1>2, <1>3, <1>5 DEF Touches
  <2> QED BY <2>1 DEF Due
<1>6. ASSUME NEW k \in 1..3
      PROVE  \/ x.read[k] = SumIn(m, x.user, KeysOf(m, x)[k], Len(m))
             \/ Due(m, K \ {x.job}, x.user, KeysOf(m, x)[k])
  BY <1>1, <1>2, <1>4, <1>5 DEF JobSound
<1> QED BY <1>1, <1>6 DEF JobSound

LEMMA QueuedKeeps ==
  ASSUME BoardsInv, NEW e \in EntryRows, Queued(e)
  PROVE  BoardsInv'
<1>1. /\ BoardsTyped /\ jobs \subseteq DOMAIN entries /\ Appends(entries, entries', e)
      /\ UNCHANGED <<boards, projector>>
  BY DEF BoardsInv, BoardsTyped, Queued, Appends
<1>2. /\ DOMAIN entries' = 1..Len(entries) + 1 /\ DOMAIN entries = 1..Len(entries) /\ Len(entries) \in Nat
      /\ entries' \in Seq(EntryRows)
  BY <1>1, LedgerGrew
<1>3. jobs' \in {jobs, jobs \cup {Len(entries) + 1}} BY DEF Queued
<1>4. /\ rebuild' # Idle => RebuildShaped(entries, rebuild')
      /\ disturbed' \in BOOLEAN /\ faults' \in 0..MaxFaults
  <2>1. CASE UNCHANGED <<rebuild, disturbed, faults>> BY <1>1, <2>1 DEF BoardsTyped
  <2>2. CASE Fault /\ Disturb BY <2>2, DisturbedStep, FaultStep
  <2> QED BY <2>1, <2>2 DEF Queued
<1>5. BoardsTyped'
  <2>1. jobs' \subseteq DOMAIN entries' BY <1>1, <1>2, <1>3
  <2>2. BoardsSoundIn(entries', boards') BY <1>1, SoundGrows DEF BoardsTyped
  <2>3. \A w \in Projectors : projector'[w] # Idle => WorkSound(entries', projector'[w])
    BY <1>1, SoundGrows DEF BoardsTyped
  <2>4. rebuild' # Idle => RebuildShaped(entries', rebuild') BY <1>1, <1>4, SoundGrows
  <2>5. projector' = [w \in Projectors |-> projector'[w]] BY <1>1 DEF BoardsTyped
  <2> QED BY <1>2, <1>4, <2>1, <2>2, <2>3, <2>4, <2>5 DEF BoardsTyped
<1>6. CASE Fault /\ Disturb BY <1>5, <1>6, DisturbedStep DEF BoardsInv
<1>7. CASE jobs' = jobs \cup {Len(entries) + 1} /\ UNCHANGED <<rebuild, disturbed, faults>>
  <2>1. ASSUME rebuild # Idle, rebuild.quiet PROVE QuietRebuild'
    <3>1. QuietRebuild BY <2>1 DEF BoardsInv
    <3>2. RebuildSound(entries', jobs', boards', rebuild')
      BY <1>1, <1>7, <3>1, RebuildGrows DEF QuietRebuild
    <3> QED BY <1>1, <3>1, <3>2 DEF QuietRebuild
  <2>2. ASSUME ~disturbed PROVE NothingOverlaps'
    <3>1. NothingOverlaps BY <2>2 DEF BoardsInv
    <3>2. ASSUME NEW w \in Projectors, projector[w] # Idle PROVE JobSound(entries', jobs', boards', projector'[w])
      BY <1>1, <1>7, <3>1, <3>2, JobGrows DEF NothingOverlaps, BoardsTyped
    <3>3. \A board \in Keys : RightOrDue(entries', jobs', On(boards', board), board)
      BY <1>1, <1>7, <3>1, DueGrows DEF NothingOverlaps
    <3> QED BY <1>1, <1>7, <3>1, <3>2, <3>3 DEF NothingOverlaps
  <2> QED BY <1>5, <1>7, <2>1, <2>2 DEF BoardsInv
<1> QED BY <1>6, <1>7 DEF Queued

-----------------------------------------------------------------------------
LEMMA BoardsStart == ASSUME RankingInit PROVE BoardsInv
<1>1. /\ entries = <<>> /\ DOMAIN boards = {} /\ boards = [board \in DOMAIN boards |-> boards[board]]
      /\ jobs = {} /\ projector = [w \in Projectors |-> projector[w]]
      /\ \A w \in Projectors : projector[w] = Idle
      /\ rebuild = Idle /\ disturbed = FALSE /\ faults = 0
  BY DEF RankingInit
<1>2. entries \in Seq(EntryRows) /\ DOMAIN entries = {} BY <1>1
<1>3. BoardsTyped
  <2>1. BoardsSoundIn(entries, boards) BY <1>1 DEF BoardsSoundIn
  <2>2. jobs \subseteq DOMAIN entries /\ disturbed \in BOOLEAN BY <1>1
  <2>3. faults \in 0..MaxFaults
    <3>1. faults = 0 BY <1>1
    <3> QED BY <3>1, RankingAssumption
  <2> QED BY <1>1, <1>2, <2>1, <2>2, <2>3 DEF BoardsTyped
<1>4. DOMAIN NoScores = {} BY DEF NoScores
<1>5. \A board : RightOrDue(entries, jobs, On(boards, board), board)
  BY <1>1, <1>2, <1>4 DEF RightOrDue, Right, On
<1> QED BY <1>1, <1>3, <1>5 DEF BoardsInv, NothingOverlaps

LEMMA ScoresAreSums ==
  /\ \A user, board, n : ScoreAt(user, board, n) = SumIn(entries, user, board, n)
  /\ \A user, board : Score(user, board) = SumIn(entries, user, board, Len(entries))
BY DEF ScoreAt, Score, SumIn

AFunction(f) == f = [x \in DOMAIN f |-> f[x]]
Writes(B, C, key, user, val) == C = With(B, key, With(On(B, key), user, val))

\* What a board or a key is worth after a score is written.
LEMMA Wrote ==
  ASSUME NEW B, NEW key, NEW user, NEW val, NEW C, Writes(B, C, key, user, val)
  PROVE  /\ (\A b : b \in DOMAIN C <=> b \in DOMAIN B \/ b = key) /\ AFunction(C)
         /\ \A b : b # key => On(C, b) = On(B, b)
         /\ \A b : b \in DOMAIN C => C[b] = On(C, b)
         /\ On(C, key) = With(On(B, key), user, val)
         /\ user \in DOMAIN On(C, key) /\ On(C, key)[user] = val
         /\ \A b, u : u # user =>
               /\ u \in DOMAIN On(C, b) <=> u \in DOMAIN On(B, b)
               /\ u \in DOMAIN On(B, b) => On(C, b)[u] = On(B, b)[u]
<1>1. (\A b : b \in DOMAIN C <=> b \in DOMAIN B \/ b = key) /\ AFunction(C) BY DEF With, Writes, AFunction
<1>2. ASSUME NEW b, b # key PROVE On(C, b) = On(B, b) BY <1>1, <1>2 DEF With, Writes, On
<1>3. \A b : b \in DOMAIN C => C[b] = On(C, b) BY DEF On
<1>4. On(C, key) = With(On(B, key), user, val)
  <2>1. C[key] = With(On(B, key), user, val) BY DEF With, Writes
  <2> QED BY <1>1, <2>1 DEF On
<1> DEFINE s == On(B, key)
           t == On(C, key)
<1>5. /\ DOMAIN t = DOMAIN s \cup {user} /\ t[user] = val
      /\ \A u \in DOMAIN s : u # user => t[u] = s[u]
  <2>1. t = With(s, user, val) BY <1>4
  <2> HIDE DEF s, t
  <2> QED BY <2>1 DEF With
<1>6. ASSUME NEW b, NEW u, u # user
      PROVE  /\ u \in DOMAIN On(C, b) <=> u \in DOMAIN On(B, b)
             /\ u \in DOMAIN On(B, b) => On(C, b)[u] = On(B, b)[u]
  <2>1. CASE b = key BY <1>5, <1>6, <2>1
  <2>2. CASE b # key BY <1>2, <2>2
  <2> QED BY <2>1, <2>2
<1> QED BY <1>1, <1>2, <1>3, <1>4, <1>5, <1>6

LEMMA SoundOn ==
  ASSUME NEW l, NEW B, BoardsSoundIn(l, B), NEW b
  PROVE  ScoresSound(l, On(B, b), b)
<1>1. CASE b \in DOMAIN B BY <1>1 DEF BoardsSoundIn, On
<1>2. CASE b \notin DOMAIN B
  <2>1. On(B, b) = NoScores BY <1>2 DEF On
  <2>2. DOMAIN NoScores = {} /\ NoScores = [user \in DOMAIN NoScores |-> NoScores[user]] BY DEF NoScores
  <2> QED BY <2>1, <2>2, FS_EmptySet DEF ScoresSound
<1> QED BY <1>1, <1>2

LEMMA WroteSound ==
  ASSUME NEW l, NEW B, BoardsSoundIn(l, B), NEW key \in Keys, NEW user \in Earners, NEW val,
         SomeSum(l, val, user, key), NEW C, Writes(B, C, key, user, val)
  PROVE  BoardsSoundIn(l, C)
<1>1. /\ (\A b : b \in DOMAIN C <=> b \in DOMAIN B \/ b = key) /\ AFunction(C)
      /\ \A b : b # key => On(C, b) = On(B, b)
      /\ \A b : b \in DOMAIN C => C[b] = On(C, b)
      /\ On(C, key) = With(On(B, key), user, val)
      /\ user \in DOMAIN On(C, key)
  BY Wrote
<1>2. ScoresSound(l, On(C, key), key)
  <2> DEFINE s == On(B, key)
  <2>1. ScoresSound(l, s, key) BY SoundOn
  <2>2. On(C, key) = With(s, user, val) BY <1>1
  <2> HIDE DEF s
  <2> DEFINE t == With(s, user, val)
  <2>3. /\ DOMAIN t = DOMAIN s \cup {user} /\ t = [u \in DOMAIN t |-> t[u]]
        /\ \A u \in DOMAIN t : t[u] = IF u = user THEN val ELSE s[u]
    BY DEF With
  <2>4. IsFiniteSet(DOMAIN t) BY <2>1, <2>3, FS_AddElement DEF ScoresSound
  <2> HIDE DEF t
  <2>5. ScoresSound(l, t, key) BY <2>1, <2>3, <2>4 DEF ScoresSound
  <2> QED BY <2>2, <2>5 DEF t
<1>3. ASSUME NEW b \in DOMAIN C PROVE DOMAIN C[b] # {} /\ ScoresSound(l, C[b], b)
  <2>1. CASE b = key BY <1>1, <1>2, <2>1
  <2>2. CASE b # key
    <3>1. C[b] = B[b] /\ b \in DOMAIN B BY <1>1, <2>2 DEF On
    <3> QED BY <3>1 DEF BoardsSoundIn
  <2> QED BY <2>1, <2>2
<1> QED BY <1>1, <1>3 DEF BoardsSoundIn, AFunction

LEMMA DeliverKeeps ==
  ASSUME BoardsInv, NEW w \in Projectors, NEW i \in jobs, Deliver(w, i)
  PROVE  BoardsInv'
<1> DEFINE e == entries[i]
           x == projector'[w]
<1>1. /\ BoardsTyped /\ i \in DOMAIN entries /\ entries \in Seq(EntryRows)
      /\ projector = [v \in Projectors |-> projector[v]] /\ projector[w] = Idle
      /\ UNCHANGED <<entries, boards, jobs, faults>>
  BY DEF BoardsInv, BoardsTyped, Deliver
<1>2. e \in EntryRows /\ Len(entries) \in 1..Len(entries) BY <1>1
<1>3. /\ projector' = [v \in Projectors |-> projector'[v]]
      /\ \A v \in Projectors : v # w => projector'[v] = projector[v]
      /\ x = [job |-> i, user |-> e.user, written |-> 0,
              read |-> [k \in DOMAIN Affected(e.day) |-> Score(e.user, Affected(e.day)[k])]]
  BY <1>1 DEF Deliver
<1>4. /\ x = [f \in WorkFields |-> x[f]] /\ x.job = i /\ x.user = e.user /\ x.written = 0
      /\ KeysOf(entries, x) = Affected(e.day)
      /\ \A k \in 1..3 : x.read[k] = SumIn(entries, e.user, Affected(e.day)[k], Len(entries))
  <2>1. DOMAIN Affected(e.day) = 1..3 BY ThreeBoards
  <2>2. x = [f \in WorkFields |-> x[f]] BY <1>3 DEF WorkFields
  <2> QED BY <1>3, <2>1, <2>2, ScoresAreSums DEF KeysOf
<1> HIDE DEF x
<1>5. WorkSound(entries, x) BY <1>1, <1>2, <1>4 DEF WorkSound, SomeSum
<1>6. /\ rebuild' # Idle => RebuildShaped(entries, rebuild')
      /\ disturbed' \in BOOLEAN
  BY <1>1, DisturbedStep DEF Deliver, BoardsTyped
<1>7. BoardsTyped'
  <2>1. \A v \in Projectors : projector'[v] # Idle => WorkSound(entries, projector'[v])
    BY <1>1, <1>3, <1>5 DEF BoardsTyped, x
  <2> QED BY <1>1, <1>3, <1>6, <2>1 DEF BoardsTyped
<1>8. CASE Disturb BY <1>7, <1>8, DisturbedStep DEF BoardsInv
<1>9. CASE ~Busy(e.user) /\ rebuild = Idle /\ UNCHANGED <<rebuild, disturbed>>
  <2>1. ASSUME ~disturbed PROVE NothingOverlaps'
    <3>1. NothingOverlaps BY <2>1 DEF BoardsInv
    <3>2. JobSound(entries, jobs, boards, x) BY <1>4 DEF JobSound
    <3>3. \A v \in Projectors : projector'[v] # Idle => JobSound(entries', jobs', boards', projector'[v])
      BY <1>1, <1>3, <3>1, <3>2 DEF NothingOverlaps, x
    <3>4. \A v \in Projectors : v # w /\ projector'[v] # Idle => projector'[v].user # x.user
      BY <1>3, <1>4, <1>9 DEF Busy
    <3>5. \A u, v \in Projectors :
             projector'[u] # Idle /\ projector'[v] # Idle /\ projector'[u].user = projector'[v].user => u = v
      BY <1>3, <3>1, <3>4 DEF NothingOverlaps, x
    <3> QED BY <1>1, <1>9, <3>1, <3>3, <3>5 DEF NothingOverlaps
  <2> QED BY <1>7, <1>9, <2>1 DEF BoardsInv
<1> QED BY <1>8, <1>9 DEF Deliver

\* A score that is written changes no other score.
LEMMA WroteElsewhere ==
  ASSUME NEW l, NEW B, NEW C, NEW key, NEW user, NEW val, Writes(B, C, key, user, val),
         NEW b, NEW u, b # key \/ u # user, Right(l, On(B, b), u, b)
  PROVE  Right(l, On(C, b), u, b)
<1>1. CASE b # key
  <2>1. On(C, b) = On(B, b) BY <1>1, Wrote
  <2> QED BY <2>1
<1>2. CASE u # user
  <2>1. /\ u \in DOMAIN On(C, b) <=> u \in DOMAIN On(B, b)
        /\ u \in DOMAIN On(B, b) => On(C, b)[u] = On(B, b)[u]
    BY <1>2, Wrote
  <2> QED BY <2>1 DEF Right
<1> QED BY <1>1, <1>2

\* A job that goes on after a score is written has written one board more.
LEMMA JobWrites ==
  ASSUME NEW l \in Seq(EntryRows), NEW J, NEW B, NEW x, WorkSound(l, x), JobSound(l, J, B, x), x.written < 2,
         NEW C, Writes(B, C, KeysOf(l, x)[x.written + 1], x.user, x.read[x.written + 1]),
         NEW y, y = [x EXCEPT !.written = @ + 1]
  PROVE  WorkSound(l, y) /\ JobSound(l, J, C, y) /\ y.user = x.user
<1>1. /\ y = [f \in WorkFields |-> y[f]] /\ y.job = x.job /\ y.user = x.user /\ y.read = x.read
      /\ y.written = x.written + 1 /\ x.written \in 0..2
  BY DEF WorkSound, WorkFields
<1>2. KeysOf(l, y) = KeysOf(l, x) BY <1>1 DEF KeysOf
<1>3. WorkSound(l, y) BY <1>1, <1>2 DEF WorkSound
<1> DEFINE K == KeysOf(l, x)
           n == x.written + 1
<1>4. \A j, k \in 1..3 : K[j] = K[k] => j = k BY ThreeBoards DEF KeysOf
<1>5. /\ \A b : b # K[n] => On(C, b) = On(B, b)
      /\ x.user \in DOMAIN On(C, K[n]) /\ On(C, K[n])[x.user] = x.read[n]
  BY Wrote
<1>6. ASSUME NEW k \in 1..n PROVE x.user \in DOMAIN On(C, K[k]) /\ On(C, K[k])[x.user] = x.read[k]
  <2>1. CASE k = n BY <1>5, <2>1
  <2>2. CASE k # n
    <3>1. k \in 1..x.written /\ k \in 1..3 /\ n \in 1..3 BY <1>1, <2>2
    <3>2. K[k] # K[n] BY <1>4, <2>2, <3>1
    <3> QED BY <1>5, <3>1, <3>2 DEF JobSound
  <2> QED BY <2>1, <2>2
<1>7. JobSound(l, J, C, y)
  <2>1. \A k \in 1..y.written : /\ y.user \in DOMAIN On(C, KeysOf(l, y)[k])
                                /\ On(C, KeysOf(l, y)[k])[y.user] = y.read[k]
    BY <1>1, <1>2, <1>6
  <2>2. y.job \in J BY <1>1 DEF JobSound
  <2>3. \A k \in 1..3 : \/ y.read[k] = SumIn(l, y.user, KeysOf(l, y)[k], Len(l))
                        \/ Due(l, J \ {y.job}, y.user, KeysOf(l, y)[k])
    BY <1>1, <1>2 DEF JobSound
  <2> QED BY <2>1, <2>2, <2>3 DEF JobSound
<1> QED BY <1>1, <1>3, <1>7

\* Once a job has written its last board, the boards are right without it.
LEMMA JobEnds ==
  ASSUME NEW l \in Seq(EntryRows), NEW J, NEW B, NEW x, WorkSound(l, x), JobSound(l, J, B, x), x.written = 2,
         NEW C, Writes(B, C, KeysOf(l, x)[3], x.user, x.read[3]),
         NEW b \in Keys, RightOrDue(l, J, On(B, b), b)
  PROVE  RightOrDue(l, J \ {x.job}, On(C, b), b)
<1> DEFINE K == KeysOf(l, x)
           I == J \ {x.job}
<1>1. /\ \A c : c # K[3] => On(C, c) = On(B, c)
      /\ x.user \in DOMAIN On(C, K[3]) /\ On(C, K[3])[x.user] = x.read[3]
  BY Wrote
<1>2. /\ \A j, k \in 1..3 : K[j] = K[k] => j = k
      /\ \A c : InBoard(l[x.job], c) <=> \E k \in 1..3 : c = K[k]
  BY ThreeBoards DEF KeysOf
<1>3. x.job \in DOMAIN l /\ x.user = l[x.job].user BY DEF WorkSound
<1>4. ASSUME NEW k \in 1..3 PROVE x.user \in DOMAIN On(C, K[k]) /\ On(C, K[k])[x.user] = x.read[k]
  <2>1. CASE k = 3 BY <1>1, <2>1
  <2>2. CASE k # 3
    <3>1. k \in 1..x.written BY <2>2
    <3>2. K[k] # K[3] BY <1>2, <2>2
    <3> QED BY <1>1, <3>1, <3>2 DEF JobSound
  <2> QED BY <2>1, <2>2
<1>5. ASSUME NEW u \in Earners PROVE Due(l, I, u, b) \/ Right(l, On(C, b), u, b)
  <2>1. CASE ~Touches(l, x.job, u, b)
    <3>1. u # x.user \/ b # K[3] BY <1>2, <1>3, <2>1 DEF Touches
    <3>2. CASE Due(l, J, u, b) BY <2>1, <3>2 DEF Due
    <3>3. CASE Right(l, On(B, b), u, b) BY <3>1, <3>3, WroteElsewhere
    <3> QED BY <3>2, <3>3 DEF RightOrDue
  <2>2. CASE Touches(l, x.job, u, b)
    <3>1. PICK k \in 1..3 : b = K[k] BY <1>2, <2>2 DEF Touches
    <3>2. u = x.user BY <1>3, <2>2 DEF Touches
    <3>3. x.read[k] = SumIn(l, u, b, Len(l)) \/ Due(l, I, u, b) BY <3>1, <3>2 DEF JobSound
    <3>4. u \in DOMAIN On(C, b) /\ On(C, b)[u] = x.read[k] BY <1>4, <3>1, <3>2
    <3> QED BY <1>3, <2>2, <3>3, <3>4 DEF Right
  <2> QED BY <2>1, <2>2
<1> QED BY <1>5 DEF RightOrDue

\* Another worker's job neither reads nor writes what this one does.
LEMMA JobAside ==
  ASSUME NEW l, NEW J, NEW K, NEW B, NEW x, WorkSound(l, x), JobSound(l, J, B, x),
         NEW C, NEW key, NEW user, NEW val, Writes(B, C, key, user, val), x.user # user,
         K \subseteq J, \A i \in J \ K : l[i].user = user
  PROVE  JobSound(l, K, C, x)
<1>1. x.job \in K BY DEF WorkSound, JobSound
<1>2. \A b : /\ x.user \in DOMAIN On(C, b) <=> x.user \in DOMAIN On(B, b)
             /\ x.user \in DOMAIN On(B, b) => On(C, b)[x.user] = On(B, b)[x.user]
  BY Wrote
<1>3. \A b : Due(l, J \ {x.job}, x.user, b) => Due(l, K \ {x.job}, x.user, b) BY DEF Due, Touches
<1> QED BY <1>1, <1>2, <1>3 DEF JobSound

LEMMA WriteScoreKeeps ==
  ASSUME BoardsInv, NEW w \in Projectors, WriteScore(w)
  PROVE  BoardsInv'
<1> DEFINE x == projector[w]
           key == KeysOf(entries, x)[x.written + 1]
           val == x.read[x.written + 1]
           last == x.written + 1 = 3
<1>1. /\ BoardsTyped /\ x # Idle /\ WorkSound(entries, x) /\ entries \in Seq(EntryRows)
      /\ BoardsSoundIn(entries, boards) /\ jobs \subseteq DOMAIN entries
      /\ UNCHANGED <<entries, rebuild, disturbed, faults>>
  BY DEF BoardsInv, BoardsTyped, WriteScore
<1>2. /\ x.job \in DOMAIN entries /\ entries[x.job] \in EntryRows /\ x.user = entries[x.job].user
      /\ x.written \in 0..2 /\ x.written + 1 \in 1..3
  BY <1>1 DEF WorkSound
<1>3. x.user \in Earners /\ key \in Keys /\ SomeSum(entries, val, x.user, key)
  <2>1. entries[x.job].day \in Days /\ x.user \in Earners BY <1>2 DEF EntryRows
  <2> QED BY <1>1, <1>2, <2>1, ThreeBoards DEF WorkSound, KeysOf
<1>4. Targets(x) = KeysOf(entries, x) /\ Len(Targets(x)) = 3 BY ThreeBoards DEF Targets, KeysOf
<1>5. Writes(boards, boards', key, x.user, val)
  BY <1>4 DEF WriteScore, Writes, NewScore, On, BoardOf
<1>6. /\ projector' = [projector EXCEPT ![w] = IF last THEN Idle ELSE [x EXCEPT !.written = @ + 1]]
      /\ jobs' = IF last THEN jobs \ {x.job} ELSE jobs
  BY <1>4 DEF WriteScore
<1>7. projector = [v \in Projectors |-> projector[v]] BY <1>1 DEF BoardsTyped
<1> HIDE DEF x, key, val
<1>8. /\ projector' = [v \in Projectors |-> projector'[v]]
      /\ \A v \in Projectors : v # w => projector'[v] = projector[v]
      /\ projector'[w] = IF last THEN Idle ELSE [x EXCEPT !.written = @ + 1]
  BY <1>6, <1>7
<1>9. BoardsSoundIn(entries, boards') BY <1>1, <1>3, <1>5, WroteSound
<1>10. projector'[w] # Idle => WorkSound(entries, projector'[w])
  <2>1. ASSUME ~last PROVE WorkSound(entries, [x EXCEPT !.written = @ + 1])
    <3> DEFINE y == [x EXCEPT !.written = @ + 1]
    <3>1. /\ y = [f \in WorkFields |-> y[f]] /\ y.job = x.job /\ y.user = x.user /\ y.read = x.read
          /\ y.written = x.written + 1
      BY <1>1 DEF WorkSound, WorkFields
    <3>2. y.written \in 0..2 BY <1>2, <2>1, <3>1
    <3> HIDE DEF y
    <3>3. WorkSound(entries, y) BY <1>1, <3>1, <3>2 DEF WorkSound, KeysOf
    <3> QED BY <3>3 DEF y
  <2> QED BY <1>8, <2>1
<1>11. BoardsTyped'
  <2>1. \A v \in Projectors : projector'[v] # Idle => WorkSound(entries, projector'[v])
    BY <1>1, <1>8, <1>10 DEF BoardsTyped
  <2>2. jobs' \subseteq DOMAIN entries BY <1>1, <1>6
  <2>3. (rebuild # Idle => RebuildShaped(entries, rebuild)) /\ disturbed \in BOOLEAN /\ faults \in 0..MaxFaults
    BY <1>1 DEF BoardsTyped
  <2> QED BY <1>1, <1>8, <1>9, <2>1, <2>2, <2>3 DEF BoardsTyped
<1>12. ~(rebuild # Idle /\ rebuild.quiet) BY <1>1 DEF BoardsInv, QuietRebuild, x
<1>13. ASSUME ~disturbed PROVE NothingOverlaps'
  <2>1. NothingOverlaps /\ rebuild = Idle BY <1>12, <1>13 DEF BoardsInv, NothingOverlaps
  <2>2. JobSound(entries, jobs, boards, x) /\ x.job \in jobs
    BY <1>1, <2>1 DEF NothingOverlaps, x, JobSound
  <2>3. \A v \in Projectors : v # w /\ projector[v] # Idle => projector[v].user # x.user
    BY <1>1, <2>1 DEF NothingOverlaps, x
  <2>4. jobs' \subseteq jobs /\ \A i \in jobs \ jobs' : entries[i].user = x.user BY <1>2, <1>6
  <2>5. ASSUME NEW v \in Projectors, v # w, projector[v] # Idle
        PROVE  JobSound(entries, jobs', boards', projector[v])
    <3>1. WorkSound(entries, projector[v]) BY <1>1, <2>5 DEF BoardsTyped
    <3>2. JobSound(entries, jobs, boards, projector[v]) BY <2>1, <2>5 DEF NothingOverlaps
    <3> QED BY <1>5, <2>3, <2>4, <2>5, <3>1, <3>2, JobAside
  <2>6. CASE last
    <3>1. projector'[w] = Idle /\ jobs' = jobs \ {x.job} /\ x.written = 2 BY <1>2, <1>6, <1>8, <2>6
    <3>2. Writes(boards, boards', KeysOf(entries, x)[3], x.user, x.read[3])
      BY <1>5, <3>1 DEF key, val
    <3>3. \A b \in Keys : RightOrDue(entries, jobs', On(boards', b), b)
      BY <1>1, <2>1, <2>2, <3>1, <3>2, JobEnds DEF NothingOverlaps
    <3>4. \A v \in Projectors : projector'[v] # Idle => JobSound(entries, jobs', boards', projector'[v])
      BY <1>8, <2>5, <3>1
    <3>5. \A u, v \in Projectors :
             projector'[u] # Idle /\ projector'[v] # Idle /\ projector'[u].user = projector'[v].user => u = v
      BY <1>8, <2>1, <3>1 DEF NothingOverlaps
    <3> QED BY <1>1, <2>1, <3>3, <3>4, <3>5 DEF NothingOverlaps
  <2>7. CASE ~last
    <3> DEFINE y == [x EXCEPT !.written = @ + 1]
    <3>1. projector'[w] = y /\ jobs' = jobs /\ x.written < 2 BY <1>2, <1>6, <1>8, <2>7
    <3>2. JobSound(entries, jobs, boards', y) /\ y.user = x.user
      BY <1>1, <1>5, <2>2, <3>1, JobWrites DEF key, val
    <3> HIDE DEF y
    <3>3. \A v \in Projectors : projector'[v] # Idle => JobSound(entries, jobs', boards', projector'[v])
      BY <1>8, <2>5, <3>1, <3>2
    <3>4. \A u, v \in Projectors :
             projector'[u] # Idle /\ projector'[v] # Idle /\ projector'[u].user = projector'[v].user => u = v
      BY <1>1, <1>8, <2>1, <2>3, <3>1, <3>2 DEF NothingOverlaps
    <3>5. ASSUME NEW b \in Keys, NEW u \in Earners
          PROVE  Due(entries, jobs, u, b) \/ Right(entries, On(boards', b), u, b)
      <4>1. Due(entries, jobs, u, b) \/ Right(entries, On(boards, b), u, b)
        BY <2>1, <3>5 DEF NothingOverlaps, RightOrDue
      <4>2. CASE b # key \/ u # x.user BY <1>5, <4>1, <4>2, WroteElsewhere
      <4>3. CASE b = key /\ u = x.user
        <5>1. InBoard(entries[x.job], key) BY <1>2, ThreeBoards DEF key, KeysOf
        <5> QED BY <1>2, <2>2, <4>3, <5>1 DEF Due, Touches
      <4> QED BY <4>2, <4>3
    <3>6. \A b \in Keys : RightOrDue(entries, jobs', On(boards', b), b) BY <3>1, <3>5 DEF RightOrDue
    <3> QED BY <1>1, <2>1, <3>3, <3>4, <3>6 DEF NothingOverlaps
  <2> QED BY <2>6, <2>7
<1> QED BY <1>1, <1>11, <1>12, <1>13 DEF BoardsInv

LEMMA FailProjectionKeeps ==
  ASSUME BoardsInv, NEW w \in Projectors, FailProjection(w)
  PROVE  BoardsInv'
<1>1. /\ BoardsTyped /\ projector[w] # Idle /\ UNCHANGED <<entries, boards>>
      /\ projector = [v \in Projectors |-> projector[v]]
      /\ projector' = [projector EXCEPT ![w] = Idle] /\ faults' \in 0..MaxFaults
  BY FaultStep DEF BoardsInv, BoardsTyped, FailProjection
<1>2. /\ projector' = [v \in Projectors |-> projector'[v]] /\ projector'[w] = Idle
      /\ \A v \in Projectors : v # w => projector'[v] = projector[v]
  BY <1>1
<1>3. /\ rebuild' # Idle => RebuildShaped(entries, rebuild')
      /\ disturbed' \in BOOLEAN
  BY <1>1, DisturbedStep DEF FailProjection, BoardsTyped
<1>4. BoardsTyped'
  <2>1. \A v \in Projectors : projector'[v] # Idle => WorkSound(entries, projector'[v])
    BY <1>1, <1>2 DEF BoardsTyped
  <2>2. jobs' \subseteq DOMAIN entries BY <1>1 DEF FailProjection, BoardsTyped
  <2>3. entries \in Seq(EntryRows) /\ BoardsSoundIn(entries, boards) BY <1>1 DEF BoardsTyped
  <2> QED BY <1>1, <1>2, <1>3, <2>1, <2>2, <2>3 DEF BoardsTyped
<1>5. CASE Disturb BY <1>4, <1>5, DisturbedStep DEF BoardsInv
<1>6. CASE UNCHANGED <<jobs, rebuild, disturbed>>
  <2>1. ~(rebuild # Idle /\ rebuild.quiet) BY <1>1 DEF BoardsInv, QuietRebuild
  <2>2. ASSUME ~disturbed PROVE NothingOverlaps'
    <3>1. NothingOverlaps BY <2>2 DEF BoardsInv
    <3>2. \A v \in Projectors : projector'[v] # Idle => JobSound(entries, jobs, boards, projector'[v])
      BY <1>2, <3>1 DEF NothingOverlaps
    <3>3. \A u, v \in Projectors :
             projector'[u] # Idle /\ projector'[v] # Idle /\ projector'[u].user = projector'[v].user => u = v
      BY <1>2, <3>1 DEF NothingOverlaps
    <3> QED BY <1>1, <1>6, <3>1, <3>2, <3>3 DEF NothingOverlaps
  <2> QED BY <1>4, <1>6, <2>1, <2>2 DEF BoardsInv
<1> QED BY <1>5, <1>6 DEF FailProjection

LEMMA LoseRedisKeeps == ASSUME BoardsInv, LoseRedis PROVE BoardsInv'
<1>1. /\ BoardsTyped /\ UNCHANGED <<entries, jobs, projector>> /\ faults' \in 0..MaxFaults
      /\ boards' = [board \in {} |-> NoScores] /\ Disturb
  BY FaultStep DEF BoardsInv, LoseRedis
<1>2. BoardsSoundIn(entries, boards') BY <1>1 DEF BoardsSoundIn
<1>3. disturbed' = TRUE /\ (rebuild' # Idle => RebuildShaped(entries, rebuild') /\ rebuild'.quiet = FALSE)
  BY <1>1, DisturbedStep
<1>4. BoardsTyped' BY <1>1, <1>2, <1>3 DEF BoardsTyped
<1> QED BY <1>3, <1>4 DEF BoardsInv

LEMMA RebuildTargetsAreKeys ==
  ASSUME BoardsTyped
  PROVE  /\ RebuildTargets \subseteq Keys
         /\ \A i \in DOMAIN entries : \A b : InBoard(entries[i], b) => b \in RebuildTargets
<1>0. entries \in Seq(EntryRows) BY DEF BoardsTyped
<1>1. \A i \in DOMAIN entries : entries[i].day \in Days
  <2>1. \A i \in DOMAIN entries : entries[i] \in EntryRows BY <1>0
  <2> QED BY <2>1 DEF EntryRows
<1>2. RebuildTargets \subseteq Keys BY <1>1 DEF RebuildTargets, LedgerDays, Keys
<1>3. ASSUME NEW i \in DOMAIN entries, NEW b, InBoard(entries[i], b) PROVE b \in RebuildTargets
  <2>1. entries[i].day \in LedgerDays BY DEF LedgerDays
  <2> QED BY <1>3, <2>1 DEF RebuildTargets, InBoard
<1> QED BY <1>2, <1>3

LEMMA StartRebuildKeeps == ASSUME BoardsInv, StartRebuild PROVE BoardsInv'
<1>1. /\ BoardsTyped /\ rebuild = Idle /\ UNCHANGED <<entries, boards, jobs, projector, faults>>
      /\ disturbed \in BOOLEAN
      /\ disturbed' = (disturbed \/ \E w \in Projectors : projector[w] # Idle)
  BY DEF BoardsInv, BoardsTyped, StartRebuild
<1> DEFINE x == rebuild'
<1>2. /\ x = [f \in RebuildFields |-> x[f]] /\ x.at = "READ" /\ x.targets = RebuildTargets
      /\ x.todo = RebuildTargets /\ x.quiet = (\A w \in Projectors : projector[w] = Idle)
  BY DEF StartRebuild, RebuildFields
<1>3. RebuildShaped(entries, x) BY <1>1, <1>2, RebuildTargetsAreKeys DEF RebuildShaped
<1>4. BoardsTyped' BY <1>1, <1>3 DEF BoardsTyped
<1>5. RebuildSound(entries, jobs, boards, x) BY <1>1, <1>2, RebuildTargetsAreKeys DEF RebuildSound
<1>6. x.quiet => QuietRebuild' BY <1>1, <1>2, <1>5 DEF QuietRebuild
<1>7. ASSUME ~disturbed' PROVE NothingOverlaps'
  <2>1. NothingOverlaps /\ x.quiet BY <1>1, <1>2, <1>7 DEF BoardsInv
  <2> QED BY <1>1, <2>1 DEF NothingOverlaps
<1> QED BY <1>4, <1>6, <1>7 DEF BoardsInv

\* What a rebuild reads of a board is what the ledger says.
LEMMA RangesAreRight ==
  ASSUME BoardsTyped, NEW b
  PROVE  /\ ScoresSound(entries, RangeScores(b), b)
         /\ \A u : Right(entries, RangeScores(b), u, b)
<1> DEFINE s == RangeScores(b)
<1>1. DOMAIN s = Members(b) /\ s = [u \in DOMAIN s |-> s[u]]
      /\ \A u \in Members(b) : s[u] = SumIn(entries, u, b, Len(entries))
  BY ScoresAreSums DEF RangeScores
<1> HIDE DEF s
<1>2. \A u : u \in Members(b) <=> \E i \in DOMAIN entries : Touches(entries, i, u, b)
  BY DEF Members, Touches
<1>3. entries \in Seq(EntryRows) BY DEF BoardsTyped
<1>4. ASSUME NEW u \in Members(b) PROVE u \in Earners /\ SomeSum(entries, s[u], u, b)
  <2>1. PICK i \in DOMAIN entries : Touches(entries, i, u, b) BY <1>2
  <2>2. entries[i] \in EntryRows /\ entries[i].user = u BY <1>3, <2>1 DEF Touches
  <2>3. Len(entries) \in 1..Len(entries) BY <1>3, <2>1
  <2> QED BY <1>1, <2>2, <2>3 DEF SomeSum, EntryRows
<1>5. IsFiniteSet(Members(b))
  <2>1. Len(entries) \in Nat /\ DOMAIN entries = 1..Len(entries) BY <1>3
  <2> DEFINE A == {j \in DOMAIN entries : InBoard(entries[j], b)}
             f == [j \in A |-> entries[j].user]
  <2>2. IsFiniteSet(A)
    <3>1. IsFiniteSet(DOMAIN entries) BY <2>1, FS_Interval
    <3>2. A \subseteq DOMAIN entries OBVIOUS
    <3> HIDE DEF A
    <3> QED BY <3>1, <3>2, FS_Subset
  <2>3. f \in Surjection(A, Members(b)) BY DEF Surjection, Members
  <2> HIDE DEF A, f
  <2> QED BY <2>2, <2>3, FS_Surjection
<1>7. ScoresSound(entries, s, b) BY <1>1, <1>4, <1>5 DEF ScoresSound
<1>6. \A u : Right(entries, s, u, b) BY <1>1, <1>2 DEF Right
<1> QED BY <1>6, <1>7 DEF s

LEMMA ReadRangeKeeps == ASSUME BoardsInv, ReadRange PROVE BoardsInv'
<1>1. /\ BoardsTyped /\ rebuild # Idle /\ rebuild.at = "READ" /\ RebuildShaped(entries, rebuild)
      /\ UNCHANGED <<entries, boards, jobs, projector, disturbed, faults>>
  BY DEF BoardsInv, BoardsTyped, ReadRange
<1>2. PICK b \in rebuild.todo :
         rebuild' = [rebuild EXCEPT !.at = "WRITE", !.board = b, !.scores = RangeScores(b)]
  BY DEF ReadRange
<1> DEFINE x == rebuild'
<1>3. /\ x = [f \in RebuildFields |-> x[f]] /\ x.at = "WRITE" /\ x.board = b /\ x.scores = RangeScores(b)
      /\ x.targets = rebuild.targets /\ x.todo = rebuild.todo /\ x.stale = rebuild.stale
      /\ x.quiet = rebuild.quiet
  BY <1>1, <1>2 DEF RebuildShaped, RebuildFields
<1> HIDE DEF x
<1>4. RebuildShaped(entries, x) BY <1>1, <1>3, RangesAreRight DEF RebuildShaped
<1>5. BoardsTyped' BY <1>1, <1>4 DEF BoardsTyped, x
<1>6. ASSUME rebuild.quiet PROVE QuietRebuild'
  <2>1. QuietRebuild BY <1>1, <1>6 DEF BoardsInv
  <2>2. RightOrDue(entries, jobs, x.scores, x.board) BY <1>1, <1>3, RangesAreRight DEF RightOrDue
  <2>3. RebuildSound(entries, jobs, boards, x) BY <1>3, <2>1, <2>2 DEF QuietRebuild, RebuildSound
  <2> QED BY <1>1, <2>1, <2>3 DEF QuietRebuild, x
<1>7. ~disturbed => NothingOverlaps' BY <1>1, <1>3 DEF BoardsInv, NothingOverlaps, x
<1> QED BY <1>1, <1>3, <1>5, <1>6, <1>7 DEF BoardsInv, x

\* A board that is rewritten says what was read; the others stay.
LEMMA RewrittenBoards ==
  ASSUME NEW l, BoardsSoundIn(l, boards), NEW b \in Keys, NEW s, ScoresSound(l, s, b)
  PROVE  /\ BoardsSoundIn(l, Rewritten(b, s))
         /\ \A c : c # b => On(Rewritten(b, s), c) = On(boards, c)
         /\ \A J : RightOrDue(l, J, s, b) => RightOrDue(l, J, On(Rewritten(b, s), b), b)
<1> DEFINE C == Rewritten(b, s)
<1>1. CASE DOMAIN s = {}
  <2>1. C = Without(boards, {b}) BY <1>1 DEF Rewritten
  <2> HIDE DEF C
  <2>2. /\ DOMAIN C = DOMAIN boards \ {b} /\ C = [k \in DOMAIN C |-> C[k]]
        /\ \A k \in DOMAIN C : C[k] = boards[k]
    BY <2>1 DEF Without
  <2>3. BoardsSoundIn(l, C) BY <2>2 DEF BoardsSoundIn
  <2>4. (\A c : c # b => On(C, c) = On(boards, c)) /\ On(C, b) = NoScores BY <2>2 DEF On
  <2>5. DOMAIN NoScores = {} BY DEF NoScores
  <2>6. \A u : Right(l, s, u, b) => Right(l, NoScores, u, b) BY <1>1, <2>5 DEF Right
  <2> QED BY <2>3, <2>4, <2>6 DEF RightOrDue, C
<1>2. CASE DOMAIN s # {}
  <2>1. C = With(boards, b, s) BY <1>2 DEF Rewritten
  <2> HIDE DEF C
  <2>2. /\ DOMAIN C = DOMAIN boards \cup {b} /\ C = [k \in DOMAIN C |-> C[k]]
        /\ \A k \in DOMAIN C : k # b => C[k] = boards[k]
        /\ C[b] = s
    BY <2>1 DEF With
  <2>3. BoardsSoundIn(l, C) BY <1>2, <2>2 DEF BoardsSoundIn
  <2>4. (\A c : c # b => On(C, c) = On(boards, c)) /\ On(C, b) = s BY <2>2 DEF On
  <2> QED BY <2>3, <2>4 DEF C
<1> QED BY <1>1, <1>2

LEMMA RewriteBoardKeeps == ASSUME BoardsInv, RewriteBoard PROVE BoardsInv'
<1> DEFINE b == rebuild.board
           s == rebuild.scores
           x == rebuild'
<1>1. /\ BoardsTyped /\ rebuild # Idle /\ rebuild.at = "WRITE" /\ RebuildShaped(entries, rebuild)
      /\ boards' = Rewritten(b, s) /\ BoardsSoundIn(entries, boards)
      /\ rebuild' = [rebuild EXCEPT !.at = "READ", !.todo = @ \ {b}, !.scores = NoScores]
      /\ UNCHANGED <<entries, jobs, projector, disturbed, faults>>
  BY DEF BoardsInv, BoardsTyped, RewriteBoard
<1>2. /\ x = [f \in RebuildFields |-> x[f]] /\ x.at = "READ" /\ x.todo = rebuild.todo \ {b}
      /\ x.targets = rebuild.targets /\ x.quiet = rebuild.quiet
  BY <1>1 DEF RebuildShaped, RebuildFields
<1>3. b \in Keys /\ ScoresSound(entries, s, b) BY <1>1 DEF RebuildShaped
<1> HIDE DEF b, s, x
<1>4. /\ BoardsSoundIn(entries, boards')
      /\ \A c : c # b => On(boards', c) = On(boards, c)
      /\ \A J : RightOrDue(entries, J, s, b) => RightOrDue(entries, J, On(boards', b), b)
  BY <1>1, <1>3, RewrittenBoards
<1>5. RebuildShaped(entries, x) BY <1>1, <1>2 DEF RebuildShaped
<1>6. BoardsTyped' BY <1>1, <1>4, <1>5 DEF BoardsTyped, x
<1>7. ASSUME rebuild.quiet PROVE QuietRebuild' /\ RightOrDue(entries, jobs, On(boards', b), b)
  <2>1. QuietRebuild BY <1>1, <1>7 DEF BoardsInv
  <2>2. RightOrDue(entries, jobs, On(boards', b), b)
    BY <1>1, <1>4, <2>1 DEF QuietRebuild, RebuildSound, b, s
  <2>3. \A c \in x.targets \ x.todo : RightOrDue(entries, jobs, On(boards', c), c)
    BY <1>2, <1>4, <2>1, <2>2 DEF QuietRebuild, RebuildSound
  <2>4. RebuildSound(entries, jobs, boards', x)
    BY <1>2, <2>1, <2>3 DEF QuietRebuild, RebuildSound
  <2> QED BY <1>1, <2>1, <2>2, <2>4 DEF QuietRebuild, x
<1>8. ASSUME ~disturbed PROVE NothingOverlaps'
  <2>1. NothingOverlaps /\ rebuild.quiet BY <1>1, <1>8 DEF BoardsInv, NothingOverlaps
  <2>2. \A w \in Projectors : projector[w] = Idle BY <1>1, <2>1 DEF BoardsInv, QuietRebuild
  <2>3. \A c \in Keys : RightOrDue(entries, jobs, On(boards', c), c)
    BY <1>4, <1>7, <2>1 DEF NothingOverlaps
  <2> QED BY <1>1, <1>2, <2>1, <2>2, <2>3 DEF NothingOverlaps, x
<1> QED BY <1>1, <1>2, <1>6, <1>7, <1>8 DEF BoardsInv, x

LEMMA ScanKeysKeeps == ASSUME BoardsInv, ScanKeys PROVE BoardsInv'
<1> DEFINE x == rebuild'
<1>1. /\ BoardsTyped /\ rebuild # Idle /\ rebuild.at = "READ" /\ rebuild.todo = {}
      /\ RebuildShaped(entries, rebuild)
      /\ rebuild' = [rebuild EXCEPT !.at = "DELETE", !.stale = DOMAIN boards \ rebuild.targets]
      /\ UNCHANGED <<entries, boards, jobs, projector, disturbed, faults>>
  BY DEF BoardsInv, BoardsTyped, ScanKeys
<1>2. /\ x = [f \in RebuildFields |-> x[f]] /\ x.at = "DELETE" /\ x.todo = {}
      /\ x.targets = rebuild.targets /\ x.quiet = rebuild.quiet
      /\ x.stale = DOMAIN boards \ rebuild.targets
  BY <1>1 DEF RebuildShaped, RebuildFields
<1> HIDE DEF x
<1>3. RebuildShaped(entries, x) BY <1>1, <1>2 DEF RebuildShaped
<1>4. BoardsTyped' BY <1>1, <1>3 DEF BoardsTyped, x
<1>5. ASSUME rebuild.quiet PROVE QuietRebuild'
  <2>1. QuietRebuild BY <1>1, <1>5 DEF BoardsInv
  <2>2. RebuildSound(entries, jobs, boards, x) BY <1>1, <1>2, <2>1 DEF QuietRebuild, RebuildSound
  <2> QED BY <1>1, <2>1, <2>2 DEF QuietRebuild, x
<1>6. ~disturbed => NothingOverlaps' BY <1>1, <1>2 DEF BoardsInv, NothingOverlaps, x
<1> QED BY <1>1, <1>2, <1>4, <1>5, <1>6 DEF BoardsInv, x

LEMMA DeleteUnbackedKeeps == ASSUME BoardsInv, DeleteUnbacked PROVE BoardsInv'
<1>1. /\ BoardsTyped /\ rebuild # Idle /\ rebuild.at = "DELETE" /\ RebuildShaped(entries, rebuild)
      /\ boards' = Without(boards, rebuild.stale) /\ BoardsSoundIn(entries, boards)
      /\ disturbed' = (IF rebuild.quiet THEN FALSE ELSE disturbed) /\ rebuild' = Idle
      /\ UNCHANGED <<entries, jobs, projector, faults>>
  BY DEF BoardsInv, BoardsTyped, DeleteUnbacked
<1>2. /\ DOMAIN boards' = DOMAIN boards \ rebuild.stale
      /\ boards' = [k \in DOMAIN boards' |-> boards'[k]]
      /\ \A k \in DOMAIN boards' : boards'[k] = boards[k]
  BY <1>1 DEF Without
<1>3. BoardsSoundIn(entries, boards') BY <1>1, <1>2 DEF BoardsSoundIn
<1>4. BoardsTyped' BY <1>1, <1>3 DEF BoardsTyped
<1>5. ASSUME rebuild.quiet PROVE NothingOverlaps'
  <2>1. /\ \A w \in Projectors : projector[w] = Idle
        /\ RebuildSound(entries, jobs, boards, rebuild)
    BY <1>1, <1>5 DEF BoardsInv, QuietRebuild
  <2>2. rebuild.todo = {} /\ rebuild.stale \cap rebuild.targets = {} BY <1>1 DEF RebuildShaped
  <2>3. ASSUME NEW b \in Keys PROVE RightOrDue(entries, jobs, On(boards', b), b)
    <3>1. CASE b \in rebuild.targets
      <4>1. On(boards', b) = On(boards, b) BY <1>2, <2>2, <3>1 DEF On
      <4> QED BY <2>1, <2>2, <3>1, <4>1 DEF RebuildSound
    <3>2. CASE b \notin rebuild.targets
      <4>1. On(boards', b) = NoScores /\ DOMAIN NoScores = {}
        BY <1>1, <1>2, <2>1, <3>2 DEF On, RebuildSound, NoScores
      <4>2. \A i \in DOMAIN entries : InBoard(entries[i], b) => i \in jobs
        BY <2>1, <3>2 DEF RebuildSound
      <4> QED BY <4>1, <4>2 DEF RightOrDue, Due, Right, Touches
    <3> QED BY <3>1, <3>2
  <2> QED BY <1>1, <2>1, <2>3 DEF NothingOverlaps
<1>6. ASSUME ~rebuild.quiet PROVE disturbed'
  <2>1. disturbed BY <1>1, <1>6 DEF BoardsInv, NothingOverlaps
  <2> QED BY <1>1, <1>6, <2>1
<1> QED BY <1>1, <1>4, <1>5, <1>6 DEF BoardsInv

LEMMA BoardsStep == ASSUME BoardsInv, [RankingNext]_rankingVars PROVE BoardsInv'
<1>1. ASSUME NEW user \in Earners, NEW day \in Days, NEW amount \in Amounts, Award(user, day, amount)
      PROVE  BoardsInv'
  <2>1. amount \in Int BY RankingAssumption DEF RankingAssumption
  <2>2. [user |-> user, day |-> day, amount |-> amount] \in EntryRows BY <2>1 DEF EntryRows
  <2> QED BY <1>1, <2>2, QueuedKeeps DEF Award
<1>2. ASSUME NEW i \in DOMAIN entries, ReverseEntry(i) PROVE BoardsInv'
  <2>1. entries \in Seq(EntryRows) BY DEF BoardsInv, BoardsTyped
  <2>2. entries[i] \in EntryRows BY <2>1
  <2>3. 0 - entries[i].amount \in Int BY <2>2 DEF EntryRows
  <2>4. [entries[i] EXCEPT !.amount = 0 - @] \in EntryRows BY <2>2, <2>3 DEF EntryRows
  <2> QED BY <1>2, <2>4, QueuedKeeps DEF ReverseEntry
<1>3. ASSUME ProjectorNext PROVE BoardsInv'
  BY <1>3, DeliverKeeps, WriteScoreKeeps, FailProjectionKeeps DEF ProjectorNext
<1>4. ASSUME RebuildNext PROVE BoardsInv'
  BY <1>4, StartRebuildKeeps, ReadRangeKeeps, RewriteBoardKeeps, ScanKeysKeeps, DeleteUnbackedKeeps
  DEF RebuildNext
<1>5. ASSUME UNCHANGED rankingVars PROVE BoardsInv'
  <2>1. UNCHANGED entries /\ UNCHANGED boards /\ UNCHANGED jobs /\ UNCHANGED projector
        /\ UNCHANGED rebuild /\ UNCHANGED disturbed /\ UNCHANGED faults
    BY <1>5 DEF rankingVars
  <2> QED BY <2>1 DEF BoardsInv, BoardsTyped, QuietRebuild, NothingOverlaps
<1> QED BY <1>1, <1>2, <1>3, <1>4, <1>5, LoseRedisKeeps DEF RankingNext

-----------------------------------------------------------------------------
(* Sums are numbers.  The library adds up a function by a recursive function *)
(* that chooses an element at a time; each induction looks at a smallest     *)
(* number or set for which the claim would fail.                             *)

Picked(T) == CHOOSE x \in T : TRUE
Summed(g, f, T) == IF T = {} THEN 0 ELSE f[Picked(T)] + g[T \ {Picked(T)}]
IsSum(g, f, S) == g = [T \in SUBSET S |-> Summed(g, f, T)]

LEMMA TotalIs == ASSUME NEW f PROVE Total(f) = (CHOOSE g : IsSum(g, f, DOMAIN f))[DOMAIN f]
BY DEF Total, FoldFunction, FoldFunctionOnSet, MapThenFoldSet, IsSum, Summed, Picked

\* What the sum of every part with at most n elements is.
Small(S, n) == {T \in SUBSET S : Cardinality(T) <= n}
Sums(f, S, n, g) == g \in [Small(S, n) -> Int] /\ \A T \in Small(S, n) : g[T] = Summed(g, f, T)

LEMMA SumExists ==
  ASSUME NEW S, IsFiniteSet(S), NEW f, \A x \in S : f[x] \in Int
  PROVE  \E g \in [SUBSET S -> Int] : IsSum(g, f, S)
<1> DEFINE Part(n) == \E g : Sums(f, S, n, g)
           D == {n \in Nat : ~Part(n)}
<1>1. \A T \in SUBSET S : IsFiniteSet(T) /\ Cardinality(T) \in Nat BY FS_Subset, FS_CardinalityType
<1>2. Part(0)
  <2>1. \A T \in Small(S, 0) : T = {} BY <1>1, FS_EmptySet DEF Small
  <2> DEFINE g == [T \in Small(S, 0) |-> 0]
  <2>2. Sums(f, S, 0, g) BY <2>1 DEF Summed, Sums
  <2> QED BY <2>2
<1>3. ASSUME NEW n \in Nat, Part(n) PROVE Part(n + 1)
  <2>1. PICK g : Sums(f, S, n, g) BY <1>3
  <2> DEFINE h == [T \in Small(S, n + 1) |-> Summed(g, f, T)]
  <2>2. ASSUME NEW T \in Small(S, n + 1), T # {}
        PROVE  T \ {Picked(T)} \in Small(S, n) /\ Picked(T) \in S
    <3>1. Picked(T) \in T BY <2>2 DEF Picked
    <3>2. T \in SUBSET S /\ Cardinality(T) <= n + 1 BY <2>2 DEF Small
    <3>3. Cardinality(T \ {Picked(T)}) = Cardinality(T) - 1 BY <1>1, <3>1, <3>2, FS_RemoveElement
    <3> QED BY <1>1, <3>1, <3>2, <3>3 DEF Small
  <2>3. \A T \in Small(S, n + 1) : Summed(g, f, T) \in Int BY <2>1, <2>2 DEF Summed, Sums
  <2>4. h \in [Small(S, n + 1) -> Int] BY <2>3
  <2>5. \A T \in Small(S, n) : T \in Small(S, n + 1) /\ h[T] = g[T] BY <1>1, <2>1 DEF Small, Sums
  <2>6. ASSUME NEW T \in Small(S, n + 1) PROVE h[T] = Summed(h, f, T)
    <3>1. h[T] = Summed(g, f, T) OBVIOUS
    <3>2. T # {} => h[T \ {Picked(T)}] = g[T \ {Picked(T)}] BY <2>2, <2>5
    <3> HIDE DEF h
    <3> QED BY <3>1, <3>2 DEF Summed
  <2> HIDE DEF h
  <2> QED BY <2>4, <2>6 DEF Sums
<1>4. \A n \in Nat : Part(n)
  <2>1. SUFFICES ASSUME D # {} PROVE FALSE OBVIOUS
  <2> HIDE DEF Part
  <2>2. PICK n \in D : \A m \in D : n <= m BY <2>1, SmallestNumber
  <2>3. n # 0 BY <1>2
  <2>4. n - 1 \in Nat /\ n - 1 \notin D BY <2>2, <2>3
  <2>5. Part(n - 1) BY <2>4
  <2>6. Part((n - 1) + 1) BY <1>3, <2>4, <2>5
  <2> QED BY <2>6
<1>5. Cardinality(S) \in Nat BY FS_CardinalityType
<1>6. Small(S, Cardinality(S)) = SUBSET S BY <1>1, FS_Subset DEF Small
<1>7. PICK g : Sums(f, S, Cardinality(S), g) BY <1>4, <1>5
<1>8. g \in [SUBSET S -> Int] /\ \A T \in SUBSET S : g[T] = Summed(g, f, T) BY <1>6, <1>7 DEF Sums
<1>9. g = [T \in SUBSET S |-> Summed(g, f, T)] BY <1>8
<1> QED BY <1>8, <1>9 DEF IsSum

LEMMA SumsAreNumbers ==
  ASSUME NEW f, IsFiniteSet(DOMAIN f), \A x \in DOMAIN f : f[x] \in Int
  PROVE  Total(f) \in Int
<1> DEFINE S == DOMAIN f
           g == CHOOSE h : IsSum(h, f, S)
           D == {T \in SUBSET S : g[T] \notin Int}
<1>1. IsSum(g, f, S)
  <2>1. \E h \in [SUBSET S -> Int] : IsSum(h, f, S) BY SumExists
  <2> QED BY <2>1
<1> HIDE DEF g
<1>2. \A T \in SUBSET S : g[T] = Summed(g, f, T) BY <1>1 DEF IsSum
<1>3. ASSUME D # {} PROVE FALSE
  <2>1. IsWellFoundedOn(StrictSubsetOrdering(S), FiniteSubsetsOf(S))
    BY FS_StrictSubsetOrderingWellFounded
  <2>2. D \subseteq FiniteSubsetsOf(S) BY FS_Subset DEF FiniteSubsetsOf
  <2>3. PICK T \in D : \A U \in D : <<U, T>> \notin StrictSubsetOrdering(S)
    <3> HIDE DEF D
    <3> QED BY <1>3, <2>1, <2>2, WFMin
  <2>4. T # {} /\ Picked(T) \in T
    <3>1. {} \in SUBSET S /\ Summed(g, f, {}) = 0 BY DEF Summed
    <3>2. g[{}] = 0 BY <1>2, <3>1
    <3>3. g[T] \notin Int BY <2>3
    <3>4. ASSUME T = {} PROVE FALSE BY <3>2, <3>3, <3>4
    <3> QED BY <3>4 DEF Picked
  <2>5. <<T \ {Picked(T)}, T>> \in StrictSubsetOrdering(S) BY <2>3, <2>4 DEF StrictSubsetOrdering
  <2>6. g[T \ {Picked(T)}] \in Int BY <2>3, <2>4, <2>5
  <2>7. g[T] = f[Picked(T)] + g[T \ {Picked(T)}] BY <1>2, <2>3, <2>4 DEF Summed
  <2>8. f[Picked(T)] \in Int BY <2>3, <2>4
  <2> QED BY <2>3, <2>6, <2>7, <2>8
<1>4. g[S] \in Int BY <1>3
<1> QED BY <1>4, TotalIs DEF g

LEMMA LedgerSums ==
  ASSUME NEW l \in Seq(EntryRows), NEW u, NEW b, NEW n \in 0..Len(l)
  PROVE  SumIn(l, u, b, n) \in Int
<1> DEFINE S == {j \in 1..n : l[j].user = u /\ InBoard(l[j], b)}
           f == [i \in S |-> l[i].amount]
<1>1. n \in Nat /\ \A i \in S : l[i] \in EntryRows OBVIOUS
<1>2. IsFiniteSet(S)
  <2>1. IsFiniteSet(1..n) BY <1>1, FS_Interval
  <2>2. S \subseteq 1..n OBVIOUS
  <2> HIDE DEF S
  <2> QED BY <2>1, <2>2, FS_Subset
<1>3. DOMAIN f = S /\ \A i \in S : f[i] \in Int BY <1>1 DEF EntryRows
<1>4. SumIn(l, u, b, n) = Total(f) BY DEF SumIn
<1> HIDE DEF S, f
<1> QED BY <1>2, <1>3, <1>4, SumsAreNumbers

-----------------------------------------------------------------------------
(* What is read from the boards.                                             *)

LEMMA ShownSums ==
  ASSUME NEW l \in Seq(EntryRows), NEW s, NEW b, ScoresSound(l, s, b)
  PROVE  /\ IsFiniteSet(DOMAIN s) /\ DOMAIN s \subseteq Nat
         /\ \A u \in DOMAIN s : s[u] \in Int
<1>1. Earners \subseteq Nat BY RankingAssumption
<1>2. ASSUME NEW u \in DOMAIN s PROVE s[u] \in Int
  <2>1. PICK n \in 1..Len(l) : s[u] = SumIn(l, u, b, n) BY DEF ScoresSound, SomeSum
  <2> QED BY <2>1, LedgerSums
<1> QED BY <1>1, <1>2 DEF ScoresSound

\* Everyone on a board has one of its places.
LEMMA RankIsPlace ==
  ASSUME NEW s, IsFiniteSet(DOMAIN s), DOMAIN s \subseteq Nat, \A u \in DOMAIN s : s[u] \in Int,
         NEW u \in DOMAIN s
  PROVE  Cardinality(DOMAIN s) \in Nat /\ Rank(s, u) \in 1..Cardinality(DOMAIN s)
<1>1. Above(s, u) \subseteq DOMAIN s \ {u} BY DEF Above
<1>2. /\ Cardinality(DOMAIN s) \in Nat /\ IsFiniteSet(DOMAIN s \ {u})
      /\ Cardinality(DOMAIN s \ {u}) = Cardinality(DOMAIN s) - 1
  BY FS_RemoveElement, FS_CardinalityType
<1>3. /\ IsFiniteSet(Above(s, u)) /\ Cardinality(Above(s, u)) <= Cardinality(DOMAIN s \ {u})
  BY <1>1, <1>2, FS_Subset
<1>4. Cardinality(Above(s, u)) \in Nat BY <1>3, FS_CardinalityType
<1> QED BY <1>2, <1>3, <1>4 DEF Rank

\* The rows of a slice that starts on the board are numbered by rank.
LEMMA RowsAreRanks ==
  ASSUME NEW s, IsFiniteSet(DOMAIN s), DOMAIN s \subseteq Nat, \A u \in DOMAIN s : s[u] \in Int,
         NEW start \in Nat, NEW stop \in Nat
  PROVE  Rows(s, start, stop) =
            {<<u, Rank(s, u)>> : u \in {v \in DOMAIN s : Rank(s, v) - 1 \in start..stop}}
<1> DEFINE size == Cardinality(DOMAIN s)
           last == IF stop < size THEN stop ELSE size - 1
           shown == {v \in DOMAIN s : Rank(s, v) - 1 \in start..last}
           slice == {<<u, Rank(s, u) - start>> : u \in shown}
<1>1. RevRange(s, start, stop) = slice BY DEF RevRange
<1>2. \A u \in DOMAIN s : size \in Nat /\ Rank(s, u) \in 1..size BY RankIsPlace
<1>3. shown = {v \in DOMAIN s : Rank(s, v) - 1 \in start..stop} BY <1>2
<1>4. \A u \in shown : start + (Rank(s, u) - start) = Rank(s, u) BY <1>2
<1>5. Rows(s, start, stop) = {<<m[1], start + m[2]>> : m \in slice} BY <1>1 DEF Rows
<1> HIDE DEF shown
<1> DEFINE rows == {<<m[1], start + m[2]>> : m \in slice}
           same == {<<u, start + (Rank(s, u) - start)>> : u \in shown}
<1>6. rows = same
  <2>1. ASSUME NEW m \in slice PROVE <<m[1], start + m[2]>> \in same
    <3>1. PICK u \in shown : m = <<u, Rank(s, u) - start>> OBVIOUS
    <3>2. m[1] = u /\ m[2] = Rank(s, u) - start BY <3>1
    <3> QED BY <3>2
  <2>2. ASSUME NEW u \in shown PROVE <<u, start + (Rank(s, u) - start)>> \in rows
    <3> DEFINE m == <<u, Rank(s, u) - start>>
    <3>1. m \in slice /\ m[1] = u /\ m[2] = Rank(s, u) - start OBVIOUS
    <3> HIDE DEF slice, m
    <3>2. <<m[1], start + m[2]>> \in rows BY <3>1
    <3> QED BY <3>1, <3>2
  <2> QED BY <2>1, <2>2
<1> HIDE DEF slice
<1>7. same = {<<u, Rank(s, u)>> : u \in shown}
  BY <1>4
<1> QED BY <1>3, <1>5, <1>6, <1>7

LEMMA NeighboursStep ==
  ASSUME NEW s, IsFiniteSet(DOMAIN s), DOMAIN s \subseteq Nat, \A u \in DOMAIN s : s[u] \in Int,
         NEW u \in DOMAIN s, NEW k \in 0..1
  PROVE  /\ AroundMe(s, u, k) =
               {<<w, Rank(s, w)>> : w \in {v \in DOMAIN s :
                   Rank(s, v) \in (Rank(s, u) - k)..(Rank(s, u) + k)}}
         /\ \A n \in 1..Cardinality(DOMAIN s) :
               <<u, n>> \in Page(s, u, k + 1).rows <=> n = Page(s, u, k + 1).mine /\ n <= k + 1
<1> DEFINE P == Rank(s, u) - 1
           start == Window(P, k)
<1>1. \A v \in DOMAIN s : Cardinality(DOMAIN s) \in Nat /\ Rank(s, v) \in 1..Cardinality(DOMAIN s)
  BY RankIsPlace
<1>2. P \in Nat /\ start \in Nat /\ P + k \in Nat BY <1>1 DEF Window
<1>3. \A v \in DOMAIN s : Rank(s, v) - 1 \in start..(P + k) <=>
                             Rank(s, v) \in (Rank(s, u) - k)..(Rank(s, u) + k)
  BY <1>1 DEF Window
<1>4. AroundMe(s, u, k) = Rows(s, start, P + k) BY DEF AroundMe
<1> HIDE DEF start, P
<1>5. Rows(s, start, P + k) =
         {<<w, Rank(s, w)>> : w \in {v \in DOMAIN s : Rank(s, v) - 1 \in start..(P + k)}}
  BY <1>2, RowsAreRanks
<1>6. {v \in DOMAIN s : Rank(s, v) - 1 \in start..(P + k)} =
         {v \in DOMAIN s : Rank(s, v) \in (Rank(s, u) - k)..(Rank(s, u) + k)}
  BY <1>3
<1>7. Page(s, u, k + 1).mine = Rank(s, u) /\ Page(s, u, k + 1).rows = Rows(s, 0, k)
  <2>1. (k + 1) - 1 = k OBVIOUS
  <2> QED BY <2>1 DEF Page, Top
<1>8. Rows(s, 0, k) = {<<w, Rank(s, w)>> : w \in {v \in DOMAIN s : Rank(s, v) - 1 \in 0..k}}
  BY RowsAreRanks
<1>9. ASSUME NEW n \in 1..Cardinality(DOMAIN s)
      PROVE  <<u, n>> \in Rows(s, 0, k) <=> n = Rank(s, u) /\ n <= k + 1
  <2>1. <<u, n>> \in Rows(s, 0, k) <=> n = Rank(s, u) /\ Rank(s, u) - 1 \in 0..k BY <1>8
  <2>2. Rank(s, u) - 1 \in 0..k <=> Rank(s, u) <= k + 1 BY <1>1
  <2> QED BY <2>1, <2>2
<1> QED BY <1>4, <1>5, <1>6, <1>7, <1>9

LEMMA NeighboursHold == ASSUME BoardsInv PROVE NeighboursUnderTheirRank
<1>1. entries \in Seq(EntryRows) /\ \A b \in DOMAIN boards : ScoresSound(entries, boards[b], b)
  BY DEF BoardsInv, BoardsTyped, BoardsSoundIn
<1>2. ASSUME NEW b \in DOMAIN boards
      PROVE  /\ IsFiniteSet(DOMAIN boards[b]) /\ DOMAIN boards[b] \subseteq Nat
             /\ \A u \in DOMAIN boards[b] : boards[b][u] \in Int
  BY <1>1, ShownSums
<1> QED BY <1>2, NeighboursStep DEF NeighboursUnderTheirRank

\* When nothing runs and nothing was disturbed, the boards are those of the ledger.
LEMMA QuietHold == ASSUME BoardsInv PROVE QuietBoardsExact
<1> SUFFICES ASSUME Quiet, ~disturbed PROVE boards = [b \in Backed |-> RangeScores(b)]
  BY DEF QuietBoardsExact
<1>1. /\ BoardsTyped /\ NothingOverlaps /\ jobs = {} /\ entries \in Seq(EntryRows)
      /\ boards = [b \in DOMAIN boards |-> boards[b]] /\ DOMAIN boards \subseteq Keys
      /\ \A b \in DOMAIN boards : DOMAIN boards[b] # {} /\ ScoresSound(entries, boards[b], b)
  BY DEF BoardsInv, BoardsTyped, Quiet, BoardsSoundIn
<1>2. \A i \in DOMAIN entries : entries[i] \in EntryRows BY <1>1
<1>3. \A b \in Keys : \A u \in Earners : Right(entries, On(boards, b), u, b)
  BY <1>1 DEF NothingOverlaps, RightOrDue, Due
<1>4. \A b : b \in Backed <=> \E i \in DOMAIN entries : InBoard(entries[i], b)
  BY DEF Backed, InBoard
<1>5. ASSUME NEW i \in DOMAIN entries, NEW b, InBoard(entries[i], b)
      PROVE  b \in Keys /\ b \in DOMAIN boards
  <2>1. entries[i].day \in Days /\ entries[i].user \in Earners BY <1>2 DEF EntryRows
  <2>2. b \in Keys BY <1>5, <2>1 DEF InBoard, Keys
  <2>3. entries[i].user \in DOMAIN On(boards, b) BY <1>3, <1>5, <2>1, <2>2 DEF Right, Touches
  <2>4. DOMAIN NoScores = {} BY DEF NoScores
  <2> QED BY <2>2, <2>3, <2>4 DEF On
<1>6. ASSUME NEW b \in DOMAIN boards PROVE b \in Backed /\ boards[b] = RangeScores(b)
  <2> DEFINE s == boards[b]
  <2>1. s = [u \in DOMAIN s |-> s[u]] /\ DOMAIN s \subseteq Earners /\ DOMAIN s # {}
    BY <1>1 DEF ScoresSound
  <2>2. \A u \in Earners : Right(entries, s, u, b) BY <1>1, <1>3 DEF On
  <2>3. RangeScores(b) = [u \in Members(b) |-> RangeScores(b)[u]]
        /\ \A u \in Members(b) : RangeScores(b)[u] = SumIn(entries, u, b, Len(entries))
    BY ScoresAreSums DEF RangeScores
  <2>4. \A u : u \in Members(b) <=> \E i \in DOMAIN entries : Touches(entries, i, u, b)
    BY DEF Members, Touches
  <2>5. Members(b) \subseteq Earners BY <1>2, <2>4 DEF Touches, EntryRows
  <2> HIDE DEF s
  <2>6. DOMAIN s = Members(b) /\ \A u \in DOMAIN s : s[u] = SumIn(entries, u, b, Len(entries))
    BY <2>1, <2>2, <2>4, <2>5 DEF Right
  <2>7. s = RangeScores(b) BY <2>1, <2>3, <2>6
  <2>8. b \in Backed BY <1>4, <2>1, <2>4, <2>6 DEF Touches
  <2> QED BY <2>7, <2>8 DEF s
<1>7. DOMAIN boards = Backed BY <1>4, <1>5, <1>6
<1> QED BY <1>1, <1>6, <1>7

LEMMA LeastOfSet ==
  ASSUME NEW D \in SUBSET Nat, NEW n \in D
  PROVE  Min(D) \in Nat /\ Min(D) <= n
BY SmallestNumber

LEMMA BestMonthHolds == ASSUME BoardsInv PROVE BestMonthIsBest
<1> SUFFICES ASSUME Quiet, ~disturbed, NEW i \in DOMAIN entries
             PROVE  BestMonthRank(entries[i].user) <= Rank(BoardOf(Monthly(entries[i].day)), entries[i].user)
  BY DEF BestMonthIsBest, Growth
<1> DEFINE u == entries[i].user
           b == Monthly(entries[i].day)
           ranks == MonthRanks(u)
           rank(s) == Cardinality(Ahead(s, u)) + 1
<1>1. BoardsTyped /\ boards = [c \in Backed |-> RangeScores(c)]
  BY QuietHold DEF BoardsInv, QuietBoardsExact
<1>2. BoardOf(b) = RangeScores(b) BY <1>1 DEF BoardOf, Backed
<1>3. ASSUME NEW c
      PROVE  /\ IsFiniteSet(DOMAIN RangeScores(c)) /\ DOMAIN RangeScores(c) \subseteq Nat
             /\ \A v \in DOMAIN RangeScores(c) : RangeScores(c)[v] \in Int
  <2>1. ScoresSound(entries, RangeScores(c), c) /\ entries \in Seq(EntryRows)
    BY <1>1, RangesAreRight DEF BoardsTyped
  <2> QED BY <2>1, ShownSums
<1>4. ASSUME NEW c PROVE rank(RangeScores(c)) \in Nat
  <2>1. Ahead(RangeScores(c), u) \subseteq DOMAIN RangeScores(c) BY DEF Ahead
  <2>2. IsFiniteSet(Ahead(RangeScores(c), u)) BY <1>3, <2>1, FS_Subset
  <2> QED BY <2>2, FS_CardinalityType
<1>5. ranks \subseteq Nat /\ rank(RangeScores(b)) \in ranks BY <1>4 DEF MonthRanks
<1>6. rank(RangeScores(b)) <= Rank(RangeScores(b), u)
  <2> DEFINE s == RangeScores(b)
  <2>1. Ahead(s, u) \subseteq Above(s, u) /\ Above(s, u) \subseteq DOMAIN s BY DEF Ahead, Above
  <2>2. IsFiniteSet(Above(s, u)) BY <1>3, <2>1, FS_Subset
  <2>3. Cardinality(Ahead(s, u)) <= Cardinality(Above(s, u)) BY <2>1, <2>2, FS_Subset
  <2>4. Cardinality(Above(s, u)) \in Nat BY <2>2, FS_CardinalityType
  <2>5. Cardinality(Ahead(s, u)) \in Nat BY <2>1, <2>2, FS_Subset, FS_CardinalityType
  <2> HIDE DEF s
  <2> QED BY <2>3, <2>4, <2>5 DEF Rank, s
<1>7. Rank(RangeScores(b), u) \in Int
  <2> DEFINE s == RangeScores(b)
  <2>1. Above(s, u) \subseteq DOMAIN s BY DEF Above
  <2>2. Cardinality(Above(s, u)) \in Nat BY <1>3, <2>1, FS_Subset, FS_CardinalityType
  <2> QED BY <2>2 DEF Rank
<1>8. PICK r : r = rank(RangeScores(b)) OBVIOUS
<1>9. PICK best : best = BestMonthRank(u) OBVIOUS
<1>10. best \in Nat /\ best <= r
  <2>1. best = Min(ranks) BY <1>9 DEF BestMonthRank
  <2> HIDE DEF ranks, rank
  <2> QED BY <1>5, <1>8, <2>1, LeastOfSet
<1>11. r \in Nat /\ r <= Rank(RangeScores(b), u) BY <1>4, <1>6, <1>8
<1> HIDE DEF u, b
<1>12. best <= Rank(RangeScores(b), u) BY <1>7, <1>10, <1>11
<1> QED BY <1>2, <1>9, <1>12 DEF u, b

LEMMA TypesHold == ASSUME BoardsInv PROVE RankingTypeOK /\ BoardShowsSomeSum
<1>1. /\ BoardsTyped /\ entries \in Seq(EntryRows) /\ BoardsSoundIn(entries, boards)
      /\ faults \in 0..MaxFaults /\ jobs \subseteq DOMAIN entries
  BY DEF BoardsInv, BoardsTyped
<1>2. \A i \in DOMAIN entries : entries[i].user \in Earners /\ entries[i].day \in Days
  <2>1. \A i \in DOMAIN entries : entries[i] \in EntryRows BY <1>1
  <2> QED BY <2>1 DEF EntryRows
<1>3. \A b \in DOMAIN boards : DOMAIN boards[b] # {} /\ DOMAIN boards[b] \subseteq Earners
  BY <1>1 DEF BoardsSoundIn, ScoresSound
<1>4. ASSUME NEW w \in Projectors, projector[w] # Idle
      PROVE  projector[w].written < Len(Targets(projector[w]))
  <2>1. projector[w].written \in 0..2 BY <1>1, <1>4 DEF BoardsTyped, WorkSound
  <2>2. Len(Targets(projector[w])) = 3 BY ThreeBoards DEF Targets
  <2> QED BY <2>1, <2>2
<1>5. rebuild # Idle => rebuild.todo \subseteq rebuild.targets BY <1>1 DEF BoardsTyped, RebuildShaped
<1>6. BoardShowsSomeSum
  BY <1>1, ScoresAreSums DEF BoardShowsSomeSum, BoardsSoundIn, ScoresSound, SomeSum
<1>7. faults <= MaxFaults BY <1>1
<1> QED BY <1>1, <1>2, <1>3, <1>4, <1>5, <1>6, <1>7 DEF RankingTypeOK

\* Whatever is lost, repeated, overtaken or rebuilt, a board shows sums of the
\* ledger, boards that nothing disturbed are those of the ledger once all is
\* quiet, and what is read from them agrees with what they hold.
THEOREM BoardsAlwaysSound == RankingSpec => []BoardsSound
<1>1. RankingInit => BoardsInv BY BoardsStart
<1>2. BoardsInv /\ [RankingNext]_rankingVars => BoardsInv' BY BoardsStep
<1>3. BoardsInv => BoardsSound
  BY TypesHold, QuietHold, NeighboursHold, BestMonthHolds DEF BoardsSound
<1> QED BY <1>1, <1>2, <1>3, PTL DEF RankingSpec

================================================================================
