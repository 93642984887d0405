-------------------------- MODULE EvaluatorProofs --------------------------
(***************************************************************************)
(* The matching of any findings with any benchmark.                        *)
(***************************************************************************)
EXTENDS Evaluator, FiniteSetTheorems, TLAPS

(* Parts of a list are finite sets of indexes.                             *)
LEMMA IndexesFinite ==
  ASSUME NEW n \in Nat, NEW S, S \subseteq 1..n
  PROVE  IsFiniteSet(S) /\ Cardinality(S) \in Nat
<1>1. IsFiniteSet(1..n)
  BY FS_Interval
<1> QED
  BY <1>1, FS_Subset, FS_CardinalityType

(* What the lists are made of.                                             *)
LEMMA ListTypes ==
  ASSUME TypeOK
  PROVE  /\ truths \in Seq(Truths) /\ findings \in Seq(Findings)
         /\ Len(truths) \in Nat /\ Len(findings) \in Nat /\ Len(match) \in Nat
         /\ \A i \in 1..Len(match) : match[i] \in 0..Len(findings)
         /\ Unmatched \subseteq 1..Len(findings)
         /\ Found \subseteq 1..Len(match) /\ Missed \subseteq 1..Len(match)
<1>1. truths \in Seq(Truths) /\ findings \in Seq(Findings)
  <2>1. <<>> \in Seq(Findings)
    OBVIOUS
  <2> QED BY <2>1, ListsAssumption DEF TypeOK
<1>2. Len(truths) \in Nat /\ Len(findings) \in Nat
  BY <1>1
<1>3. match \in Seq(0..Len(findings))
  BY DEF TypeOK
<1>4. Len(match) \in Nat /\ \A i \in 1..Len(match) : match[i] \in 0..Len(findings)
  BY <1>3
<1> QED
  BY <1>1, <1>2, <1>4 DEF Unmatched, Found, Missed

(* A score is a natural number.                                            *)
LEMMA ScoreType ==
  ASSUME NEW f, NEW t
  PROVE  Score(f, t) \in Nat
<1>1. \A c, p : p \in Nat => Points(c, p) \in Nat
  BY DEF Points
<1>2. Total(f, t) \in Nat
  BY <1>1 DEF Total
<1> QED
  BY <1>2 DEF Score

(* What is counted is a result.                                            *)
LEMMA AccuracyType == TypeOK => Accuracy \in Results
<1> SUFFICES ASSUME TypeOK PROVE Accuracy \in Results
  OBVIOUS
<1>1. /\ Cardinality(Found) \in Nat /\ Cardinality(Missed) \in Nat
      /\ Cardinality(Unmatched) \in Nat
  BY ListTypes, IndexesFinite
<1>2. cost.seconds \in Nat /\ cost.calls \in Nat
  BY DEF TypeOK
<1> QED
  BY <1>1, <1>2 DEF Accuracy, Results

(* A turn of the loop appends one finding or none.                         *)
LEMMA AppendType ==
  ASSUME TypeOK, Matching, NEW j \in 0..Len(findings),
         match' = Append(match, j),
         UNCHANGED <<truths, place, profile, findings, cost, files, verdict, runs>>
  PROVE  TypeOK'
<1>1. Len(match') = Len(match) + 1 /\ match' \in Seq(0..Len(findings))
  BY DEF TypeOK
<1>2. Len(match') <= Len(truths)
  BY <1>1, ListTypes DEF Matching, TypeOK
<1> QED
  BY <1>1, <1>2 DEF TypeOK

(* Every step keeps the types.                                             *)
LEMMA TypeStep == TypeOK /\ [Next]_vars => TypeOK'
<1> SUFFICES ASSUME TypeOK, [Next]_vars PROVE TypeOK'
  OBVIOUS
<1>1. ASSUME NEW p \in Profiles, NEW fs \in Scanned, NEW c \in Costs,
             Begin(p, fs, c)
      PROVE  TypeOK'
  <2>1. cost' \in [seconds : Nat, calls : Nat] /\ runs' \in 0..MaxRuns
    BY <1>1, ListsAssumption, LimitsAssumption DEF Begin, TypeOK
  <2>2. match' \in Seq(0..Len(findings')) /\ Len(match') <= Len(truths')
    <3>1. match' = <<>> /\ truths' = truths /\ Len(truths) \in Nat
      BY <1>1, ListTypes DEF Begin
    <3> QED BY <3>1
  <2> QED
    BY <1>1, <2>1, <2>2, ListsAssumption DEF Begin, TypeOK
<1>2. ASSUME NEW j \in 1..Len(findings), MatchTruth(j)
      PROVE  TypeOK'
  BY <1>2, AppendType DEF MatchTruth
<1>3. CASE MissTruth
  <2>1. 0 \in 0..Len(findings)
    BY ListTypes
  <2> QED
    BY <1>3, <2>1, AppendType DEF MissTruth
<1>4. CASE Save
  <2>1. files' \in [Profiles -> Results \cup {NoResult}]
    BY <1>4, AccuracyType DEF Save, TypeOK
  <2> QED
    BY <1>4, <2>1 DEF Save, TypeOK
<1>5. CASE EvaluationFails
  BY <1>5 DEF EvaluationFails, TypeOK
<1>6. ASSUME NEW p \in Profiles, NEW q \in Profiles, Compare(p, q)
      PROVE  TypeOK'
  BY <1>6 DEF Compare, TypeOK
<1>7. CASE UNCHANGED vars
  BY <1>7 DEF vars, TypeOK
<1> QED
  BY <1>1, <1>2, <1>3, <1>4, <1>5, <1>6, <1>7 DEF Next

(* The types hold before the first evaluation.                             *)
LEMMA TypeInit == Init => TypeOK
<1> SUFFICES ASSUME Init PROVE TypeOK
  OBVIOUS
<1>1. truths \in Seq(Truths) /\ Len(truths) \in Nat
  BY ListsAssumption DEF Init
<1> QED
  BY <1>1, LimitsAssumption DEF Init, TypeOK, NoVerdict

(* Type correctness: counts of any evaluation are natural numbers.         *)
THEOREM TypeCorrect == Spec => []TypeOK
BY TypeInit, TypeStep, PTL DEF Spec
-----------------------------------------------------------------------------
(* After a turn of the loop the list of matches has one more entry, and    *)
(* its finding is no longer free.                                          *)
LEMMA AppendMatch ==
  ASSUME TypeOK, NEW j \in 0..Len(findings), match' = Append(match, j),
         UNCHANGED <<truths, findings>>
  PROVE  /\ Len(match') = Len(match) + 1 /\ match'[Len(match) + 1] = j
         /\ \A i \in 1..Len(match) : match'[i] = match[i]
         /\ Unmatched' = Unmatched \ {j}
<1>1. /\ Len(match') = Len(match) + 1 /\ match'[Len(match) + 1] = j
      /\ \A i \in 1..Len(match) : match'[i] = match[i]
  BY DEF TypeOK
<1>2. 1..Len(match') = 1..Len(match) \cup {Len(match) + 1}
  BY <1>1, ListTypes
<1>3. {match'[i] : i \in 1..Len(match')}
        = {match[i] : i \in 1..Len(match)} \cup {j}
  BY <1>1, <1>2
<1> QED
  BY <1>1, <1>3 DEF Unmatched

(* Every step keeps what is left worse than what is matched.               *)
LEMMA BetterStep == TypeOK /\ NoBetterLeft /\ [Next]_vars => NoBetterLeft'
<1> SUFFICES ASSUME TypeOK, NoBetterLeft, [Next]_vars PROVE NoBetterLeft'
  OBVIOUS
<1>1. ASSUME NEW j \in 0..Len(findings), Matching, match' = Append(match, j),
             UNCHANGED <<truths, findings>>,
             j = 0 => \A k \in Unmatched :
                        Score(findings[k], ThisTruth) < Threshold,
             j # 0 => j \in Unmatched /\ Wins(j, ThisTruth)
      PROVE  NoBetterLeft'
  <2> DEFINE n == Len(match)
  <2>1. /\ Len(match') = n + 1 /\ match'[n + 1] = j /\ n \in Nat
        /\ \A i \in 1..n : match'[i] = match[i]
        /\ Unmatched' = Unmatched \ {j}
    BY <1>1, AppendMatch, ListTypes
  <2>2. ASSUME NEW i \in 1..(n + 1), NEW k \in 1..(n + 1),
               match'[i] # 0, match'[i] = match'[k]
        PROVE  i = k
    <3>1. ASSUME NEW l \in 1..n, j # 0
          PROVE  match[l] # j
      BY <1>1, <3>1 DEF Unmatched
    <3> QED
      BY <2>1, <2>2, <3>1 DEF NoBetterLeft
  <2>3. ASSUME NEW i \in 1..(n + 1), NEW k \in Unmatched \ {j}
        PROVE  IF match'[i] = 0 THEN Score(findings[k], truths[i]) < Threshold
               ELSE Score(findings[k], truths[i])
                      <= Score(findings[match'[i]], truths[i])
    <3>1. CASE i \in 1..n
      BY <2>1, <3>1 DEF NoBetterLeft
    <3>2. CASE i = n + 1
      <4>1. truths[i] = ThisTruth /\ match'[i] = j
        BY <2>1, <3>2 DEF ThisTruth
      <4>2. CASE j = 0
        BY <1>1, <4>1, <4>2
      <4>3. CASE j # 0
        <5>1. \/ Score(findings[k], ThisTruth) < Score(findings[j], ThisTruth)
              \/ Score(findings[k], ThisTruth) = Score(findings[j], ThisTruth)
          BY <1>1, <4>3 DEF Wins
        <5> QED
          BY <4>1, <4>3, <5>1, ScoreType
      <4> QED BY <4>2, <4>3
    <3> QED BY <2>1, <3>1, <3>2
  <2> QED
    BY <1>1, <2>1, <2>2, <2>3 DEF NoBetterLeft
<1>2. ASSUME NEW p \in Profiles, NEW fs \in Scanned, NEW c \in Costs,
             Begin(p, fs, c)
      PROVE  NoBetterLeft'
  BY <1>2 DEF Begin, NoBetterLeft
<1>3. ASSUME NEW j \in 1..Len(findings), MatchTruth(j)
      PROVE  NoBetterLeft'
  BY <1>1, <1>3, ListTypes DEF MatchTruth
<1>4. CASE MissTruth
  <2>1. 0 \in 0..Len(findings)
    BY ListTypes
  <2> QED
    BY <1>1, <1>4, <2>1 DEF MissTruth
<1>5. ASSUME UNCHANGED <<truths, findings, match>>
      PROVE  NoBetterLeft'
  BY <1>5 DEF NoBetterLeft, Unmatched
<1> QED
  BY <1>2, <1>3, <1>4, <1>5 DEF Next, Save, EvaluationFails, Compare, vars

(* No false positive would have been the better match of a truth, and no   *)
(* finding answers for two.                                                *)
THEOREM MatchedBest == Spec => []NoBetterLeft
<1>1. Init => NoBetterLeft
  BY DEF Init, NoBetterLeft
<1> QED
  BY <1>1, TypeCorrect, BetterStep, PTL DEF Spec
-----------------------------------------------------------------------------
(* A result is made when every truth has had its turn.                     *)
TurnsInv == Over => Len(match) = Len(truths)

LEMMA TurnsInvariant == Spec => []TurnsInv
<1>1. Init => TurnsInv
  BY DEF Init, TurnsInv, Over
<1>2. TurnsInv /\ [Next]_vars => TurnsInv'
  BY DEF TurnsInv, Over, Next, Begin, MatchTruth, MissTruth, Matching, Save,
         EvaluationFails, Compare, vars
<1> QED
  BY <1>1, <1>2, PTL DEF Spec

(* A part of 1..n and what is left of it are n together.                   *)
LEMMA PartCounted ==
  ASSUME NEW n \in Nat, NEW R, R \subseteq 1..n
  PROVE  Cardinality(R) + Cardinality((1..n) \ R) = n
<1>1. IsFiniteSet(1..n) /\ Cardinality(1..n) = n
  BY FS_Interval
<1>2. (1..n) \cap R = R
  OBVIOUS
<1>3. Cardinality((1..n) \ R) = Cardinality(1..n) - Cardinality((1..n) \cap R)
  BY <1>1, FS_Difference
<1>4. Cardinality(R) \in Nat
  BY IndexesFinite
<1>5. Cardinality((1..n) \ R) = n - Cardinality(R)
  BY <1>1, <1>2, <1>3
<1> QED BY <1>4, <1>5

(* Every truth that has had its turn is found or missed.                   *)
LEMMA TruthsCounted ==
  ASSUME TypeOK
  PROVE  Cardinality(Found) + Cardinality(Missed) = Len(match)
<1>1. Len(match) \in Nat /\ Found \subseteq 1..Len(match)
  BY ListTypes
<1>2. Missed = (1..Len(match)) \ Found
  BY DEF Missed, Found
<1> QED BY <1>1, <1>2, PartCounted

(* Every finding is a match or left over, since none is matched twice.     *)
LEMMA FindingsCounted ==
  ASSUME TypeOK, NoBetterLeft
  PROVE  Cardinality(Found) + Cardinality(Unmatched) = Len(findings)
<1> DEFINE R == {match[i] : i \in Found}
           f == [i \in Found |-> match[i]]
<1>1. /\ Len(findings) \in Nat /\ Found \subseteq 1..Len(match) /\ Len(match) \in Nat
      /\ \A i \in 1..Len(match) : match[i] \in 0..Len(findings)
  BY ListTypes
<1>2. R \subseteq 1..Len(findings)
  BY <1>1 DEF Found
<1>3. Unmatched = (1..Len(findings)) \ R
  BY <1>1 DEF Unmatched, Found
<1>4. f \in Surjection(Found, R) /\ f \in Injection(Found, R)
  <2>1. f \in Surjection(Found, R)
    BY DEF Surjection
  <2>2. f \in Injection(Found, R)
    BY <1>1 DEF Injection, IsInjective, NoBetterLeft, Found
  <2> QED BY <2>1, <2>2
<1>5. IsFiniteSet(Found)
  BY <1>1, IndexesFinite
<1>6. Cardinality(R) = Cardinality(Found)
  BY <1>4, <1>5, FS_Surjection
<1> HIDE DEF R
<1>7. Len(findings) \in Nat
  BY <1>1
<1>8. Cardinality(R) + Cardinality((1..Len(findings)) \ R) = Len(findings)
  BY <1>2, <1>7, PartCounted
<1> QED BY <1>3, <1>6, <1>8

(* So it is within each severity.                                          *)
LEMMA SeveritiesCounted ==
  ASSUME TypeOK, Len(match) = Len(truths), NEW s
  PROVE  OfSeverity(Found, s) + OfSeverity(Missed, s)
           = Cardinality({i \in 1..Len(truths) : truths[i].severity = s})
<1> DEFINE A == {i \in Found : truths[i].severity = s}
           B == {i \in Missed : truths[i].severity = s}
           C == {i \in 1..Len(truths) : truths[i].severity = s}
<1>1. C = A \cup B /\ A \cap B = {}
  BY DEF Found, Missed
<1>2. A \subseteq 1..Len(match) /\ B \subseteq 1..Len(match) /\ Len(match) \in Nat
  BY ListTypes
<1>3. /\ IsFiniteSet(A) /\ IsFiniteSet(B)
      /\ Cardinality(A) \in Nat /\ Cardinality(B) \in Nat
  BY <1>2, IndexesFinite
<1>4. Cardinality(A \cup B)
        = Cardinality(A) + Cardinality(B) - Cardinality(A \cap B)
  BY <1>3, FS_Union
<1>5. Cardinality(A \cap B) = 0
  BY <1>1, FS_EmptySet
<1> HIDE DEF A, B, C
<1>6. Cardinality(C) = Cardinality(A) + Cardinality(B)
  BY <1>1, <1>3, <1>4, <1>5
<1> QED BY <1>6 DEF OfSeverity, A, B, C

(* No more matches than findings have a status.                            *)
LEMMA StatusCounted ==
  ASSUME TypeOK, NoBetterLeft, NEW s
  PROVE  FoundWith(s) <= ListedWith(s)
<1> DEFINE A == {i \in Found : findings[match[i]].status = s}
           B == {j \in 1..Len(findings) : findings[j].status = s}
           f == [i \in A |-> match[i]]
<1>1. /\ Len(findings) \in Nat /\ Found \subseteq 1..Len(match)
      /\ \A i \in 1..Len(match) : match[i] \in 0..Len(findings)
  BY ListTypes
<1>2. \A i \in A : match[i] \in B
  BY <1>1 DEF Found
<1>3. f \in Injection(A, B)
  BY <1>1, <1>2 DEF Injection, IsInjective, NoBetterLeft, Found
<1>4. IsFiniteSet(B)
  BY <1>1, IndexesFinite
<1>5. Cardinality(A) <= Cardinality(B)
  BY <1>3, <1>4, FS_Injection
<1> QED BY <1>5 DEF FoundWith, ListedWith

(* The parts of every result agree.                                        *)
THEOREM ResultCorrect == Spec => []ResultAddsUp
<1>1. TypeOK /\ NoBetterLeft /\ TurnsInv => ResultAddsUp
  <2> SUFFICES ASSUME TypeOK, NoBetterLeft, TurnsInv, Over PROVE ResultAddsUp
    BY DEF ResultAddsUp
  <2>1. Len(match) = Len(truths)
    BY DEF TurnsInv
  <2>2. /\ Accuracy.tp + Accuracy.fn = Len(truths)
        /\ Accuracy.tp + Accuracy.fp = Len(findings)
    BY <2>1, TruthsCounted, FindingsCounted DEF Accuracy
  <2>3. ASSUME NEW i \in Found, SameCwe(findings[match[i]], truths[i])
        PROVE  Attributed(truths[i])
    <3>1. match[i] \in 1..Len(findings)
      BY ListTypes DEF Found
    <3> QED BY <2>3, <3>1 DEF Attributed, ComesFrom
  <2> QED
    BY <2>1, <2>2, <2>3, SeveritiesCounted, StatusCounted DEF ResultAddsUp
<1> QED
  BY <1>1, TypeCorrect, MatchedBest, TurnsInvariant, PTL
-----------------------------------------------------------------------------
(* A truth that was missed could only have had a finding that went to      *)
(* another truth, for what is left over does not reach the threshold.      *)
LEMMA MissedNeedsMatched ==
  ASSUME TypeOK, NoBetterLeft, Len(match) = Len(truths),
         NEW m \in Matchings, NEW i \in Missed, m[i] # 0
  PROVE  m[i] \in {match[k] : k \in Found}
<1>1. i \in 1..Len(match) /\ i \in 1..Len(truths) /\ match[i] = 0
  BY ListTypes DEF Missed
<1>2. m[i] \in 1..Len(findings) /\ Score(findings[m[i]], truths[i]) >= Threshold
  BY <1>1, ListTypes DEF Matchings
<1>3. \A j \in Unmatched : Score(findings[j], truths[i]) < Threshold
  BY <1>1 DEF NoBetterLeft
<1>4. m[i] \notin Unmatched
  BY <1>2, <1>3, ScoreType DEF Threshold
<1>5. PICK k \in 1..Len(match) : match[k] = m[i]
  BY <1>2, <1>4 DEF Unmatched
<1> QED
  BY <1>5 DEF Found

(* The findings that are matched are as many as the truths found.          *)
LEMMA MatchedCounted ==
  ASSUME TypeOK
  PROVE  /\ IsFiniteSet({match[k] : k \in Found})
         /\ Cardinality({match[k] : k \in Found}) <= Cardinality(Found)
<1> DEFINE R == {match[k] : k \in Found}
           f == [k \in Found |-> match[k]]
<1>1. f \in Surjection(Found, R)
  BY DEF Surjection
<1>2. IsFiniteSet(Found)
  BY ListTypes, IndexesFinite
<1> HIDE DEF R, f
<1>3. IsFiniteSet(R) /\ Cardinality(R) <= Cardinality(Found)
  BY <1>1, <1>2, FS_Surjection
<1> QED BY <1>3 DEF R

(* No assignment finds more than the truths found and, for each finding    *)
(* matched, the one it would have answered for instead.                    *)
LEMMA HalfFound ==
  ASSUME TypeOK, NoBetterLeft, Len(match) = Len(truths), NEW m \in Matchings
  PROVE  Cardinality({i \in 1..Len(truths) : m[i] # 0}) <= 2 * Cardinality(Found)
<1> DEFINE W == {i \in 1..Len(truths) : m[i] # 0}
           L == {i \in Missed : m[i] # 0}
           R == {match[k] : k \in Found}
           f == [i \in L |-> m[i]]
<1>1. /\ Len(match) \in Nat /\ Found \subseteq 1..Len(match)
      /\ Missed \subseteq 1..Len(match)
  BY ListTypes
<1>2. W \subseteq Found \cup L
  BY DEF Found, Missed
<1>3. f \in Injection(L, R)
  <2>1. \A i \in L : m[i] \in R
    BY MissedNeedsMatched
  <2>2. \A i, k \in L : m[i] = m[k] => i = k
    BY <1>1 DEF Matchings
  <2> QED BY <2>1, <2>2 DEF Injection, IsInjective
<1>4. IsFiniteSet(R) /\ Cardinality(R) <= Cardinality(Found)
  BY MatchedCounted
<1>5. /\ IsFiniteSet(Found) /\ Cardinality(Found) \in Nat
      /\ IsFiniteSet(L) /\ Cardinality(L) \in Nat
      /\ IsFiniteSet(W) /\ Cardinality(W) \in Nat
      /\ Cardinality(Found \cap L) \in Nat
  <2>1. /\ L \subseteq 1..Len(match) /\ W \subseteq 1..Len(match)
        /\ Found \cap L \subseteq 1..Len(match)
    BY <1>1
  <2> HIDE DEF L, W
  <2> QED BY <1>1, <2>1, IndexesFinite
<1> HIDE DEF W, L, R, f
<1>6. Cardinality(L) <= Cardinality(R)
  BY <1>3, <1>4, FS_Injection
<1>7. Cardinality(R) \in Nat
  BY <1>4, FS_CardinalityType
<1>8. /\ IsFiniteSet(Found \cup L)
      /\ Cardinality(Found \cup L)
           = Cardinality(Found) + Cardinality(L) - Cardinality(Found \cap L)
  BY <1>5, FS_Union
<1>9. Cardinality(W) <= Cardinality(Found \cup L)
  BY <1>2, <1>8, FS_Subset
<1>10. Cardinality(W) <= 2 * Cardinality(Found)
  BY <1>4, <1>5, <1>6, <1>7, <1>8, <1>9
<1> QED BY <1>10 DEF W

(* At least half of what the best assignment would have found is counted   *)
(* as found.                                                               *)
THEOREM HalfFoundCorrect == Spec => []HalfOfBest
<1>1. TypeOK /\ NoBetterLeft /\ TurnsInv => HalfOfBest
  BY HalfFound DEF HalfOfBest, TurnsInv
<1> QED
  BY <1>1, TypeCorrect, MatchedBest, TurnsInvariant, PTL
-----------------------------------------------------------------------------
(* Every saved result is about all truths of the benchmark.                *)
FilesInv ==
  \A p \in Profiles :
    files[p] # NoResult => files[p].tp + files[p].fn = Len(truths)

LEMMA FilesInvariant == Spec => []FilesInv
<1>1. Init => FilesInv
  BY DEF Init, FilesInv
<1>2. TypeOK /\ FilesInv /\ [Next]_vars => FilesInv'
  <2> SUFFICES ASSUME TypeOK, FilesInv, [Next]_vars PROVE FilesInv'
    OBVIOUS
  <2>1. CASE Save
    <3>1. Accuracy.tp + Accuracy.fn = Len(truths)
      BY <2>1, TruthsCounted DEF Save, Accuracy
    <3>2. truths' = truths /\ files' = [files EXCEPT ![profile] = Accuracy]
      BY <2>1 DEF Save
    <3>3. \A p \in Profiles : files'[p] = Accuracy \/ files'[p] = files[p]
      BY <3>2 DEF TypeOK
    <3> QED BY <3>1, <3>2, <3>3 DEF FilesInv
  <2>2. CASE UNCHANGED <<truths, files>>
    BY <2>2 DEF FilesInv
  <2> QED
    BY <2>1, <2>2 DEF Next, Begin, MatchTruth, MissTruth, EvaluationFails, Compare, vars
<1> QED
  BY <1>1, <1>2, TypeCorrect, PTL DEF Spec

(* A factor of both sides.                                                 *)
LEMMA Cancel ==
  ASSUME NEW n \in Nat \ {0}, NEW x \in Int, NEW y \in Int, x * n <= y * n
  PROVE  x <= y
  OBVIOUS

(* What a recall check of two results about n truths says.                 *)
LEMMA RecallCheck ==
  ASSUME NEW b \in Results, NEW c \in Results, NEW n \in Nat,
         b.tp + b.fn = n, c.tp + c.fn = n,
         AtMost(Drop(Recall(b), Recall(c)), MaxRecallDrop)
  PROVE  100 * (b.tp - c.tp) <= MaxRecallDrop * n
<1>1. b.tp \in 0..n /\ c.tp \in 0..n /\ MaxRecallDrop \in Nat
  BY LimitsAssumption DEF Results
<1>2. CASE n = 0
  BY <1>1, <1>2
<1>3. CASE n # 0
  <2>1. Recall(b) = <<b.tp, n>> /\ Recall(c) = <<c.tp, n>>
    BY <1>3 DEF Recall, Ratio
  <2>2. 100 * (b.tp * n - c.tp * n) <= MaxRecallDrop * (n * n)
    BY <2>1 DEF AtMost, Drop
  <2>3. (100 * (b.tp - c.tp)) * n <= (MaxRecallDrop * n) * n
    BY <1>1, <2>2
  <2> QED BY <1>1, <1>3, <2>3, Cancel
<1> QED BY <1>2, <1>3

(* What a check of the calls says.                                         *)
LEMMA CallsCheck ==
  ASSUME NEW b \in Nat, NEW c \in Nat,
         AtMost(Increase(b, c), MaxCallIncrease)
  PROVE  /\ b = 0 /\ MaxCallIncrease < 100 => c = 0
         /\ b > 0 => 100 * c <= (100 + MaxCallIncrease) * b
<1>1. MaxCallIncrease \in Nat
  BY LimitsAssumption
<1>2. CASE b = 0
  BY <1>1, <1>2 DEF AtMost, Increase
<1>3. CASE b > 0
  <2>1. 100 * (c - b) <= MaxCallIncrease * b
    BY <1>3 DEF AtMost, Increase
  <2> QED BY <1>1, <1>3, <2>1
<1> QED BY <1>2, <1>3

(* A comparison that passes lets neither the recall nor the calls slip.    *)
THEOREM ComparisonCorrect == Spec => PassIsNoRegression
<1> DEFINE Kept ==
      verdict' # verdict /\ verdict'.passed = "yes" =>
        LET b == files[verdict'.baseline]
            c == files[verdict'.current]
        IN  /\ 100 * (b.tp - c.tp) <= MaxRecallDrop * Len(truths)
            /\ b.calls = 0 /\ MaxCallIncrease < 100 => c.calls = 0
            /\ b.calls > 0 =>
                 100 * c.calls <= (100 + MaxCallIncrease) * b.calls
<1>1. TypeOK /\ FilesInv /\ [Next]_vars => [Kept]_vars
  <2> SUFFICES ASSUME TypeOK, FilesInv, Next, verdict' # verdict,
                      verdict'.passed = "yes"
               PROVE  Kept
    OBVIOUS
  <2>1. PICK p \in Profiles, q \in Profiles : Compare(p, q)
    BY DEF Next, Begin, MatchTruth, MissTruth, Save, EvaluationFails
  <2>2. /\ \A k \in Checks(files[p], files[q]) : AtMost(k.change, k.limit)
        /\ verdict' = [passed |-> "yes", baseline |-> p, current |-> q]
    BY <2>1 DEF Compare
  <2>3. /\ AtMost(Drop(Recall(files[p]), Recall(files[q])), MaxRecallDrop)
        /\ AtMost(Increase(files[p].calls, files[q].calls), MaxCallIncrease)
    BY <2>2 DEF Checks
  <2>4. files[p] \in Results /\ files[q] \in Results
    BY <2>1 DEF Compare, TypeOK
  <2>5. /\ files[p].tp + files[p].fn = Len(truths)
        /\ files[q].tp + files[q].fn = Len(truths)
    BY <2>1 DEF Compare, FilesInv
  <2>6. Len(truths) \in Nat
    BY ListTypes
  <2>7. 100 * (files[p].tp - files[q].tp) <= MaxRecallDrop * Len(truths)
    BY <2>3, <2>4, <2>5, <2>6, RecallCheck
  <2>8. files[p].calls \in Nat /\ files[q].calls \in Nat
    BY <2>4 DEF Results
  <2>9. /\ files[p].calls = 0 /\ MaxCallIncrease < 100 => files[q].calls = 0
        /\ files[p].calls > 0 =>
             100 * files[q].calls <= (100 + MaxCallIncrease) * files[p].calls
    BY <2>3, <2>8, CallsCheck
  <2> QED BY <2>2, <2>7, <2>9
<1> QED
  BY <1>1, TypeCorrect, FilesInvariant, PTL DEF Spec, PassIsNoRegression
=============================================================================
