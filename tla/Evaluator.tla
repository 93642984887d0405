----------------------------- MODULE Evaluator -----------------------------
(***************************************************************************)
(* The evaluation of scans against a benchmark (python -m app.main eval):  *)
(* eval/benchmark.py runs a scan with the settings of a profile,           *)
(* eval/evaluator.py matches its findings with the benchmark's ground      *)
(* truth and derives the metrics (eval/metrics.py), the result is saved in *)
(* one file per profile, and eval/regression.py compares two such files.   *)
(*                                                                         *)
(* Scores are in hundredths, ratios are pairs of a numerator and a         *)
(* denominator.                                                            *)
(***************************************************************************)
EXTENDS Integers, Sequences, FiniteSets

CONSTANTS
  Texts, NoText,       \* titles, aliases and categories in lower case
  Normal,              \* _normalize_text
  Within,              \* pairs of texts, the first one in the second
  Endpoints, NoEndpoint,  \* endpoints in lower case
  NormalEndpoint,      \* _normalize_endpoint
  EndsWith,            \* pairs of endpoints, the first one ends with the second
  Cwes, NoCwe, Methods, NoMethod,
  Benchmarks,          \* lists of ground truth a benchmark may have
  Scanned,             \* lists of findings a scan may end with
  Costs,               \* [seconds, calls] a scan may cost
  Profiles,            \* "baseline", "optimized"
  MaxPrecisionDrop, MaxRecallDrop,        \* in percent
  MaxRuntimeIncrease, MaxCallIncrease,    \* in percent
  MaxRuns,             \* bound of the evaluations
  NoResult

Severities == {"critical", "high", "medium", "low", "info"}

Statuses == {"verified", "likely", "unverified", "false_positive",
             "validation_skipped", "informational"}

(* GroundTruthFinding; aliases includes the title, and the severity may be *)
(* any text of the fixture.                                                *)
Truths ==
  [aliases : SUBSET Texts, category : Texts,
   endpoint : Endpoints \cup {NoEndpoint}, method : Methods \cup {NoMethod},
   cwe : Cwes \cup {NoCwe}, severity : Severities \cup {"other"}]

(* FinalFinding as model_dump gives it, as far as the evaluation reads it. *)
Findings ==
  [title : Texts, category : Texts, endpoint : Endpoints, method : Methods,
   cwe : Cwes \cup {NoCwe}, severity : Severities, status : Statuses]

(* EvaluationResult, the part that a comparison reads.                     *)
Results == [tp : Nat, fp : Nat, fn : Nat, seconds : Nat, calls : Nat]

ASSUME TextsAssumption ==
  /\ Normal \in [Texts -> Texts] /\ Within \subseteq Texts \X Texts
  /\ NormalEndpoint \in [Endpoints -> Endpoints]
  /\ EndsWith \subseteq Endpoints \X Endpoints
  /\ NoText \in Texts /\ NoEndpoint \notin Endpoints
  /\ NoCwe \notin Cwes /\ NoMethod \notin Methods
ASSUME ListsAssumption ==
  /\ Benchmarks \subseteq Seq(Truths) /\ Scanned \subseteq Seq(Findings)
  /\ Costs \subseteq [seconds : Nat, calls : Nat] /\ "none" \notin Profiles
ASSUME LimitsAssumption ==
  /\ {MaxPrecisionDrop, MaxRecallDrop, MaxRuntimeIncrease, MaxCallIncrease,
      MaxRuns} \subseteq Nat
  /\ NoResult \notin Results

VARIABLES
  truths,    \* benchmark.supported_ground_truth
  place,     \* "idle", "match"
  profile,   \* the profile being evaluated
  findings,  \* scan.findings of the evaluation at hand, or the last one
  cost,      \* what that scan cost
  match,     \* per truth its finding's place in the list, 0 for "fn"
  files,     \* per profile: eval/results/<benchmark>-<profile>.json
  verdict,   \* what the last comparison said, of which profiles
  runs       \* evaluations begun

vars == <<truths, place, profile, findings, cost, match, files, verdict, runs>>

NoVerdict == [passed |-> "none", baseline |-> "none", current |-> "none"]

Init ==
  /\ truths \in Benchmarks
  /\ place = "idle" /\ profile = "none" /\ findings = <<>>
  /\ cost = [seconds |-> 0, calls |-> 0]
  /\ match = <<>>
  /\ files = [p \in Profiles |-> NoResult]
  /\ verdict = NoVerdict
  /\ runs = 0
-----------------------------------------------------------------------------
Points(condition, points) == IF condition THEN points ELSE 0

SameCwe(f, t) == t.cwe # NoCwe /\ f.cwe = t.cwe

SameEndpoint(f, t) ==
  /\ t.endpoint # NoEndpoint
  /\ <<NormalEndpoint[f.endpoint], NormalEndpoint[t.endpoint]>> \in EndsWith

Titled(f, t) ==
  \E a \in t.aliases : a # NoText /\ <<Normal[a], Normal[f.title]>> \in Within

Total(f, t) ==
  Points(SameCwe(f, t), 50)
    + Points(Normal[f.category] = Normal[t.category], 25)
    + Points(SameEndpoint(f, t), 20)
    + Points(t.method # NoMethod /\ f.method = t.method, 5)
    + Points(Titled(f, t), 20)

(* match_score.                                                            *)
Score(f, t) == IF Total(f, t) > 100 THEN 100 ELSE Total(f, t)

Threshold == 70

(* Mutant: a finding may answer for several truths.                        *)
UnmatchedAll == 1..Len(findings)

(* unmatched_finding_ids.                                                  *)
Unmatched == 1..Len(findings) \ {match[i] : i \in 1..Len(match)}

(* Mutant: the first finding that scores at all wins.                      *)
FirstWins(j, t) ==
  /\ Score(findings[j], t) > 0
  /\ \A k \in Unmatched : Score(findings[k], t) > 0 => j <= k

(* The first of the unmatched findings with the best score.                *)
Wins(j, t) ==
  \A k \in Unmatched :
    \/ Score(findings[k], t) < Score(findings[j], t)
    \/ Score(findings[k], t) = Score(findings[j], t) /\ j <= k
-----------------------------------------------------------------------------
(* EvaluationBenchmarkRunner.run up to the end of the scan.  A fixture or  *)
(* a scan that cannot be had ends the command with nothing changed.        *)
Begin(p, fs, c) ==
  /\ place = "idle" /\ runs < MaxRuns
  /\ runs' = runs + 1
  /\ place' = "match" /\ profile' = p
  /\ findings' = fs /\ cost' = c /\ match' = <<>>
  /\ UNCHANGED <<truths, files, verdict>>

Matching == place = "match" /\ Len(match) < Len(truths)

ThisTruth == truths[Len(match) + 1]

(* A turn of the loop over the ground truth that finds a match, or none.   *)
MatchTruth(j) ==
  /\ Matching
  /\ j \in Unmatched /\ Wins(j, ThisTruth)
  /\ Score(findings[j], ThisTruth) >= Threshold
  /\ match' = Append(match, j)
  /\ UNCHANGED <<truths, place, profile, findings, cost, files, verdict, runs>>

(* Mutant: a finding that does not fit stops the search.                   *)
MissTruthEarly ==
  /\ Matching
  /\ \/ Unmatched = {}
     \/ \E j \in Unmatched : Score(findings[j], ThisTruth) < Threshold
  /\ match' = Append(match, 0)
  /\ UNCHANGED <<truths, place, profile, findings, cost, files, verdict, runs>>

MissTruth ==
  /\ Matching
  /\ \A j \in Unmatched : Score(findings[j], ThisTruth) < Threshold
  /\ match' = Append(match, 0)
  /\ UNCHANGED <<truths, place, profile, findings, cost, files, verdict, runs>>

Found == {i \in 1..Len(match) : match[i] # 0}
Missed == {i \in 1..Len(match) : match[i] = 0}

(* Mutant: what is reported beyond the benchmark counts as wrong.          *)
AccuracyByLength ==
  [tp |-> Cardinality(Found), fp |-> Len(findings) - Len(truths),
   fn |-> Cardinality(Missed), seconds |-> cost.seconds, calls |-> cost.calls]

Accuracy ==
  [tp |-> Cardinality(Found), fp |-> Cardinality(Unmatched),
   fn |-> Cardinality(Missed), seconds |-> cost.seconds, calls |-> cost.calls]

(* build_severity_metrics: an unknown severity of a truth is a KeyError.   *)
Countable == \A i \in 1..Len(truths) : truths[i].severity \in Severities

Save ==
  /\ place = "match" /\ Len(match) = Len(truths) /\ Countable
  /\ files' = [files EXCEPT ![profile] = Accuracy]
  /\ place' = "idle"
  /\ UNCHANGED <<truths, profile, findings, cost, match, verdict, runs>>

EvaluationFails ==
  /\ place = "match" /\ Len(match) = Len(truths) /\ ~Countable
  /\ place' = "idle"
  /\ UNCHANGED <<truths, profile, findings, cost, match, files, verdict, runs>>

(* safe_divide.                                                            *)
Ratio(m, n) == IF n = 0 THEN <<0, 1>> ELSE <<m, n>>

Precision(r) == Ratio(r.tp, r.tp + r.fp)
Recall(r) == Ratio(r.tp, r.tp + r.fn)

(* What a comparison looks at, in hundredths: by how much ratio a is above *)
(* ratio b, and how much more the current figure is than the baseline's.   *)
Drop(a, b) == <<100 * (a[1] * b[2] - b[1] * a[2]), a[2] * b[2]>>

(* Mutant: with a baseline of zero nothing is an increase.                 *)
IncreaseFromZero(baseline, current) ==
  IF baseline = 0 THEN <<0, 1>> ELSE <<100 * (current - baseline), baseline>>

(* _increase_percent: from zero, any increase is 100 %.                    *)
Increase(baseline, current) ==
  IF baseline = 0 THEN <<IF current = 0 THEN 0 ELSE 100, 1>>
  ELSE <<100 * (current - baseline), baseline>>

Below(change, limit) == change[1] < limit * change[2]
AtMost(change, limit) == change[1] <= limit * change[2]

(* RegressionComparator.compare: each check has a change and its limit.    *)
Checks(b, c) ==
  {[change |-> Drop(Precision(b), Precision(c)), limit |-> MaxPrecisionDrop],
   [change |-> Drop(Recall(b), Recall(c)), limit |-> MaxRecallDrop],
   [change |-> Increase(b.seconds, c.seconds), limit |-> MaxRuntimeIncrease],
   [change |-> Increase(b.calls, c.calls), limit |-> MaxCallIncrease]}

(* The code compares floats: where a change is exactly as large as its     *)
(* limit, their rounding decides.                                          *)
Compare(p, q) ==
  /\ place = "idle" /\ files[p] # NoResult /\ files[q] # NoResult
  /\ \/ /\ \A k \in Checks(files[p], files[q]) : AtMost(k.change, k.limit)
        /\ verdict' = [passed |-> "yes", baseline |-> p, current |-> q]
     \/ /\ \E k \in Checks(files[p], files[q]) : ~Below(k.change, k.limit)
        /\ verdict' = [passed |-> "no", baseline |-> p, current |-> q]
  /\ UNCHANGED <<truths, place, profile, findings, cost, match, files, runs>>

Next ==
  \/ \E p \in Profiles, fs \in Scanned, c \in Costs : Begin(p, fs, c)
  \/ \E j \in 1..Len(findings) : MatchTruth(j)
  \/ MissTruth \/ Save \/ EvaluationFails
  \/ \E p, q \in Profiles : Compare(p, q)

Spec == Init /\ [][Next]_vars
-----------------------------------------------------------------------------
(* The rest of the result, from the matches of an evaluation that is over. *)
Over == place = "idle" /\ profile # "none"

(* StatusMetrics: what is counted among the matches and in the list.       *)
FoundWith(status) == Cardinality({i \in Found : findings[match[i]].status = status})

ListedWith(status) ==
  Cardinality({j \in 1..Len(findings) : findings[j].status = status})

(* build_severity_metrics, found and missed: by the truth's severity.      *)
OfSeverity(indexes, severity) ==
  Cardinality({i \in indexes : truths[i].severity = severity})

(* The false positives: getattr does not see the keys of a dict.           *)
FalseOfSeverity(severity) ==
  IF severity = "info" THEN Cardinality(Unmatched) ELSE 0

(* _candidate_for_truth: may finding f be where truth t comes from?  The   *)
(* texts and the endpoint of the finding are not normalized here.          *)
ComesFrom(f, t) ==
  \/ SameCwe(f, t)
  \/ /\ t.endpoint # NoEndpoint
     /\ <<f.endpoint, NormalEndpoint[t.endpoint]>> \in EndsWith
     /\ f.category = Normal[t.category]
  \/ \E a \in t.aliases : <<Normal[a], f.title>> \in Within

(* pipeline_attribution and false_negative_analysis: does the truth have   *)
(* a scanner candidate?                                                    *)
Attributed(t) == \E j \in 1..Len(findings) : ComesFrom(findings[j], t)
-----------------------------------------------------------------------------
(* Every variable stays in its type.                                       *)
TypeOK ==
  /\ truths \in Benchmarks
  /\ place \in {"idle", "match"}
  /\ profile \in Profiles \cup {"none"} /\ (place = "match" => profile # "none")
  /\ findings \in Scanned \cup {<<>>}
  /\ cost \in [seconds : Nat, calls : Nat]
  /\ match \in Seq(0..Len(findings)) /\ Len(match) <= Len(truths)
  /\ files \in [Profiles -> Results \cup {NoResult}]
  /\ verdict.passed \in {"none", "yes", "no"}
  /\ runs \in 0..MaxRuns

(* No finding that ends as a false positive would have been the better     *)
(* match of a truth: not of one that is counted as missed, not of one that *)
(* was given to another finding; and no finding answers for two truths.    *)
NoBetterLeft ==
  /\ \A i, k \in 1..Len(match) : match[i] # 0 /\ match[i] = match[k] => i = k
  /\ \A i \in 1..Len(match), j \in Unmatched :
       IF match[i] = 0 THEN Score(findings[j], truths[i]) < Threshold
       ELSE Score(findings[j], truths[i]) <= Score(findings[match[i]], truths[i])

(* Matchings: ways to give truths findings that reach the threshold.       *)
Matchings ==
  {m \in [1..Len(truths) -> 0..Len(findings)] :
     \A i \in 1..Len(truths) :
       m[i] # 0 =>
         /\ Score(findings[m[i]], truths[i]) >= Threshold
         /\ \A k \in 1..Len(truths) : m[k] = m[i] => k = i}

(* A truth may take the finding that a later one needed, and only so much  *)
(* is lost: at least half of what the best assignment would have found is  *)
(* counted as found.                                                       *)
HalfOfBest ==
  Over => \A m \in Matchings :
            Cardinality({i \in 1..Len(truths) : m[i] # 0}) <= 2 * Cardinality(Found)

(* The parts of a result agree: every truth is found or missed, every      *)
(* finding is a match or a false positive, also by severity; no more       *)
(* findings of a status are right than the scan reports (no precision is   *)
(* over 1), and a truth found by its CWE has a scanner candidate.          *)
ResultAddsUp ==
  Over =>
    /\ Accuracy.tp + Accuracy.fn = Len(truths)
    /\ Accuracy.tp + Accuracy.fp = Len(findings)
    /\ Countable =>
         \A s \in Severities :
           OfSeverity(Found, s) + OfSeverity(Missed, s)
             = Cardinality({i \in 1..Len(truths) : truths[i].severity = s})
    /\ \A s \in {"verified", "likely"} : FoundWith(s) <= ListedWith(s)
    /\ \A i \in Found :
         SameCwe(findings[match[i]], truths[i]) => Attributed(truths[i])

(* A comparison that passes has not lost more of the benchmark's truths,   *)
(* nor made more calls, than its limits say: more than the baseline's      *)
(* calls by the limit, or any where the baseline made none.                *)
PassIsNoRegression ==
  [][verdict' # verdict /\ verdict'.passed = "yes" =>
       LET b == files[verdict'.baseline]
           c == files[verdict'.current]
       IN  /\ 100 * (b.tp - c.tp) <= MaxRecallDrop * Len(truths)
           /\ b.calls = 0 /\ MaxCallIncrease < 100 => c.calls = 0
           /\ b.calls > 0 =>
                100 * c.calls <= (100 + MaxCallIncrease) * b.calls]_vars

(* The severity metrics count a false positive under the severity the      *)
(* report gave the finding (violated).                                     *)
FalsePositivesBySeverity ==
  Over /\ Countable =>
    \A s \in Severities :
      FalseOfSeverity(s)
        = Cardinality({j \in Unmatched : findings[j].severity = s})
=============================================================================
