------------------------ MODULE AnalysisAgentProofs ------------------------
(***************************************************************************)
(* Safety of AnalysisAgent for any scans, candidates, answers, weights and *)
(* thresholds; and the steps that a scan has left, which each of its steps *)
(* makes fewer and no other scan makes more.                               *)
(***************************************************************************)
EXTENDS AnalysisAgent, FiniteSetTheorems, TLAPS

(* The two facts about products that the confidences rest on.              *)
LEMMA ProductIsNatural ==
  ASSUME NEW x \in Nat, NEW y \in Nat
  PROVE  x * y \in Nat
OBVIOUS

LEMMA ProductIsMonotone ==
  ASSUME NEW x \in Nat, NEW y \in Nat, NEW w \in Nat, x <= y
  PROVE  x * w <= y * w
<1>1. y * w = x * w + (y - x) * w
  OBVIOUS
<1>2. y - x \in Nat
  OBVIOUS
<1>3. (y - x) * w \in Nat
  BY <1>2, ProductIsNatural
<1>4. x * w \in Nat
  BY ProductIsNatural
<1> QED
  BY <1>1, <1>3, <1>4

(* The thresholds and weights are natural numbers.                         *)
LEMMA NumbersAreNatural ==
  /\ High \in Nat /\ WScanner \in Nat /\ WModel \in Nat /\ WRag \in Nat
  /\ WEvidence \in Nat
BY NumbersAssumption DEF Percent

(* Confidences are integers.                                               *)
LEMMA ConfidenceIsInteger ==
  ASSUME NEW x \in Confidences
  PROVE  x \in Int
BY DEF Confidences

(* What the parts of an input contribute to a score.                       *)
LEMMA InputType ==
  ASSUME NEW i \in Inputs
  PROVE  /\ i.cand \in Candidates /\ i.cand.scanner \in Percent
         /\ RagScore(i) \in Percent /\ EvidenceThirds(i) \in 0..3
BY SetsAssumption DEF Inputs, Profiles, RagScore, EvidenceThirds, Percent

(* A score is a confidence: never negative, never more than 1.             *)
LEMMA ScoreType ==
  ASSUME NEW i \in Inputs, NEW m \in Percent
  PROVE  Score(i, m) \in Confidences
<1> DEFINE a == i.cand.scanner * WScanner
           b == m * WModel
           c == RagScore(i) * WRag
           d == EvidenceThirds(i) * WEvidence
<1>1. a \in Nat /\ b \in Nat /\ c \in Nat /\ d \in Nat
  <2>1. /\ i.cand.scanner \in Nat /\ RagScore(i) \in Nat
        /\ EvidenceThirds(i) \in Nat /\ m \in Nat
    BY InputType DEF Percent
  <2>2. WScanner \in Nat /\ WModel \in Nat /\ WRag \in Nat /\ WEvidence \in Nat
    BY NumbersAreNatural
  <2> QED BY <2>1, <2>2, ProductIsNatural
<1>2. 100 * EvidenceThirds(i) * WEvidence = 100 * d
  <2>1. EvidenceThirds(i) \in Int /\ WEvidence \in Int
    BY InputType, NumbersAreNatural DEF Percent
  <2> QED BY <2>1
<1>3. Score(i, m) = Clamp(3 * (a + b + c) + 100 * d)
  BY <1>2 DEF Score
<1> HIDE DEF a, b, c, d
<1> QED
  <2>1. 3 * (a + b + c) + 100 * d \in Nat
    BY SMTT(30), <1>1
  <2>2. \A x \in Nat : Clamp(x) \in Confidences
    BY DEF Clamp, Unit, Confidences
  <2> QED BY <1>3, <2>1, <2>2

(* The smaller of two numbers is within the bounds of both.                *)
LEMMA SmallerIsWithin ==
  ASSUME NEW n \in Nat, NEW x \in 0..n, NEW k \in Nat
  PROVE  /\ (IF x < k THEN x ELSE k) \in 0..n
         /\ (IF x < k THEN x ELSE k) <= x
OBVIOUS

(* The cap is a confidence too, and never raises one.                      *)
LEMMA CapType ==
  ASSUME NEW x \in Confidences
  PROVE  Capped(x) \in Confidences /\ Capped(x) <= x
<1>1. PICK n \in Nat : n = 100 * Unit
  BY DEF Unit
<1>2. Confidences = 0..n
  BY <1>1 DEF Confidences
<1>3. Low - 1 \in Nat /\ Unit \in Nat
  BY NumbersAssumption DEF Percent, Unit
<1>4. PICK k \in Nat : k = (Low - 1) * Unit
  BY <1>3, ProductIsNatural
<1>5. Capped(x) = IF x < k THEN x ELSE k
  BY <1>4 DEF Capped
<1> QED
  BY <1>2, <1>5, SmallerIsWithin

(* The gate gives a status.                                                *)
LEMMA GateType ==
  ASSUME NEW status \in Statuses, NEW x \in Confidences
  PROVE  /\ Gate(status, x) \in Statuses
         /\ Gate(status, x) \in {Gate("needs_validation", x),
                                 "likely_false_positive"}
BY DEF Gate, Statuses

(* A model that is routed to is one of the two.                            *)
LEMMA RouteType ==
  ASSUME NEW s \in Scans, NEW i \in Inputs
  PROVE  Route(s, i) \in Models
BY DEF Route, Either, Models

(* An analysis made for candidate c of scan s.                             *)
Own(s, c, a) ==
  /\ a \in Analyses /\ GatedFor(a, Input(s, c))
  /\ a.model = Route(s, Input(s, c))

(* The input of a candidate, from any context.                             *)
LEMMA InputOf ==
  ASSUME TypeOK, NEW s \in Scans, NEW c \in Candidates
  PROVE  Input(s, c) \in Inputs
BY SetsAssumption DEF TypeOK, Input, Inputs

(* A model's answer becomes an analysis of its own candidate.              *)
LEMMA SettledIsOwn ==
  ASSUME TypeOK, NEW s \in Scans, NEW c \in Candidates, NEW p \in Payloads
  PROVE  Own(s, c, Settled(s, Input(s, c), p))
<1> DEFINE i == Input(s, c)
           type == Recommend(i.cand, p)
           score == Score(i, p.confidence)
           final == IF p.status = "insufficient_evidence" /\ type = "manual_review"
                    THEN Capped(score) ELSE score
<1>1. i \in Inputs /\ p \in PayloadForms
  BY InputOf, SetsAssumption
<1>2. type \in SupportedTypes \cup {"manual_review"}
  <2>1. i.cand.inferred \in SupportedTypes \cup {"none"}
    BY <1>1, SetsAssumption DEF Inputs, Profiles
  <2> QED
    BY <2>1 DEF Recommend
<1>3. p.confidence \in Percent /\ p.status \in Statuses /\ p.error \in BOOLEAN
  BY <1>1 DEF PayloadForms
<1>4. score \in Confidences
  BY <1>1, <1>3, ScoreType
<1>5. final \in Confidences /\ final <= score
  BY <1>4, CapType DEF Confidences
<1>6. Settled(s, i, p) =
        [input |-> i, model |-> Route(s, i), status |-> Gate(p.status, final),
         type |-> type, model_confidence |-> p.confidence,
         confidence |-> final, error |-> p.error]
  BY DEF Settled
<1>7. /\ Gate(p.status, final) \in Statuses
      /\ Gate(p.status, final) \in {Gate("needs_validation", final),
                                    "likely_false_positive"}
  BY <1>3, <1>5, GateType
<1>8. Route(s, i) \in Models
  BY <1>1, RouteType
<1> HIDE DEF i, type, final
<1>9. Settled(s, i, p) \in Analyses
  BY <1>1, <1>2, <1>3, <1>5, <1>6, <1>7, <1>8 DEF Analyses
<1>10. GatedFor(Settled(s, i, p), i) /\ Settled(s, i, p).model = Route(s, i)
  BY <1>5, <1>6, <1>7 DEF GatedFor
<1> QED
  BY <1>9, <1>10 DEF Own, i

(* So does a failure, and it says that it is one.                          *)
LEMMA FallbackIsOwn ==
  ASSUME TypeOK, NEW s \in Scans, NEW c \in Candidates
  PROVE  /\ Own(s, c, Fallback(s, Input(s, c)))
         /\ Fallback(s, Input(s, c)).error = TRUE
<1> DEFINE i == Input(s, c)
           score == Score(i, 0)
           final == Capped(score)
<1>1. i \in Inputs /\ 0 \in Percent
  BY InputOf DEF Percent
<1>2. score \in Confidences
  BY <1>1, ScoreType
<1>3. final \in Confidences /\ final <= score
  BY <1>2, CapType
<1>4. "insufficient_evidence" \in Statuses
  BY DEF Statuses
<1>5. /\ Gate("insufficient_evidence", final) \in Statuses
      /\ Gate("insufficient_evidence", final)
           \in {Gate("needs_validation", final), "likely_false_positive"}
  BY <1>3, <1>4, GateType
<1>6. Route(s, i) \in Models
  BY <1>1, RouteType
<1>7. Fallback(s, i) =
        [input |-> i, model |-> Route(s, i),
         status |-> Gate("insufficient_evidence", final),
         type |-> "manual_review", model_confidence |-> 0,
         confidence |-> final, error |-> TRUE]
  BY DEF Fallback
<1> HIDE DEF i, final
<1>8. Fallback(s, i) \in Analyses
  BY <1>1, <1>3, <1>5, <1>6, <1>7 DEF Analyses
<1>9. GatedFor(Fallback(s, i), i) /\ Fallback(s, i).model = Route(s, i)
  BY <1>3, <1>5, <1>7 DEF GatedFor
<1> QED
  BY <1>7, <1>8, <1>9 DEF Own, i

(* The candidate at hand has an input, a model and a cache key.            *)
LEMMA AtHand ==
  ASSUME TypeOK, NEW s \in Scans,
         pc[s] \in {"lookup", "purge", "ask", "retry", "store"}
  PROVE  /\ cand[s] \in Candidates /\ cand[s] \notin todo[s]
         /\ CacheKey(s, cand[s]) \in Keys
         /\ CacheKey(s, cand[s])[1] = Input(s, cand[s])
         /\ CacheKey(s, cand[s])[2] = Route(s, Input(s, cand[s]))
<1>1. cand[s] \in Candidates /\ cand[s] \notin todo[s]
  BY DEF TypeOK, ThreadState
<1>2. Input(s, cand[s]) \in Inputs
  BY <1>1, InputOf
<1>3. Route(s, Input(s, cand[s])) \in Models
  BY <1>2, RouteType
<1> QED
  BY <1>1, <1>2, <1>3 DEF CacheKey, Keys
-----------------------------------------------------------------------------
(* The type invariant holds when the phases start.                         *)
LEMMA TypeInit == Init => TypeOK
BY NumbersAssumption DEF Init, TypeOK, ThreadState, Places

(* The end of a candidate's turn.                                          *)
LEMMA AttachType ==
  ASSUME TypeOK, NEW s \in Scans, NEW c \in Candidates,
         NEW a \in Analyses \cup {Lost}, Attach(s, c, a),
         now' = now, UNCHANGED context, misses' = misses,
         cache' \in [Keys -> Entries \cup {NoEntry}],
         todo' \in [Scans -> SUBSET Candidates],
         \A t \in Scans \ {s} : todo'[t] = todo[t],
         recorded' = recorded, calls' = calls
  PROVE  TypeOK'
<1>1. /\ attached' \in [Scans -> [Candidates -> Analyses \cup {NoAnalysis, Lost}]]
      /\ pc' \in [Scans -> Places] /\ pc'[s] = "select"
      /\ cand' \in [Scans -> Candidates \cup {NoCandidate}]
      /\ cand'[s] = NoCandidate
      /\ pend' \in [Scans -> Analyses \cup {NoAnalysis}]
      /\ \A t \in Scans \ {s} :
           pc'[t] = pc[t] /\ cand'[t] = cand[t] /\ pend'[t] = pend[t]
  BY DEF Attach, TypeOK, Places
<1>2. \A t \in Scans : ThreadState(t)'
  <2> SUFFICES ASSUME NEW t \in Scans PROVE ThreadState(t)'
    OBVIOUS
  <2>1. CASE t = s
    BY <1>1, <2>1 DEF ThreadState
  <2>2. CASE t # s
    <3>1. ThreadState(t)
      BY DEF TypeOK
    <3> QED
      BY <1>1, <2>2, <3>1 DEF ThreadState
  <2> QED BY <2>1, <2>2
<1> QED
  BY <1>1, <1>2 DEF TypeOK

(* The end of the calls for a candidate.                                   *)
LEMMA PendingType ==
  ASSUME TypeOK, NEW s \in Scans, NEW a \in Analyses, NEW answered \in BOOLEAN,
         pc[s] \in {"ask", "retry"}, Call(s, answered), Pending(s, a)
  PROVE  TypeOK'
BY DEF TypeOK, ThreadState, Places, Call, Pending

(* Every step keeps the types and the state of every thread.               *)
LEMMA TypeStep == TypeOK /\ [Next]_vars => TypeOK'
<1> SUFFICES ASSUME TypeOK, [Next]_vars PROVE TypeOK'
  OBVIOUS
<1>1. ASSUME NEW s \in Scans, NEW c \in Candidates, PassOver(s, c)
      PROVE  TypeOK'
  BY <1>1 DEF PassOver, TypeOK, ThreadState
<1>2. ASSUME NEW s \in Scans, NEW c \in Candidates, Unavailable(s, c)
      PROVE  TypeOK'
  <2>1. Fallback(s, Input(s, c)) \in Analyses
    BY FallbackIsOwn DEF Own
  <2> QED
    BY <1>2, <2>1, AttachType DEF Unavailable, TypeOK
<1>3. ASSUME NEW s \in Scans, NEW c \in Candidates, Take(s, c)
      PROVE  TypeOK'
  BY <1>3 DEF Take, TypeOK, ThreadState, Places
<1>4. ASSUME NEW s \in Scans, CacheHit(s)
      PROVE  TypeOK'
  <2> DEFINE e == cache[CacheKey(s, cand[s])]
  <2>1. cand[s] \in Candidates /\ e \in Entries
    BY <1>4, AtHand DEF CacheHit, TypeOK
  <2>2. e.analysis \in Analyses
    BY <2>1 DEF Entries
  <2> QED
    BY <1>4, <2>1, <2>2, AttachType DEF CacheHit, TypeOK
<1>5. ASSUME NEW s \in Scans, CacheMiss(s)
      PROVE  TypeOK'
  <2>1. PICK place \in {"ask", "purge"} : pc' = [pc EXCEPT ![s] = place]
    BY <1>5 DEF CacheMiss
  <2>2. misses' \in [Scans -> Nat]
    <3>1. misses' = misses \/ misses' = [misses EXCEPT ![s] = @ + 1]
      BY <1>5 DEF CacheMiss
    <3> QED BY <3>1 DEF TypeOK
  <2>3. /\ pc[s] = "lookup"
        /\ UNCHANGED <<now, cache, context, todo, cand, pend, attached,
                       recorded, calls>>
    BY <1>5 DEF CacheMiss
  <2> QED
    BY <2>1, <2>2, <2>3 DEF TypeOK, ThreadState, Places
<1>6. ASSUME NEW s \in Scans, CacheDelete(s)
      PROVE  TypeOK'
  <2>1. cache' \in [Keys -> Entries \cup {NoEntry}]
    BY <1>6 DEF CacheDelete, TypeOK
  <2> QED
    BY <1>6, <2>1 DEF CacheDelete, TypeOK, ThreadState, Places
<1>7. ASSUME NEW s \in Scans, NEW p \in Payloads, Answered(s, p)
      PROVE  TypeOK'
  <2>1. Settled(s, Input(s, cand[s]), p) \in Analyses
    BY <1>7, AtHand, SettledIsOwn DEF Answered, Own
  <2> QED
    BY <1>7, <2>1, PendingType DEF Answered
<1>8. ASSUME NEW s \in Scans, pc[s] \in {"ask", "retry"}
      PROVE  Fallback(s, Input(s, cand[s])) \in Analyses
  BY <1>8, AtHand, FallbackIsOwn DEF Own
<1>9. ASSUME NEW s \in Scans, AnswerRejected(s)
      PROVE  TypeOK'
  BY <1>8, <1>9, PendingType DEF AnswerRejected
<1>10. ASSUME NEW s \in Scans, AnswerNotJson(s)
       PROVE  TypeOK'
  <2>1. CASE pc[s] = "ask" /\ pc' = [pc EXCEPT ![s] = "retry"] /\ UNCHANGED pend
    BY <1>10, <2>1 DEF AnswerNotJson, Call, TypeOK, ThreadState, Places
  <2>2. CASE pc[s] = "retry" /\ Pending(s, Fallback(s, Input(s, cand[s])))
    BY <1>8, <1>10, <2>2, PendingType DEF AnswerNotJson
  <2> QED
    BY <1>10, <2>1, <2>2 DEF AnswerNotJson
<1>11. ASSUME NEW s \in Scans, ProviderFails(s)
       PROVE  TypeOK'
  BY <1>8, <1>11, PendingType DEF ProviderFails
<1>12. ASSUME NEW s \in Scans, Store(s)
       PROVE  TypeOK'
  <2>1. /\ cand[s] \in Candidates /\ CacheKey(s, cand[s]) \in Keys
        /\ pend[s] \in Analyses
    BY <1>12, AtHand DEF Store, TypeOK, ThreadState
  <2>2. [analysis |-> pend[s], expires |-> now + Ttl] \in Entries
    BY <2>1, NumbersAssumption DEF Entries, TypeOK
  <2>3. cache' \in [Keys -> Entries \cup {NoEntry}]
    BY <1>12, <2>1, <2>2 DEF Store, TypeOK
  <2> QED
    BY <1>12, <2>1, <2>3, AttachType DEF Store, TypeOK
<1>13. ASSUME NEW s \in Scans, CacheError(s)
       PROVE  TypeOK'
  <2>1. cand[s] \in Candidates
    BY <1>13, AtHand DEF CacheError
  <2> QED
    BY <1>13, <2>1, AttachType DEF CacheError, TypeOK
<1>14. ASSUME NEW s \in Scans, Finish(s)
       PROVE  TypeOK'
  BY <1>14 DEF Finish, TypeOK, ThreadState, Places
<1>15. CASE Tick
  BY <1>15, NumbersAssumption DEF Tick, TypeOK, ThreadState
<1>16. CASE UNCHANGED vars
  BY <1>16 DEF vars, TypeOK, ThreadState
<1> QED
  BY <1>1, <1>2, <1>3, <1>4, <1>5, <1>6, <1>7, <1>9, <1>10, <1>11, <1>12,
     <1>13, <1>14, <1>15, <1>16 DEF Next, Step

(* Type correctness, with the state of every thread at every place.        *)
THEOREM TypeCorrect == Spec => []TypeOK
BY TypeInit, TypeStep, PTL DEF Spec
-----------------------------------------------------------------------------
(* An analysis made for input i by model m.                                *)
MadeFor(a, i, m) == GatedFor(a, i) /\ a.model = m

(* A row of the cache is an answer for its own key.                        *)
RowIsOwn(k, e) == ~e.analysis.error /\ MadeFor(e.analysis, k[1], k[2])

(* What is stored, about to be stored and attached is its candidate's own. *)
OwnInv ==
  /\ \A k \in Keys : cache[k] # NoEntry => RowIsOwn(k, cache[k])
  /\ \A s \in Scans :
       pc[s] = "store" =>
         MadeFor(pend[s], Input(s, cand[s]), Route(s, Input(s, cand[s])))
  /\ \A s \in Scans, c \in Candidates :
       attached[s][c] \notin {NoAnalysis, Lost} =>
         MadeFor(attached[s][c], Input(s, c), Route(s, Input(s, c)))

(* Retrieval is over when the analyses begin.                              *)
LEMMA ContextFixed == [Next]_vars => UNCHANGED context
BY ZenonT(60)
   DEF Next, Step, vars, PassOver, Unavailable, Take, CacheHit, CacheMiss,
       CacheDelete, Answered, AnswerRejected, AnswerNotJson, ProviderFails,
       Call, Store, CacheError, Finish, Tick

(* Attaching an own analysis.                                              *)
LEMMA AttachOwn ==
  ASSUME TypeOK, OwnInv, NEW s \in Scans, NEW c \in Candidates,
         NEW a \in Analyses \cup {Lost}, Attach(s, c, a),
         a # Lost => MadeFor(a, Input(s, c), Route(s, Input(s, c))),
         UNCHANGED context,
         \A k \in Keys : cache'[k] # NoEntry => RowIsOwn(k, cache'[k])
  PROVE  OwnInv'
<1>1. \A t \in Scans :
        pc'[t] = "store" =>
          MadeFor(pend'[t], Input(t, cand[t])', Route(t, Input(t, cand[t])'))
  <2> SUFFICES ASSUME NEW t \in Scans, pc'[t] = "store"
               PROVE  MadeFor(pend'[t], Input(t, cand[t])',
                              Route(t, Input(t, cand[t])'))
    OBVIOUS
  <2>1. pc'[t] = pc[t] /\ pend'[t] = pend[t] /\ cand'[t] = cand[t] /\ t # s
    BY DEF Attach, TypeOK
  <2>2. MadeFor(pend[t], Input(t, cand[t]), Route(t, Input(t, cand[t])))
    BY <2>1 DEF OwnInv
  <2> QED
    BY <2>1, <2>2 DEF Input
<1>2. ASSUME NEW t \in Scans, NEW d \in Candidates,
             attached'[t][d] \notin {NoAnalysis, Lost}
      PROVE  MadeFor(attached'[t][d], Input(t, d), Route(t, Input(t, d)))
  <2>1. CASE t = s /\ d = c
    BY <1>2, <2>1 DEF Attach, TypeOK
  <2>2. CASE ~(t = s /\ d = c)
    <3>1. attached'[t][d] = attached[t][d]
      BY <2>2 DEF Attach, TypeOK
    <3> QED BY <1>2, <3>1 DEF OwnInv
  <2> QED BY <2>1, <2>2
<1> QED
  BY <1>1, <1>2 DEF OwnInv, Input

(* The result of the calls for a candidate is its own.                     *)
LEMMA PendingOwn ==
  ASSUME TypeOK, OwnInv, NEW s \in Scans, NEW a \in Analyses,
         NEW answered \in BOOLEAN, Call(s, answered), Pending(s, a),
         MadeFor(a, Input(s, cand[s]), Route(s, Input(s, cand[s])))
  PROVE  OwnInv'
<1>1. /\ UNCHANGED <<cache, context, cand, attached>>
      /\ pend' = [pend EXCEPT ![s] = a]
      /\ pc' = [pc EXCEPT ![s] = "store"]
  BY DEF Call, Pending
<1>2. ASSUME NEW t \in Scans, pc'[t] = "store"
      PROVE  MadeFor(pend'[t], Input(t, cand[t]), Route(t, Input(t, cand[t])))
  BY <1>1, <1>2 DEF OwnInv, TypeOK
<1> QED
  BY <1>1, <1>2 DEF OwnInv, Input

(* A step that leaves the analyses alone and sends no thread to "store".   *)
LEMMA OthersOwn ==
  ASSUME TypeOK, OwnInv, UNCHANGED <<context, attached>>,
         \A t \in Scans :
           pc'[t] = "store" => pc[t] = "store" /\ pend'[t] = pend[t]
                               /\ cand'[t] = cand[t],
         \A k \in Keys : cache'[k] # NoEntry => cache'[k] = cache[k]
  PROVE  OwnInv'
BY DEF OwnInv, Input

(* Nothing but own analyses are ever stored or attached.                   *)
LEMMA OwnStep == TypeOK /\ OwnInv /\ [Next]_vars => OwnInv'
<1> SUFFICES ASSUME TypeOK, OwnInv, [Next]_vars PROVE OwnInv'
  OBVIOUS
<1>0. UNCHANGED context
  BY ContextFixed
<1>1. ASSUME NEW s \in Scans, NEW c \in Candidates, PassOver(s, c)
      PROVE  OwnInv'
  BY <1>1, OthersOwn DEF PassOver
<1>2. ASSUME NEW s \in Scans, NEW c \in Candidates, Unavailable(s, c)
      PROVE  OwnInv'
  <2> DEFINE a == Fallback(s, Input(s, c))
  <2>1. a \in Analyses /\ MadeFor(a, Input(s, c), Route(s, Input(s, c)))
    BY FallbackIsOwn DEF Own, MadeFor
  <2>2. Attach(s, c, a) /\ cache' = cache
    BY <1>2 DEF Unavailable
  <2> HIDE DEF a
  <2> QED
    BY <1>0, <2>1, <2>2, AttachOwn DEF OwnInv
<1>3. ASSUME NEW s \in Scans, NEW c \in Candidates, Take(s, c)
      PROVE  OwnInv'
  BY <1>3, OthersOwn DEF Take, TypeOK
<1>4. ASSUME NEW s \in Scans, CacheHit(s)
      PROVE  OwnInv'
  <2> DEFINE k == CacheKey(s, cand[s])
             a == cache[k].analysis
  <2>1. /\ cand[s] \in Candidates /\ k \in Keys /\ k[1] = Input(s, cand[s])
        /\ k[2] = Route(s, Input(s, cand[s]))
    BY <1>4, AtHand DEF CacheHit
  <2>2. cache[k] # NoEntry /\ Attach(s, cand[s], a) /\ cache' = cache
    BY <1>4 DEF CacheHit
  <2>3. a \in Analyses
    BY <2>1, <2>2 DEF TypeOK, Entries
  <2>4. MadeFor(a, k[1], k[2])
    BY <2>1, <2>2 DEF OwnInv, RowIsOwn
  <2> HIDE DEF a, k
  <2> QED
    BY <1>0, <2>1, <2>2, <2>3, <2>4, AttachOwn DEF OwnInv
<1>5. ASSUME NEW s \in Scans, CacheMiss(s)
      PROVE  OwnInv'
  <2>1. PICK place \in {"ask", "purge"} : pc' = [pc EXCEPT ![s] = place]
    BY <1>5 DEF CacheMiss
  <2>2. UNCHANGED <<cache, cand, pend, attached>>
    BY <1>5 DEF CacheMiss
  <2> QED
    BY <1>0, <2>1, <2>2, OthersOwn DEF TypeOK
<1>6. ASSUME NEW s \in Scans, CacheDelete(s)
      PROVE  OwnInv'
  <2>1. \A k \in Keys : cache'[k] # NoEntry => cache'[k] = cache[k]
    BY <1>6 DEF CacheDelete, TypeOK
  <2> QED
    BY <1>0, <1>6, <2>1, OthersOwn DEF CacheDelete, TypeOK
<1>7. ASSUME NEW s \in Scans, NEW p \in Payloads, Answered(s, p)
      PROVE  OwnInv'
  <2> DEFINE a == Settled(s, Input(s, cand[s]), p)
  <2>1. Call(s, TRUE) /\ Pending(s, a)
    BY <1>7 DEF Answered
  <2>2. /\ a \in Analyses
        /\ MadeFor(a, Input(s, cand[s]), Route(s, Input(s, cand[s])))
    BY <1>7, AtHand, SettledIsOwn DEF Answered, Own, MadeFor
  <2> HIDE DEF a
  <2> QED
    BY <2>1, <2>2, PendingOwn
<1>8. ASSUME NEW s \in Scans, pc[s] \in {"ask", "retry"},
             NEW answered \in BOOLEAN, Call(s, answered),
             Pending(s, Fallback(s, Input(s, cand[s])))
      PROVE  OwnInv'
  <2> DEFINE a == Fallback(s, Input(s, cand[s]))
  <2>1. Pending(s, a)
    BY <1>8
  <2>2. /\ a \in Analyses
        /\ MadeFor(a, Input(s, cand[s]), Route(s, Input(s, cand[s])))
    BY <1>8, AtHand, FallbackIsOwn DEF Own, MadeFor
  <2> HIDE DEF a
  <2> QED
    BY <1>8, <2>1, <2>2, PendingOwn
<1>9. ASSUME NEW s \in Scans, AnswerRejected(s)
      PROVE  OwnInv'
  BY <1>8, <1>9 DEF AnswerRejected
<1>10. ASSUME NEW s \in Scans, AnswerNotJson(s)
       PROVE  OwnInv'
  <2>1. CASE pc[s] = "ask" /\ pc' = [pc EXCEPT ![s] = "retry"] /\ UNCHANGED pend
    BY <1>0, <1>10, <2>1, OthersOwn DEF AnswerNotJson, Call, TypeOK
  <2>2. CASE pc[s] = "retry" /\ Pending(s, Fallback(s, Input(s, cand[s])))
    BY <1>8, <1>10, <2>2 DEF AnswerNotJson
  <2> QED
    BY <1>10, <2>1, <2>2 DEF AnswerNotJson
<1>11. ASSUME NEW s \in Scans, ProviderFails(s)
       PROVE  OwnInv'
  BY <1>8, <1>11 DEF ProviderFails
<1>12. ASSUME NEW s \in Scans, Store(s)
       PROVE  OwnInv'
  <2> DEFINE k == CacheKey(s, cand[s])
             e == [analysis |-> pend[s], expires |-> now + Ttl]
  <2>1. /\ cand[s] \in Candidates /\ k \in Keys /\ pend[s] \in Analyses
        /\ k[1] = Input(s, cand[s]) /\ k[2] = Route(s, Input(s, cand[s]))
    BY <1>12, AtHand DEF Store, TypeOK, ThreadState
  <2>2. MadeFor(pend[s], Input(s, cand[s]), Route(s, Input(s, cand[s])))
    BY <1>12 DEF Store, OwnInv
  <2>3. /\ Attach(s, cand[s], pend[s])
        /\ cache' = IF Cacheable(s, pend[s]) THEN [cache EXCEPT ![k] = e] ELSE cache
    BY <1>12 DEF Store
  <2>4. Cacheable(s, pend[s]) => RowIsOwn(k, e)
    BY <2>1, <2>2 DEF Cacheable, RowIsOwn
  <2> HIDE DEF k, e
  <2>5. \A j \in Keys : cache'[j] # NoEntry => RowIsOwn(j, cache'[j])
    BY <2>1, <2>3, <2>4 DEF OwnInv, TypeOK
  <2> QED
    BY <1>0, <2>1, <2>2, <2>3, <2>5, AttachOwn
<1>13. ASSUME NEW s \in Scans, CacheError(s)
       PROVE  OwnInv'
  <2>1. cand[s] \in Candidates /\ Attach(s, cand[s], Lost) /\ cache' = cache
    BY <1>13, AtHand DEF CacheError
  <2> QED
    BY <1>0, <2>1, AttachOwn DEF OwnInv
<1>14. ASSUME NEW s \in Scans, Finish(s)
       PROVE  OwnInv'
  BY <1>14, OthersOwn DEF Finish, TypeOK
<1>15. CASE Tick
  BY <1>15, OthersOwn DEF Tick
<1>16. CASE UNCHANGED vars
  BY <1>16, OthersOwn DEF vars
<1> QED
  BY <1>1, <1>2, <1>3, <1>4, <1>5, <1>6, <1>7, <1>9, <1>10, <1>11, <1>12,
     <1>13, <1>14, <1>15, <1>16 DEF Next, Step

(* Nothing is stored or attached when the phases start.                    *)
LEMMA OwnInit == Init => OwnInv
BY DEF Init, OwnInv

(* The types and the ownership hold together in every reachable state.     *)
LEMMA OwnAlways == Spec => [](TypeOK /\ OwnInv)
<1>1. TypeOK /\ OwnInv /\ [Next]_vars => (TypeOK /\ OwnInv)'
  BY TypeStep, OwnStep
<1> QED
  BY TypeInit, OwnInit, <1>1, PTL DEF Spec

(* A finding gets no analysis but its own, by its own model.               *)
THEOREM OwnCorrect == Spec => []AnalysesAreTheirOwn
<1>1. TypeOK /\ OwnInv => AnalysesAreTheirOwn
  BY DEF OwnInv, MadeFor, AnalysesAreTheirOwn
<1> QED
  BY OwnAlways, <1>1, PTL

(* The cache holds answers only, each under its own key.                   *)
THEOREM CacheCorrect == Spec => []CacheHoldsAnswers
<1>1. TypeOK /\ OwnInv => CacheHoldsAnswers
  BY DEF OwnInv, RowIsOwn, MadeFor, CacheHoldsAnswers
<1> QED
  BY OwnAlways, <1>1, PTL

(* The most a model and the knowledge can add to the scanner's confidence. *)
LEMMA ScoreBound ==
  ASSUME NEW i \in Inputs, NEW m \in Percent
  PROVE  Score(i, m) <= 3 * (i.cand.scanner * WScanner
                               + 100 * (WModel + WRag + WEvidence))
<1> DEFINE a == i.cand.scanner * WScanner
           b == m * WModel
           c == RagScore(i) * WRag
           d == EvidenceThirds(i) * WEvidence
<1>1. /\ i.cand.scanner \in Nat /\ m \in Nat /\ m <= 100
      /\ RagScore(i) \in Nat /\ RagScore(i) <= 100
      /\ EvidenceThirds(i) \in Nat /\ EvidenceThirds(i) <= 3
      /\ 100 \in Nat /\ 3 \in Nat
  BY InputType DEF Percent
<1>2. a \in Nat /\ b \in Nat /\ c \in Nat /\ d \in Nat
  BY <1>1, NumbersAreNatural, ProductIsNatural
<1>3. b <= 100 * WModel /\ c <= 100 * WRag /\ d <= 3 * WEvidence
  BY <1>1, NumbersAreNatural, ProductIsMonotone
<1>4. 100 * EvidenceThirds(i) * WEvidence = 100 * d
  BY <1>1, NumbersAreNatural
<1>5. Score(i, m) = Clamp(3 * (a + b + c) + 100 * d)
  BY <1>4 DEF Score
<1> HIDE DEF a, b, c, d
<1>6. \A x \in Nat : Clamp(x) <= x
  BY DEF Clamp, Unit
<1>7. Score(i, m) <= 3 * (a + b + c) + 100 * d
  BY <1>2, <1>5, <1>6
<1>8. Score(i, m) \in Int
  BY <1>2, <1>5 DEF Clamp, Unit
<1>9. 3 * (a + b + c) + 100 * d
        <= 3 * (a + 100 * (WModel + WRag + WEvidence))
  BY <1>2, <1>3, NumbersAreNatural
<1>10. Score(i, m) <= 3 * (a + 100 * (WModel + WRag + WEvidence))
  BY <1>2, <1>7, <1>8, <1>9, NumbersAreNatural
<1> QED
  BY <1>10 DEF a

(* No model and no knowledge makes a finding likely by itself.             *)
THEOREM ScannerCorrect == Spec => []LikelyNeedsTheScanner
<1>1. ASSUME TypeOK, OwnInv, NEW s \in Scans, NEW c \in Candidates,
             attached[s][c] \notin {NoAnalysis, Lost},
             attached[s][c].status = "likely"
      PROVE  c.scanner * WScanner + 100 * (WModel + WRag + WEvidence)
               >= 100 * High
  <2> DEFINE a == attached[s][c]
             i == Input(s, c)
             sum == c.scanner * WScanner + 100 * (WModel + WRag + WEvidence)
  <2>1. a \in Analyses /\ GatedFor(a, i)
    BY <1>1 DEF TypeOK, OwnInv, MadeFor
  <2>2. i \in Inputs /\ i.cand = c
    BY <1>1, InputOf DEF Input
  <2>3. a.model_confidence \in Percent /\ a.confidence \in Int
    <3>1. a.model_confidence \in Percent /\ a.confidence \in Confidences
      BY <2>1 DEF Analyses
    <3> QED BY <3>1, ConfidenceIsInteger
  <2>4. a.confidence >= High * Unit
    BY <1>1, <2>1 DEF GatedFor, Gate
  <2>5. a.confidence <= Score(i, a.model_confidence)
    BY <2>1 DEF GatedFor
  <2>6. /\ Score(i, a.model_confidence) \in Int
        /\ Score(i, a.model_confidence) <= 3 * sum
    <3> HIDE DEF a, i
    <3>1. Score(i, a.model_confidence) \in Int
      BY <2>2, <2>3, ScoreType, ConfidenceIsInteger
    <3>2. Score(i, a.model_confidence)
            <= 3 * (i.cand.scanner * WScanner + 100 * (WModel + WRag + WEvidence))
      BY <2>2, <2>3, ScoreBound
    <3> QED BY <2>2, <3>1, <3>2
  <2>7. sum \in Int
    <3>1. c.scanner \in Nat
      BY SetsAssumption DEF Profiles, Percent
    <3>2. c.scanner * WScanner \in Nat
      BY <3>1, NumbersAreNatural, ProductIsNatural
    <3> QED BY <3>2, NumbersAreNatural
  <2> HIDE DEF a, i, sum
  <2>8. High * 300 <= 3 * sum
    BY <2>3, <2>4, <2>5, <2>6, <2>7, NumbersAreNatural DEF Unit
  <2>9. sum >= 100 * High
    BY <2>7, <2>8, NumbersAreNatural
  <2> QED
    BY <2>9 DEF sum
<1>2. TypeOK /\ OwnInv => LikelyNeedsTheScanner
  BY <1>1 DEF LikelyNeedsTheScanner
<1> QED
  BY OwnAlways, <1>2, PTL
-----------------------------------------------------------------------------
(* A candidate that is worth a model's time.                               *)
Askable(s, c) == ~PassedOver(s, c) /\ Available(s, c)

(* A candidate of a scan has no analysis as long as its turn is not over;  *)
(* one that is passed over never has any.                                  *)
OnceOf(s) ==
  /\ cand[s] \in Candidates => Askable(s, cand[s])
  /\ \A c \in Candidates :
       (attached[s][c] = NoAnalysis)
         <=> (c \in todo[s] \/ c = cand[s] \/ PassedOver(s, c))

OnceInv == \A s \in Scans : OnceOf(s)

(* The scans that do not move keep their candidates and analyses.          *)
LEMMA OnceElsewhere ==
  ASSUME OnceInv, NEW t \in Scans, UNCHANGED context,
         cand'[t] = cand[t], todo'[t] = todo[t], attached'[t] = attached[t]
  PROVE  OnceOf(t)'
BY DEF OnceInv, OnceOf, Askable, PassedOver, Available, Input

(* Attaching ends the turn of the candidate at hand, or of one just taken. *)
LEMMA AttachOnce ==
  ASSUME TypeOK, OnceInv, NEW s \in Scans, NEW c \in Candidates,
         NEW a \in Analyses \cup {Lost}, Attach(s, c, a), UNCHANGED context,
         ~PassedOver(s, c), cand[s] \in {c, NoCandidate},
         todo' = [todo EXCEPT ![s] = @ \ {c}]
  PROVE  OnceInv'
<1>1. a # NoAnalysis
  BY NullsAssumption
<1>2. OnceOf(s)'
  <2>1. cand'[s] = NoCandidate /\ NoCandidate \notin Candidates
    BY NullsAssumption DEF Attach, TypeOK
  <2>2. ASSUME NEW d \in Candidates
        PROVE  (attached'[s][d] = NoAnalysis)
                 <=> (d \in todo'[s] \/ d = cand'[s] \/ PassedOver(s, d)')
    <3>1. PassedOver(s, d)' <=> PassedOver(s, d)
      BY DEF PassedOver
    <3>2. CASE d = c
      BY <1>1, <2>1, <3>1, <3>2 DEF Attach, TypeOK
    <3>3. CASE d # c
      BY <2>1, <3>1, <3>3 DEF Attach, TypeOK, OnceInv, OnceOf
    <3> QED BY <3>2, <3>3
  <2> QED BY <2>1, <2>2 DEF OnceOf
<1>3. ASSUME NEW t \in Scans, t # s
      PROVE  OnceOf(t)'
  BY <1>3, OnceElsewhere DEF Attach, TypeOK
<1> QED
  BY <1>2, <1>3 DEF OnceInv

(* Every step that neither takes nor finishes a candidate.                 *)
LEMMA OthersOnce ==
  ASSUME OnceInv, UNCHANGED <<context, todo, cand, attached>>
  PROVE  OnceInv'
BY DEF OnceInv, OnceOf, Askable, PassedOver, Available, Input

(* The end of the turn of the candidate at hand.                           *)
LEMMA FinishOnce ==
  ASSUME TypeOK, OnceInv, NEW s \in Scans, NEW a \in Analyses \cup {Lost},
         pc[s] \in {"lookup", "purge", "ask", "retry", "store"},
         Attach(s, cand[s], a), UNCHANGED <<context, todo>>
  PROVE  OnceInv'
<1>1. cand[s] \in Candidates /\ cand[s] \notin todo[s]
  BY AtHand
<1>2. ~PassedOver(s, cand[s])
  BY <1>1 DEF OnceInv, OnceOf, Askable
<1>3. todo' = [todo EXCEPT ![s] = @ \ {cand[s]}]
  BY <1>1 DEF TypeOK
<1> QED
  BY <1>1, <1>2, <1>3, AttachOnce

(* Every step keeps a candidate's turn and its analysis together.          *)
LEMMA OnceStep == TypeOK /\ OnceInv /\ [Next]_vars => OnceInv'
<1> SUFFICES ASSUME TypeOK, OnceInv, [Next]_vars PROVE OnceInv'
  OBVIOUS
<1>1. ASSUME NEW s \in Scans, NEW c \in Candidates, PassOver(s, c)
      PROVE  OnceInv'
  <2>1. OnceOf(s)'
    <3>1. OnceOf(s) /\ PassedOver(s, c)
      BY <1>1 DEF PassOver, OnceInv
    <3>2. /\ UNCHANGED <<context, cand, attached>>
          /\ todo'[s] = todo[s] \ {c}
      BY <1>1 DEF PassOver, TypeOK
    <3>3. \A d : (PassedOver(s, d)' <=> PassedOver(s, d))
                /\ (Available(s, d)' <=> Available(s, d))
      BY <3>2 DEF PassedOver, Available, Input
    <3> QED BY <3>1, <3>2, <3>3 DEF OnceOf, Askable
  <2>2. ASSUME NEW t \in Scans, t # s
        PROVE  OnceOf(t)'
    BY <1>1, <2>2, OnceElsewhere DEF PassOver, TypeOK
  <2> QED BY <2>1, <2>2 DEF OnceInv
<1>2. ASSUME NEW s \in Scans, NEW c \in Candidates, Unavailable(s, c)
      PROVE  OnceInv'
  <2>1. Fallback(s, Input(s, c)) \in Analyses
    BY FallbackIsOwn DEF Own
  <2>2. cand[s] = NoCandidate
    BY <1>2 DEF Unavailable, TypeOK, ThreadState
  <2> QED
    BY <1>2, <2>1, <2>2, AttachOnce DEF Unavailable
<1>3. ASSUME NEW s \in Scans, NEW c \in Candidates, Take(s, c)
      PROVE  OnceInv'
  <2>1. cand[s] = NoCandidate /\ NoCandidate \notin Candidates
    BY <1>3, NullsAssumption DEF Take, TypeOK, ThreadState
  <2>2. OnceOf(s)'
    <3>1. OnceOf(s) /\ Askable(s, c) /\ c \in todo[s]
      BY <1>3 DEF Take, OnceInv, Askable
    <3>2. /\ UNCHANGED <<context, attached>>
          /\ cand'[s] = c /\ todo'[s] = todo[s] \ {c}
      BY <1>3 DEF Take, TypeOK
    <3>3. \A d : (PassedOver(s, d)' <=> PassedOver(s, d))
                /\ (Available(s, d)' <=> Available(s, d))
      BY <3>2 DEF PassedOver, Available, Input
    <3> QED BY <2>1, <3>1, <3>2, <3>3 DEF OnceOf, Askable
  <2>3. ASSUME NEW t \in Scans, t # s
        PROVE  OnceOf(t)'
    BY <1>3, <2>3, OnceElsewhere DEF Take, TypeOK
  <2> QED BY <2>2, <2>3 DEF OnceInv
<1>4. ASSUME NEW s \in Scans, CacheHit(s)
      PROVE  OnceInv'
  <2> DEFINE e == cache[CacheKey(s, cand[s])]
  <2>1. e \in Entries
    BY <1>4, AtHand DEF CacheHit, TypeOK
  <2>2. e.analysis \in Analyses
    BY <2>1 DEF Entries
  <2> QED
    BY <1>4, <2>2, FinishOnce DEF CacheHit
<1>5. ASSUME NEW s \in Scans, CacheMiss(s)
      PROVE  OnceInv'
  BY <1>5, OthersOnce DEF CacheMiss
<1>6. ASSUME NEW s \in Scans, CacheDelete(s)
      PROVE  OnceInv'
  BY <1>6, OthersOnce DEF CacheDelete
<1>7. ASSUME NEW s \in Scans, NEW answered \in BOOLEAN, Call(s, answered)
      PROVE  OnceInv'
  BY <1>7, OthersOnce DEF Call
<1>8. ASSUME NEW s \in Scans, Store(s)
      PROVE  OnceInv'
  <2>1. pend[s] \in Analyses
    BY <1>8 DEF Store, TypeOK, ThreadState
  <2> QED
    BY <1>8, <2>1, FinishOnce DEF Store
<1>9. ASSUME NEW s \in Scans, CacheError(s)
      PROVE  OnceInv'
  BY <1>9, FinishOnce DEF CacheError
<1>10. ASSUME NEW s \in Scans, Finish(s)
       PROVE  OnceInv'
  BY <1>10, OthersOnce DEF Finish
<1>11. CASE Tick
  BY <1>11, OthersOnce DEF Tick
<1>12. CASE UNCHANGED vars
  BY <1>12, OthersOnce DEF vars
<1> QED
  BY <1>1, <1>2, <1>3, <1>4, <1>5, <1>6, <1>7, <1>8, <1>9, <1>10, <1>11,
     <1>12 DEF Next, Step, Answered, AnswerRejected, AnswerNotJson,
               ProviderFails

(* No candidate has an analysis when the phases start.                     *)
LEMMA OnceInit == Init => OnceInv
BY NullsAssumption DEF Init, OnceInv, OnceOf

(* Every candidate is analysed, and none twice.                            *)
THEOREM OnceCorrect == Spec => []EachAnalysedOnce
<1>1. ASSUME TypeOK, OnceInv PROVE EachAnalysedOnce
  <2>1. ASSUME NEW s \in Scans, NEW c \in Candidates, pc[s] = "done"
        PROVE  (attached[s][c] = NoAnalysis) <=> PassedOver(s, c)
    <3>1. todo[s] = {} /\ cand[s] = NoCandidate
      BY <1>1, <2>1 DEF TypeOK, ThreadState
    <3>2. c # NoCandidate
      BY NullsAssumption
    <3> QED BY <1>1, <3>1, <3>2 DEF OnceInv, OnceOf
  <2>2. ASSUME NEW s \in Scans, NEW c \in todo[s] \cup {cand[s]},
               c \in Candidates
        PROVE  attached[s][c] = NoAnalysis
    BY <1>1, <2>2 DEF OnceInv, OnceOf
  <2>3. \A s \in Scans, c \in Candidates : PassedOver(s, c) \in BOOLEAN
    BY DEF PassedOver
  <2> HIDE DEF PassedOver
  <2> QED BY <2>1, <2>2, <2>3 DEF EachAnalysedOnce
<1>2. TypeOK /\ OnceInv /\ [Next]_vars => (TypeOK /\ OnceInv)'
  BY TypeStep, OnceStep
<1> QED
  BY TypeInit, OnceInit, <1>1, <1>2, PTL DEF Spec
-----------------------------------------------------------------------------
(* The candidates a scan has taken to a model or to the cache.             *)
Asked(s) == {c \in Candidates \ todo[s] : Askable(s, c)}

(* The calls the candidate at hand may still cost, and the miss it may     *)
(* still be counted as.                                                    *)
Credit(place) == IF place = "ask" THEN 2 ELSE IF place = "retry" THEN 1 ELSE 0

Debt(place) == IF place \in {"lookup", "purge"} THEN 1 ELSE 0

(* r calls recorded of k made, for m misses of n candidates.               *)
Fits(place, r, k, m, n) ==
  r <= k /\ k + Credit(place) <= 2 * m /\ m + Debt(place) <= n

CountsOf(s) ==
  Fits(pc[s], recorded[s], calls[s], misses[s], Cardinality(Asked(s)))

CountInv == \A s \in Scans : CountsOf(s)

(* Asked is finite, and grows by what is taken.                            *)
LEMMA AskedSize ==
  ASSUME TypeOK, NEW s \in Scans
  PROVE  /\ Cardinality(Asked(s)) \in Nat
         /\ \A c \in todo[s] :
              Cardinality(Asked(s) \cup {c}) = Cardinality(Asked(s)) + 1
<1>1. IsFiniteSet(Asked(s))
  BY SetsAssumption, FS_Subset DEF Asked
<1>2. \A c \in todo[s] : c \notin Asked(s)
  BY DEF Asked
<1> QED
  BY <1>1, <1>2, FS_CardinalityType, FS_AddElement

(* A scan that does not move keeps its counts.                             *)
LEMMA CountsElsewhere ==
  ASSUME CountInv, NEW t \in Scans, UNCHANGED context,
         pc'[t] = pc[t], todo'[t] = todo[t], recorded'[t] = recorded[t],
         calls'[t] = calls[t], misses'[t] = misses[t]
  PROVE  CountsOf(t)'
<1>1. Asked(t)' = Asked(t)
  BY DEF Asked, Askable, PassedOver, Available, Input
<1> QED
  BY <1>1 DEF CountInv, CountsOf

(* The numbers of a step that takes no candidate.                          *)
LEMMA CountsHere ==
  ASSUME TypeOK, CountInv, NEW s \in Scans, UNCHANGED context,
         Asked(s)' = Asked(s),
         NEW place, NEW r, NEW k, NEW m,
         pc'[s] = place, recorded'[s] = r, calls'[s] = k, misses'[s] = m,
         \A n \in Nat : Fits(pc[s], recorded[s], calls[s], misses[s], n)
                        => Fits(place, r, k, m, n)
  PROVE  CountsOf(s)'
BY AskedSize DEF CountInv, CountsOf

(* Attaching ends what a candidate may cost.                               *)
LEMMA AttachCounts ==
  ASSUME TypeOK, CountInv, NEW s \in Scans, NEW c \in Candidates, NEW a,
         Attach(s, c, a), UNCHANGED <<context, misses, recorded, calls>>,
         Asked(s)' = Asked(s), \A t \in Scans \ {s} : todo'[t] = todo[t]
  PROVE  CountInv'
<1>1. pc'[s] = "select" /\ \A t \in Scans \ {s} : pc'[t] = pc[t]
  BY DEF Attach, TypeOK
<1>2. \A n \in Nat : Fits(pc[s], recorded[s], calls[s], misses[s], n)
        => Fits("select", recorded[s], calls[s], misses[s], n)
  BY DEF Fits, Credit, Debt, TypeOK
<1>3. CountsOf(s)'
  BY <1>1, <1>2, CountsHere
<1>4. ASSUME NEW t \in Scans, t # s
      PROVE  CountsOf(t)'
  BY <1>1, <1>4, CountsElsewhere
<1> QED
  BY <1>3, <1>4 DEF CountInv

(* With the same candidates left, the same ones have been asked about.     *)
LEMMA AskedFixed ==
  ASSUME NEW s \in Scans, UNCHANGED <<context, todo>>
  PROVE  Asked(s)' = Asked(s)
BY DEF Asked, Askable, PassedOver, Available, Input

(* A call uses up one of the two a candidate may cost.                     *)
LEMMA CallCounts ==
  ASSUME TypeOK, CountInv, NEW s \in Scans, NEW answered \in BOOLEAN,
         Call(s, answered), pc[s] \in {"ask", "retry"},
         NEW place \in {"retry", "store"}, pc' = [pc EXCEPT ![s] = place],
         place = "retry" => pc[s] = "ask"
  PROVE  CountInv'
<1>1. /\ calls'[s] = calls[s] + 1
      /\ recorded'[s] \in {recorded[s], recorded[s] + 1}
      /\ pc'[s] = place /\ UNCHANGED <<context, todo, misses>>
      /\ \A t \in Scans \ {s} :
           pc'[t] = pc[t] /\ recorded'[t] = recorded[t] /\ calls'[t] = calls[t]
  BY DEF Call, TypeOK
<1>2. ASSUME NEW r \in {recorded[s], recorded[s] + 1}, NEW n \in Nat,
             Fits(pc[s], recorded[s], calls[s], misses[s], n)
      PROVE  Fits(place, r, calls[s] + 1, misses[s], n)
  BY <1>2 DEF Fits, Credit, Debt, TypeOK
<1>3. CountsOf(s)'
  BY <1>1, <1>2, AskedFixed, CountsHere
<1>4. ASSUME NEW t \in Scans, t # s
      PROVE  CountsOf(t)'
  BY <1>1, <1>4, CountsElsewhere
<1> QED
  BY <1>3, <1>4 DEF CountInv

(* Every step pays for its calls with a miss, and for its miss with a      *)
(* candidate.                                                              *)
LEMMA CountStep == TypeOK /\ CountInv /\ [Next]_vars => CountInv'
<1> SUFFICES ASSUME TypeOK, CountInv, [Next]_vars PROVE CountInv'
  OBVIOUS
<1>0. UNCHANGED context
  BY ContextFixed
<1>1. ASSUME NEW s \in Scans, NEW c \in Candidates,
             todo' = [todo EXCEPT ![s] = @ \ {c}]
      PROVE  /\ ~Askable(s, c) => Asked(s)' = Asked(s)
             /\ Askable(s, c) => Asked(s)' = Asked(s) \cup {c}
             /\ \A t \in Scans \ {s} : todo'[t] = todo[t]
  <2>1. todo'[s] = todo[s] \ {c} /\ \A t \in Scans \ {s} : todo'[t] = todo[t]
    BY <1>1 DEF TypeOK
  <2>2. \A d : Askable(s, d)' <=> Askable(s, d)
    BY <1>0 DEF Askable, PassedOver, Available, Input
  <2> QED BY <2>1, <2>2 DEF Asked
<1>2. ASSUME NEW s \in Scans, NEW c \in Candidates, PassOver(s, c)
      PROVE  CountInv'
  <2>1. /\ Asked(s)' = Asked(s) /\ UNCHANGED <<pc, misses, recorded, calls>>
        /\ \A t \in Scans \ {s} : todo'[t] = todo[t]
    BY <1>1, <1>2 DEF PassOver, Askable
  <2>2. CountsOf(s)'
    BY <1>0, <2>1, CountsHere
  <2>3. ASSUME NEW t \in Scans, t # s
        PROVE  CountsOf(t)'
    BY <1>0, <2>1, <2>3, CountsElsewhere
  <2> QED BY <2>2, <2>3 DEF CountInv
<1>3. ASSUME NEW s \in Scans, NEW c \in Candidates, Unavailable(s, c)
      PROVE  CountInv'
  <2>1. /\ Asked(s)' = Asked(s) /\ UNCHANGED <<misses, recorded, calls>>
        /\ \A t \in Scans \ {s} : todo'[t] = todo[t]
    BY <1>1, <1>3 DEF Unavailable, Askable
  <2> QED
    BY <1>0, <1>3, <2>1, AttachCounts DEF Unavailable
<1>4. ASSUME NEW s \in Scans, NEW c \in Candidates, Take(s, c)
      PROVE  CountInv'
  <2>1. /\ Asked(s)' = Asked(s) \cup {c} /\ c \in todo[s]
        /\ \A t \in Scans \ {s} : todo'[t] = todo[t]
    BY <1>1, <1>4 DEF Take, Askable
  <2>2. Cardinality(Asked(s))' = Cardinality(Asked(s)) + 1
    BY <2>1, AskedSize
  <2>3. pc[s] = "select" /\ UNCHANGED <<recorded, calls>>
    BY <1>4 DEF Take
  <2>4. \/ pc'[s] = "lookup" /\ misses'[s] = misses[s]
        \/ pc'[s] = "ask" /\ misses'[s] = misses[s] + 1
    BY <1>4 DEF Take, TypeOK
  <2>5. CountsOf(s)'
    <3>1. Cardinality(Asked(s)) \in Nat
      BY AskedSize
    <3>2. Fits("select", recorded[s], calls[s], misses[s], Cardinality(Asked(s)))
      BY <2>3 DEF CountInv, CountsOf
    <3>3. /\ recorded[s] \in Nat /\ calls[s] \in Nat /\ misses[s] \in Nat
      BY DEF TypeOK
    <3>4. \A r, k, m, n \in Nat :
            Fits("select", r, k, m, n)
              => Fits("lookup", r, k, m, n + 1) /\ Fits("ask", r, k, m + 1, n + 1)
      BY DEF Fits, Credit, Debt
    <3>5. /\ Fits("lookup", recorded[s], calls[s], misses[s],
                   Cardinality(Asked(s)) + 1)
          /\ Fits("ask", recorded[s], calls[s], misses[s] + 1,
                   Cardinality(Asked(s)) + 1)
      BY <3>1, <3>2, <3>3, <3>4
    <3> QED BY <2>2, <2>3, <2>4, <3>5 DEF CountsOf
  <2>6. ASSUME NEW t \in Scans, t # s
        PROVE  CountsOf(t)'
    BY <1>0, <1>4, <2>1, <2>6, CountsElsewhere DEF Take, TypeOK
  <2> QED BY <2>5, <2>6 DEF CountInv
<1>5. ASSUME NEW s \in Scans, CacheHit(s)
      PROVE  CountInv'
  <2>1. cand[s] \in Candidates
    BY <1>5, AtHand DEF CacheHit
  <2> QED
    BY <1>5, <2>1, AskedFixed, AttachCounts DEF CacheHit
<1>6. ASSUME NEW s \in Scans, CacheMiss(s) \/ CacheDelete(s)
      PROVE  CountInv'
  <2>1. /\ pc[s] \in {"lookup", "purge"} /\ UNCHANGED <<recorded, calls, todo>>
        /\ \/ pc' = [pc EXCEPT ![s] = "ask"]
              /\ misses' = [misses EXCEPT ![s] = @ + 1]
           \/ pc' = [pc EXCEPT ![s] = "purge"] /\ misses' = misses
    BY <1>6 DEF CacheMiss, CacheDelete
  <2>2. \/ pc'[s] = "ask" /\ misses'[s] = misses[s] + 1
        \/ pc'[s] = "purge" /\ misses'[s] = misses[s]
    BY <2>1 DEF TypeOK
  <2>3. \A n \in Nat :
          Fits(pc[s], recorded[s], calls[s], misses[s], n)
            => /\ Fits("ask", recorded[s], calls[s], misses[s] + 1, n)
               /\ Fits("purge", recorded[s], calls[s], misses[s], n)
    BY <2>1 DEF Fits, Credit, Debt, TypeOK
  <2>4. CountsOf(s)'
    BY <1>0, <2>1, <2>2, <2>3, AskedFixed, CountsHere
  <2>5. ASSUME NEW t \in Scans, t # s
        PROVE  CountsOf(t)'
    <3>1. pc'[t] = pc[t] /\ misses'[t] = misses[t]
      BY <2>1, <2>5 DEF TypeOK
    <3> QED
      BY <1>0, <2>1, <3>1, CountsElsewhere
  <2> QED BY <2>4, <2>5 DEF CountInv
<1>7. ASSUME NEW s \in Scans, NEW p \in Payloads, Answered(s, p)
      PROVE  CountInv'
  BY <1>7, CallCounts DEF Answered, Pending
<1>8. ASSUME NEW s \in Scans,
             AnswerRejected(s) \/ AnswerNotJson(s) \/ ProviderFails(s)
      PROVE  CountInv'
  <2>1. PICK answered \in BOOLEAN : Call(s, answered)
    BY <1>8 DEF AnswerRejected, AnswerNotJson, ProviderFails
  <2>2. /\ pc[s] \in {"ask", "retry"}
        /\ \/ pc' = [pc EXCEPT ![s] = "store"]
           \/ pc[s] = "ask" /\ pc' = [pc EXCEPT ![s] = "retry"]
    BY <1>8 DEF AnswerRejected, AnswerNotJson, ProviderFails, Pending
  <2> QED
    BY <2>1, <2>2, CallCounts
<1>9. ASSUME NEW s \in Scans, Store(s) \/ CacheError(s)
      PROVE  CountInv'
  <2>1. cand[s] \in Candidates
    BY <1>9, AtHand DEF Store, CacheError
  <2> QED
    BY <1>9, <2>1, AskedFixed, AttachCounts DEF Store, CacheError
<1>10. ASSUME NEW s \in Scans, Finish(s)
       PROVE  CountInv'
  <2>1. pc[s] = "select" /\ pc'[s] = "done"
    BY <1>10 DEF Finish, TypeOK
  <2>2. CountsOf(s)'
    <3>1. \A n \in Nat :
            Fits(pc[s], recorded[s], calls[s], misses[s], n)
              => Fits("done", recorded[s], calls[s], misses[s], n)
      BY <2>1 DEF Fits, Credit, Debt
    <3> QED
      BY <1>10, <2>1, <3>1, AskedFixed, CountsHere DEF Finish
  <2>3. ASSUME NEW t \in Scans, t # s
        PROVE  CountsOf(t)'
    BY <1>10, <2>3, CountsElsewhere DEF Finish, TypeOK
  <2> QED BY <2>2, <2>3 DEF CountInv
<1>11. CASE Tick
  BY <1>11, CountsElsewhere DEF Tick, CountInv
<1>12. CASE UNCHANGED vars
  BY <1>12, CountsElsewhere DEF vars, CountInv
<1> QED
  BY <1>2, <1>3, <1>4, <1>5, <1>6, <1>7, <1>8, <1>9, <1>10, <1>11, <1>12
     DEF Next, Step

(* Nothing is counted when the phases start.                               *)
LEMMA CountInit == Init => CountInv
<1> SUFFICES ASSUME Init PROVE CountInv
  OBVIOUS
<1>1. ASSUME NEW s \in Scans
      PROVE  CountsOf(s)
  <2>1. Cardinality(Asked(s)) \in Nat
    BY TypeInit, AskedSize
  <2> QED
    BY <2>1 DEF Init, CountsOf, Fits, Credit, Debt
<1> QED
  BY <1>1 DEF CountInv

(* A finding costs at most two calls, and one the cache answers none.      *)
THEOREM CallsCorrect == Spec => []CallsBounded
<1>1. ASSUME TypeOK, CountInv PROVE CallsBounded
  <2>1. ASSUME NEW s \in Scans
        PROVE  /\ recorded[s] <= calls[s] /\ calls[s] <= 2 * misses[s]
               /\ misses[s] <= Cardinality(Asked(s))
    <3>1. /\ recorded[s] \in Nat /\ calls[s] \in Nat /\ misses[s] \in Nat
          /\ Cardinality(Asked(s)) \in Nat
      BY <1>1, AskedSize DEF TypeOK
    <3> QED
      BY <1>1, <3>1 DEF CountInv, CountsOf, Fits, Credit, Debt
  <2> QED
    BY <2>1 DEF CallsBounded, Asked, Askable
<1>2. TypeOK /\ CountInv /\ [Next]_vars => (TypeOK /\ CountInv)'
  BY TypeStep, CountStep
<1> QED
  BY TypeInit, CountInit, <1>1, <1>2, PTL DEF Spec
-----------------------------------------------------------------------------
(* No scan makes more than two calls for a candidate.                      *)
CallLimit == \A s \in Scans : calls[s] <= 2 * Cardinality(Candidates)

LEMMA CallsWithinLimit == TypeOK /\ CallsBounded => CallLimit
<1> SUFFICES ASSUME TypeOK, CallsBounded, NEW s \in Scans
             PROVE  calls[s] <= 2 * Cardinality(Candidates)
  BY DEF CallLimit
<1> DEFINE A == {c \in Candidates \ todo[s] :
                   ~PassedOver(s, c) /\ Available(s, c)}
<1>1. IsFiniteSet(Candidates) /\ A \subseteq Candidates
  BY SetsAssumption
<1>2. /\ Cardinality(A) <= Cardinality(Candidates)
      /\ Cardinality(A) \in Nat /\ Cardinality(Candidates) \in Nat
  BY <1>1, FS_Subset, FS_CardinalityType
<1>3. calls[s] <= 2 * misses[s] /\ misses[s] <= Cardinality(A)
  BY DEF CallsBounded
<1>4. calls[s] \in Nat /\ misses[s] \in Nat
  BY DEF TypeOK
<1> HIDE DEF A
<1> QED BY <1>2, <1>3, <1>4

(* The invariants that a step needs to be a step of the contract.          *)
SafetyInv ==
  TypeOK /\ OnceInv /\ AnalysesAreTheirOwn /\ EachAnalysedOnce /\ CallLimit

LEMMA SafetyInvariant == Spec => []SafetyInv
<1>1. TypeOK /\ OnceInv /\ [Next]_vars => (TypeOK /\ OnceInv)'
  BY TypeStep, OnceStep
<1>2. Spec => [](TypeOK /\ OnceInv)
  BY TypeInit, OnceInit, <1>1, PTL DEF Spec
<1>3. Spec => []CallLimit
  BY TypeCorrect, CallsCorrect, CallsWithinLimit, PTL
<1> QED
  BY <1>2, <1>3, OwnCorrect, OnceCorrect, PTL DEF SafetyInv

(* The questions are settled before the phase begins.                      *)
LEMMA QuestionsFixed == UNCHANGED context => UNCHANGED Questions
BY DEF Questions, Input, Route

(* A step that attaches an analysis is the contract's Settle.              *)
LEMMA AttachIsSettle ==
  ASSUME SafetyInv, SafetyInv', NEW s \in Scans, NEW c \in Candidates,
         NEW a \in Analyses \cup {Lost}, Attach(s, c, a), pc[s] # "done",
         attached[s][c] = NoAnalysis, ~PassedOver(s, c),
         UNCHANGED <<context, calls>>
  PROVE  Contract!Settle(s, c)
<1> USE DEF SafetyInv
<1>1. PhaseState[s] = "open"
  BY DEF PhaseState
<1>2. attached' = [attached EXCEPT ![s][c] = attached'[s][c]]
      /\ attached'[s][c] = a /\ a # NoAnalysis
  BY NullsAssumption DEF Attach, TypeOK
<1>3. UNCHANGED PhaseState
  BY DEF Attach, TypeOK, PhaseState
<1>4. UNCHANGED Questions
  BY QuestionsFixed
<1>5. /\ Questions[s][c].input = Input(s, c)
      /\ Questions[s][c].model = Route(s, Input(s, c))
  BY DEF Questions
<1>6. OwedFor(Questions[s][c])
  BY <1>5 DEF OwedFor, PassedOver, Input
<1>7. FitsInput(Questions[s][c], attached'[s][c])
  <2>1. CASE a = Lost
    BY <1>2, <2>1 DEF FitsInput
  <2>2. CASE a # Lost
    <3>1. GatedFor(a, Input(s, c)') /\ a.model = Route(s, Input(s, c)')
      BY <1>2, <2>2 DEF AnalysesAreTheirOwn, Route
    <3>2. Input(s, c)' = Input(s, c)
      BY DEF Input
    <3> QED BY <1>2, <1>5, <2>2, <3>1, <3>2 DEF FitsInput
  <2> QED BY <2>1, <2>2
<1> QED
  BY <1>1, <1>2, <1>3, <1>4, <1>6, <1>7 DEF Contract!Settle

(* A step that leaves the analyses alone makes one call or nothing.        *)
LEMMA OtherIsSpend ==
  ASSUME SafetyInv, SafetyInv', NEW s \in Scans, pc[s] # "done",
         UNCHANGED <<PhaseState, context, attached>>,
         calls' \in {calls, [calls EXCEPT ![s] = @ + 1]}
  PROVE  Contract!Spend(s) \/ UNCHANGED Contract!vars
<1>1. PhaseState[s] = "open" /\ UNCHANGED Questions
  BY QuestionsFixed DEF PhaseState
<1>2. CASE calls' = calls
  BY <1>1, <1>2 DEF Contract!vars
<1>3. CASE calls' = [calls EXCEPT ![s] = @ + 1]
  <2>1. calls[s] \in Nat /\ calls'[s] = calls[s] + 1
    BY <1>3 DEF SafetyInv, TypeOK
  <2>2. calls'[s] <= 2 * Cardinality(Candidates)
    BY DEF SafetyInv, CallLimit
  <2>3. Cardinality(Candidates) \in Nat
    BY SetsAssumption, FS_CardinalityType
  <2>4. calls[s] < 2 * Cardinality(Candidates)
    BY <2>1, <2>2, <2>3
  <2> QED BY <1>1, <1>3, <2>4 DEF Contract!Spend
<1> QED BY <1>2, <1>3

(* Every step of the phase is a step of the contract or nothing to it.     *)
LEMMA ContractStep ==
  SafetyInv /\ SafetyInv' /\ [Next]_vars => [Contract!Next]_(Contract!vars)
<1> SUFFICES ASSUME SafetyInv, SafetyInv', [Next]_vars
             PROVE  Contract!Next \/ UNCHANGED Contract!vars
  OBVIOUS
<1> USE DEF SafetyInv
<1>0. UNCHANGED context
  BY ContextFixed
<1>1. ASSUME NEW s \in Scans, NEW c \in Candidates, Unavailable(s, c)
      PROVE  Contract!Settle(s, c)
  <2>1. Fallback(s, Input(s, c)) \in Analyses
    BY FallbackIsOwn DEF Own
  <2>2. /\ pc[s] = "select" /\ c \in todo[s] /\ ~PassedOver(s, c)
        /\ UNCHANGED <<context, calls>>
    BY <1>1 DEF Unavailable
  <2>3. attached[s][c] = NoAnalysis
    BY <2>2 DEF OnceInv, OnceOf
  <2> QED BY <1>1, <2>1, <2>2, <2>3, AttachIsSettle DEF Unavailable
<1>2. ASSUME NEW s \in Scans, CacheHit(s) \/ Store(s) \/ CacheError(s)
      PROVE  cand[s] \in Candidates /\ Contract!Settle(s, cand[s])
  <2>1. /\ pc[s] \in {"lookup", "purge", "ask", "retry", "store"}
        /\ UNCHANGED <<context, calls>>
    BY <1>2 DEF CacheHit, Store, CacheError
  <2>2. cand[s] \in Candidates /\ cand[s] \notin todo[s]
    BY <2>1, AtHand
  <2>3. attached[s][cand[s]] = NoAnalysis /\ ~PassedOver(s, cand[s])
    BY <2>2 DEF OnceInv, OnceOf, Askable
  <2>4. PICK a \in Analyses \cup {Lost} : Attach(s, cand[s], a)
    <3>1. CASE CacheHit(s)
      <4>1. cache[CacheKey(s, cand[s])] \in Entries
        BY <2>1, <3>1, AtHand DEF CacheHit, TypeOK
      <4>2. cache[CacheKey(s, cand[s])].analysis \in Analyses
        BY <4>1 DEF Entries
      <4> QED BY <3>1, <4>2 DEF CacheHit
    <3>2. CASE Store(s)
      BY <3>2 DEF Store, TypeOK, ThreadState
    <3>3. CASE CacheError(s)
      BY <3>3 DEF CacheError
    <3> QED BY <1>2, <3>1, <3>2, <3>3
  <2> QED BY <2>1, <2>2, <2>3, <2>4, AttachIsSettle
<1>3. ASSUME NEW s \in Scans,
             \/ \E c \in Candidates : PassOver(s, c) \/ Take(s, c)
             \/ CacheMiss(s) \/ CacheDelete(s)
             \/ \E p \in Payloads : Answered(s, p)
             \/ AnswerRejected(s) \/ AnswerNotJson(s) \/ ProviderFails(s)
      PROVE  Contract!Spend(s) \/ UNCHANGED Contract!vars
  <2>1. /\ pc[s] # "done" /\ UNCHANGED attached
        /\ \/ pc' = pc
           \/ \E place \in Places \ {"done"} : pc' = [pc EXCEPT ![s] = place]
    BY <1>3 DEF PassOver, Take, CacheMiss, CacheDelete, Answered,
                AnswerRejected, AnswerNotJson, ProviderFails, Call, Pending,
                Places
  <2>2. UNCHANGED PhaseState
    BY <2>1 DEF PhaseState, TypeOK
  <2>3. calls' \in {calls, [calls EXCEPT ![s] = @ + 1]}
    BY <1>3 DEF PassOver, Take, CacheMiss, CacheDelete, Answered,
                AnswerRejected, AnswerNotJson, ProviderFails, Call
  <2> QED BY <1>0, <2>1, <2>2, <2>3, OtherIsSpend
<1>4. ASSUME NEW s \in Scans, Finish(s)
      PROVE  Contract!Close(s)
  <2>1. /\ pc[s] = "select" /\ pc' = [pc EXCEPT ![s] = "done"]
        /\ UNCHANGED <<attached, calls>>
    BY <1>4 DEF Finish
  <2>2. PhaseState[s] = "open" /\ UNCHANGED Questions
    BY <1>0, <2>1, QuestionsFixed DEF PhaseState
  <2>3. PhaseState' = [PhaseState EXCEPT ![s] = "closed"]
    BY <2>1 DEF PhaseState, TypeOK
  <2>4. ASSUME NEW c \in Candidates
        PROVE  (attached[s][c] # NoAnalysis) = OwedFor(Questions[s][c])
    <3>1. todo[s] = {} /\ cand[s] = NoCandidate
      BY <1>4 DEF Finish, TypeOK, ThreadState
    <3>2. (attached[s][c] = NoAnalysis) <=> PassedOver(s, c)
      BY <3>1, NullsAssumption DEF OnceInv, OnceOf
    <3>3. OwedFor(Questions[s][c]) <=> ~PassedOver(s, c)
      BY DEF OwedFor, Questions, PassedOver, Input
    <3>4. OwedFor(Questions[s][c]) \in BOOLEAN
      BY DEF OwedFor
    <3> QED BY <3>2, <3>3, <3>4
  <2> QED BY <2>1, <2>2, <2>3, <2>4 DEF Contract!Close
<1>5. CASE Tick \/ UNCHANGED vars
  <2>1. UNCHANGED <<pc, attached, calls>>
    BY <1>5 DEF Tick, vars
  <2> QED BY <1>0, <2>1, QuestionsFixed DEF PhaseState, Contract!vars
<1> QED
  BY <1>1, <1>2, <1>3, <1>4, <1>5 DEF Next, Step, Contract!Next

(* The analysis phase of every scan keeps the contract of a phase,         *)
(* whatever the models answer and the other scans store.                   *)
THEOREM ContractKept == Spec => KeepsContract
<1>1. Init => Contract!Init
  BY DEF Init, Contract!Init, PhaseState
<1> QED
  BY <1>1, ContractStep, SafetyInvariant, PTL DEF Spec, KeepsContract, Contract!Spec
-----------------------------------------------------------------------------
(* What the loop of a scan still has to do: at most six steps for each     *)
(* candidate to go, and what the one at hand has left.                     *)
TurnLeft(s) ==
  CASE pc[s] = "lookup" -> 6
    [] pc[s] = "purge"  -> 5
    [] pc[s] = "ask"    -> 4
    [] pc[s] = "retry"  -> 3
    [] pc[s] = "store"  -> 2
    [] OTHER            -> 1

StepsLeft(s) ==
  IF pc[s] = "done" THEN 0 ELSE 6 * Cardinality(todo[s]) + TurnLeft(s)

(* No scan takes a step for nothing, and no scan is moved by another: a    *)
(* model that keeps answering what is no JSON is asked twice and left, and *)
(* what the others do to the cache never makes a scan begin anything again. *)
ScansSpendSteps ==
  [][\A s \in Scans :
       \/ StepsLeft(s) \in Nat /\ StepsLeft(s)' < StepsLeft(s)
       \/ UNCHANGED <<todo[s], pc[s], cand[s], pend[s], attached[s],
                      misses[s], recorded[s], calls[s]>>]_vars

(* The candidates to go can be counted.                                    *)
LEMMA CandidatesLeft ==
  ASSUME TypeOK, NEW s \in Scans
  PROVE  /\ Cardinality(todo[s]) \in Nat
         /\ \A c \in todo[s] :
              Cardinality(todo[s] \ {c}) = Cardinality(todo[s]) - 1
<1>1. IsFiniteSet(todo[s])
  BY SetsAssumption, FS_Subset DEF TypeOK
<1> QED BY <1>1, FS_CardinalityType, FS_RemoveElement

(* A step of a scan's own thread leaves it with less to do.                *)
LEMMA StepSpent ==
  ASSUME TypeOK, NEW s \in Scans, Step(s) \/ CacheError(s)
  PROVE  StepsLeft(s) \in Nat /\ StepsLeft(s)' < StepsLeft(s)
<1> DEFINE n == Cardinality(todo[s])
<1>1. n \in Nat /\ \A c \in todo[s] : Cardinality(todo[s] \ {c}) = n - 1
  BY CandidatesLeft
<1>2. pc[s] \in Places \ {"done"}
  BY DEF TypeOK, Step, CacheError, PassOver, Unavailable, Take, CacheHit,
         CacheMiss, CacheDelete, Answered, AnswerRejected, AnswerNotJson,
         ProviderFails, Store, Finish
<1>3. StepsLeft(s) = 6 * n + TurnLeft(s) /\ TurnLeft(s) \in 1..6
  BY <1>2 DEF StepsLeft, TurnLeft, Places
<1>4. CASE \E c \in Candidates : PassOver(s, c) \/ Unavailable(s, c)
  <2>1. PICK c \in Candidates : PassOver(s, c) \/ Unavailable(s, c)
    BY <1>4
  <2>2. /\ pc[s] = "select" /\ pc'[s] = "select"
        /\ c \in todo[s] /\ todo'[s] = todo[s] \ {c}
    BY <2>1 DEF PassOver, Unavailable, Attach, TypeOK
  <2>3. StepsLeft(s)' = 6 * (n - 1) + 1 /\ TurnLeft(s) = 1
    BY <1>1, <2>2 DEF StepsLeft, TurnLeft
  <2> QED BY <1>1, <1>3, <2>3
<1>5. CASE \E c \in Candidates : Take(s, c)
  <2>1. PICK c \in Candidates : Take(s, c)
    BY <1>5
  <2>2. /\ pc[s] = "select" /\ pc'[s] \in {"lookup", "ask"}
        /\ c \in todo[s] /\ todo'[s] = todo[s] \ {c}
    BY <2>1 DEF Take, TypeOK
  <2>3. TurnLeft(s)' \in {4, 6} /\ TurnLeft(s) = 1
    BY <2>2 DEF TurnLeft
  <2>4. StepsLeft(s)' = 6 * (n - 1) + TurnLeft(s)'
    BY <1>1, <2>2 DEF StepsLeft
  <2> QED BY <1>1, <1>3, <2>3, <2>4
<1>6. ASSUME UNCHANGED todo, pc'[s] # "done",
             TurnLeft(s)' \in Int, TurnLeft(s)' < TurnLeft(s)
      PROVE  StepsLeft(s)' < StepsLeft(s)
  <2>1. StepsLeft(s)' = 6 * n + TurnLeft(s)'
    BY <1>6 DEF StepsLeft
  <2> QED BY <1>1, <1>3, <1>6, <2>1
<1>7. CASE CacheHit(s) \/ Store(s) \/ CacheError(s)
  <2>1. /\ pc[s] \in {"lookup", "purge", "store"} /\ pc'[s] = "select"
        /\ UNCHANGED todo
    BY <1>7 DEF CacheHit, Store, CacheError, Attach, TypeOK
  <2>2. TurnLeft(s) \in {6, 5, 2} /\ TurnLeft(s)' = 1
    BY <2>1 DEF TurnLeft
  <2> QED BY <1>1, <1>3, <1>6, <2>1, <2>2
<1>8. CASE \/ CacheMiss(s) \/ CacheDelete(s)
           \/ \E p \in Payloads : Answered(s, p)
           \/ AnswerRejected(s) \/ AnswerNotJson(s) \/ ProviderFails(s)
  <2>1. /\ UNCHANGED todo
        /\ \/ pc[s] = "lookup" /\ pc'[s] \in {"ask", "purge"}
           \/ pc[s] = "purge" /\ pc'[s] = "ask"
           \/ pc[s] = "ask" /\ pc'[s] \in {"retry", "store"}
           \/ pc[s] = "retry" /\ pc'[s] = "store"
    BY <1>8 DEF CacheMiss, CacheDelete, Answered, AnswerRejected, AnswerNotJson,
                ProviderFails, Call, Pending, TypeOK
  <2>2. /\ TurnLeft(s)' \in Int /\ TurnLeft(s)' < TurnLeft(s)
        /\ pc'[s] # "done"
    BY <2>1 DEF TurnLeft
  <2> QED BY <1>1, <1>3, <1>6, <2>1, <2>2
<1>9. CASE Finish(s)
  <2>1. StepsLeft(s)' = 0
    BY <1>9 DEF Finish, TypeOK, StepsLeft
  <2> QED BY <1>1, <1>3, <2>1
<1>10. StepsLeft(s) \in Nat
  BY <1>1, <1>3
<1> QED BY <1>4, <1>5, <1>7, <1>8, <1>9, <1>10 DEF Step

(* A step of another thread leaves a scan where it was.                    *)
LEMMA OthersStay ==
  ASSUME TypeOK, NEW s \in Scans, NEW t \in Scans, t # s,
         Step(s) \/ CacheError(s)
  PROVE  UNCHANGED <<todo[t], pc[t], cand[t], pend[t], attached[t],
                     misses[t], recorded[t], calls[t]>>
<1>1. CASE \E c \in Candidates :
             PassOver(s, c) \/ Unavailable(s, c) \/ Take(s, c)
  BY <1>1 DEF PassOver, Unavailable, Take, Attach, TypeOK
<1>2. CASE CacheHit(s) \/ Store(s) \/ CacheError(s)
  BY <1>2 DEF CacheHit, Store, CacheError, Attach, TypeOK
<1>3. CASE CacheMiss(s) \/ CacheDelete(s) \/ Finish(s)
  BY <1>3 DEF CacheMiss, CacheDelete, Finish, TypeOK
<1>4. CASE \/ \E p \in Payloads : Answered(s, p)
           \/ AnswerRejected(s) \/ AnswerNotJson(s) \/ ProviderFails(s)
  BY <1>4 DEF Answered, AnswerRejected, AnswerNotJson, ProviderFails, Call,
              Pending, TypeOK
<1> QED BY <1>1, <1>2, <1>3, <1>4 DEF Step

(* A phase takes no more than six steps for each of its candidates and one *)
(* to finish, whatever the models answer and the other scans do: what      *)
(* PhasesEnd asks, but for a thread that is not scheduled at all.          *)
THEOREM StepsAreSpent == Spec => ScansSpendSteps
<1>1. TypeOK /\ [Next]_vars =>
        [\A s \in Scans :
           \/ StepsLeft(s) \in Nat /\ StepsLeft(s)' < StepsLeft(s)
           \/ UNCHANGED <<todo[s], pc[s], cand[s], pend[s], attached[s],
                          misses[s], recorded[s], calls[s]>>]_vars
  <2> SUFFICES ASSUME TypeOK, Next, NEW t \in Scans
               PROVE  \/ StepsLeft(t) \in Nat /\ StepsLeft(t)' < StepsLeft(t)
                      \/ UNCHANGED <<todo[t], pc[t], cand[t], pend[t],
                                     attached[t], misses[t], recorded[t],
                                     calls[t]>>
    OBVIOUS
  <2>1. CASE Tick
    BY <2>1 DEF Tick
  <2>2. ASSUME NEW s \in Scans, Step(s) \/ CacheError(s)
        PROVE  \/ StepsLeft(t) \in Nat /\ StepsLeft(t)' < StepsLeft(t)
               \/ UNCHANGED <<todo[t], pc[t], cand[t], pend[t], attached[t],
                              misses[t], recorded[t], calls[t]>>
    <3>1. CASE s = t
      BY <2>2, <3>1, StepSpent
    <3>2. CASE s # t
      BY <2>2, <3>2, OthersStay
    <3> QED BY <3>1, <3>2
  <2> QED BY <2>1, <2>2 DEF Next
<1> QED
  BY <1>1, TypeCorrect, PTL DEF Spec, ScansSpendSteps
=============================================================================
