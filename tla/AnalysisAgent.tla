--------------------------- MODULE AnalysisAgent ---------------------------
(***************************************************************************)
(* The analysis phase of a scan: orchestrator/workflow.py                  *)
(* (_attach_analyses) asks agents/analysis_agent.py about every finding    *)
(* candidate.  The agent routes it to one of two models (llm/router.py),   *)
(* looks for an earlier answer in the SQLite cache that all scans share    *)
(* (storage/cache.py), asks the model at most twice (llm/ollama.py), makes *)
(* what comes back into an analysis and gates it by its confidence.        *)
(*                                                                         *)
(* A step is what one scan's thread does between two points where another  *)
(* scan or the model can be seen: a cache read, delete or write, a call.   *)
(***************************************************************************)
EXTENDS Integers, FiniteSets

CONSTANTS
  Scans,        \* concurrent scans
  Candidates,   \* finding candidates, see Profiles
  Contexts,     \* what retrieval may have found for a candidate
  Payloads,     \* JSON objects a model may answer
  Small, Large, \* ollama_small_model, ollama_large_model (or NoModel)
  Cascading, Llm, Caching,  \* scans with model_cascading_enabled,
                            \* llm_enabled, analysis_cache_enabled
  High, Low,    \* analysis_confidence_high and _low, in percent
  WScanner, WModel, WRag, WEvidence,  \* analysis_weight_*, in percent
  Ttl,          \* the ttl_seconds of cache.set
  MaxTime,      \* bound of the clock
  NoModel, NoEntry, NoCandidate, NoAnalysis, Lost

Percent == 0..100

(* validation_router.supported_types().                                    *)
SupportedTypes ==
  {"compare_http_response", "check_status_behavior",
   "check_content_difference", "check_security_header",
   "check_redirect_behavior", "check_endpoint_accessibility",
   "check_auth_behavior", "check_method_behavior"}

Statuses == {"likely", "needs_validation", "insufficient_evidence",
             "likely_false_positive"}

(* A candidate as far as the agent tells two apart: is it the crawler's,   *)
(* does its text give a profile, the validator inferred from its text and  *)
(* method, is it a simple finding, its scanner confidence and evidence.    *)
Profiles ==
  [id : Nat, crawled : BOOLEAN, profiled : BOOLEAN,
   inferred : SupportedTypes \cup {"none"}, simple : BOOLEAN,
   scanner : Percent, evidence : 0..5]

(* AnalysisInput: a candidate with what retrieval found for it.            *)
Inputs == [cand : Candidates, knowledge : BOOLEAN, cwe : BOOLEAN]

(* A model's object after _normalize_status and _bounded_float; its type   *)
(* may be unsupported ("other"), its analysis_error may be filled in.      *)
PayloadForms ==
  [status : Statuses, type : SupportedTypes \cup {"other"},
   confidence : Percent, error : BOOLEAN]

(* Confidences in thirds of a hundredth of a percent: 30000 is 1.0.        *)
Unit == 300
Confidences == 0..(100 * Unit)

Models == {Small, Large}

(* FindingAnalysis.                                                        *)
Analyses ==
  [input : Inputs, model : Models, status : Statuses,
   type : SupportedTypes \cup {"manual_review"}, model_confidence : Percent,
   confidence : Confidences, error : BOOLEAN]

(* build_analysis_cache_key: the whole input and the model.                *)
Keys == Inputs \X Models

Entries == [analysis : Analyses, expires : Nat]

ASSUME SetsAssumption ==
  /\ IsFiniteSet(Scans) /\ IsFiniteSet(Candidates)
  /\ Candidates \subseteq Profiles /\ Payloads \subseteq PayloadForms
  /\ Contexts \subseteq [knowledge : BOOLEAN, cwe : BOOLEAN]
ASSUME NumbersAssumption ==
  /\ {High, WScanner, WModel, WRag, WEvidence} \subseteq Percent
  /\ Low \in Percent \ {0} /\ {Ttl, MaxTime} \subseteq Nat
ASSUME SwitchesAssumption ==
  Cascading \subseteq Scans /\ Llm \subseteq Scans /\ Caching \subseteq Scans
ASSUME NullsAssumption ==
  /\ NoEntry \notin Entries /\ NoCandidate \notin Candidates
  /\ NoAnalysis # Lost /\ {NoAnalysis, Lost} \cap Analyses = {}

VARIABLES
  now,       \* time.time()
  cache,     \* analysis_cache: key -> entry
  context,   \* per scan and candidate: what retrieval found
  todo,      \* per scan: candidates not yet taken
  pc,        \* per scan: where its thread is
  cand,      \* per scan: the candidate at hand
  pend,      \* per scan: the analysis not yet stored and attached
  attached,  \* per scan and candidate: candidate.analysis
  misses,    \* per scan: cache_misses["analysis"]
  recorded,  \* per scan: len(metrics_collector.llm_calls)
  calls      \* ghost, per scan: calls of provider.generate

vars == <<now, cache, context, todo, pc, cand, pend, attached, misses,
          recorded, calls>>

Places == {"select", "lookup", "purge", "ask", "retry", "store", "done"}

Init ==
  /\ now = 0
  /\ cache = [k \in Keys |-> NoEntry]
  /\ context \in [Scans -> [Candidates -> Contexts]]
  /\ todo = [s \in Scans |-> Candidates]
  /\ pc = [s \in Scans |-> "select"]
  /\ cand = [s \in Scans |-> NoCandidate]
  /\ pend = [s \in Scans |-> NoAnalysis]
  /\ attached = [s \in Scans |-> [c \in Candidates |-> NoAnalysis]]
  /\ misses = [s \in Scans |-> 0]
  /\ recorded = [s \in Scans |-> 0]
  /\ calls = [s \in Scans |-> 0]
-----------------------------------------------------------------------------
Input(s, c) ==
  [cand |-> c, knowledge |-> context[s][c].knowledge, cwe |-> context[s][c].cwe]

Either(m, n) == IF m # NoModel THEN m ELSE n

(* ModelRouter.route: the small model for simple findings with a strong    *)
(* signal, the large one for the others, each standing in for the other.   *)
Route(s, i) ==
  IF /\ s \in Cascading /\ i.cand.simple
     /\ i.cwe \/ i.cand.scanner >= 80 \/ i.cand.evidence >= 2
  THEN Either(Small, Large) ELSE Either(Large, Small)

RagScore(i) == IF i.cwe THEN 100 ELSE IF i.knowledge THEN 70 ELSE 20

EvidenceThirds(i) == IF i.cand.evidence >= 3 THEN 3 ELSE i.cand.evidence

Clamp(x) == IF x > 100 * Unit THEN 100 * Unit ELSE x

(* Mutant: the model's own confidence is the final one.                    *)
ScoreOfModel(i, m) == m * Unit

(* ConfidenceEvaluator.calculate: the weighted sum, at most 1.             *)
Score(i, m) ==
  Clamp(3 * (i.cand.scanner * WScanner + m * WModel + RagScore(i) * WRag)
          + 100 * EvidenceThirds(i) * WEvidence)

(* ConfidenceEvaluator.apply_gate: only the verdict "likely_false_positive" *)
(* of a model stands, every other status comes from the confidence.        *)
Gate(status, confidence) ==
  IF status = "likely_false_positive" THEN status
  ELSE IF confidence >= High * Unit THEN "likely"
  ELSE IF confidence >= Low * Unit THEN "needs_validation"
  ELSE "insufficient_evidence"

(* The cap under the low threshold, for answers that settle nothing.       *)
Capped(confidence) ==
  IF confidence < (Low - 1) * Unit THEN confidence ELSE (Low - 1) * Unit

(* _normalize_recommended_validation: a finding with a profile gets its    *)
(* own validator, then the model's choice counts, then what the text says. *)
Recommend(c, p) ==
  IF c.profiled /\ c.inferred # "none" /\ p.status # "insufficient_evidence"
    THEN c.inferred
  ELSE IF p.type \in SupportedTypes THEN p.type
  ELSE IF c.inferred = "none" \/ p.status = "insufficient_evidence"
    THEN "manual_review"
  ELSE c.inferred

(* _parse_response and the else branch of analyze.                         *)
Settled(s, i, p) ==
  LET type  == Recommend(i.cand, p)
      final == IF p.status = "insufficient_evidence" /\ type = "manual_review"
               THEN Capped(Score(i, p.confidence)) ELSE Score(i, p.confidence)
  IN  [input |-> i, model |-> Route(s, i), status |-> Gate(p.status, final),
       type |-> type, model_confidence |-> p.confidence, confidence |-> final,
       error |-> p.error]

Fallback(s, i) ==
  LET final == Capped(Score(i, 0))
  IN  [input |-> i, model |-> Route(s, i),
       status |-> Gate("insufficient_evidence", final),
       type |-> "manual_review", model_confidence |-> 0, confidence |-> final,
       error |-> TRUE]

(* Mutant: the key leaves the model out.                                   *)
KeyWithoutModel(s, c) == <<Input(s, c), Either(Large, Small)>>

CacheKey(s, c) == <<Input(s, c), Route(s, Input(s, c))>>

(* Mutant: the candidate stays at hand after its turn.                     *)
AttachKeepsCandidate(s, c, a) ==
  /\ attached' = [attached EXCEPT ![s][c] = a]
  /\ pc' = [pc EXCEPT ![s] = "select"]
  /\ pend' = [pend EXCEPT ![s] = NoAnalysis]
  /\ UNCHANGED cand

(* The end of a turn of the loop over the candidates.                      *)
Attach(s, c, a) ==
  /\ attached' = [attached EXCEPT ![s][c] = a]
  /\ pc' = [pc EXCEPT ![s] = "select"]
  /\ cand' = [cand EXCEPT ![s] = NoCandidate]
  /\ pend' = [pend EXCEPT ![s] = NoAnalysis]

(* A crawled candidate without knowledge is not analysed at all.           *)
PassedOver(s, c) == c.crawled /\ ~context[s][c].knowledge

PassOver(s, c) ==
  /\ pc[s] = "select" /\ c \in todo[s] /\ PassedOver(s, c)
  /\ todo' = [todo EXCEPT ![s] = @ \ {c}]
  /\ UNCHANGED <<now, cache, context, pc, cand, pend, attached, misses,
                 recorded, calls>>

Available(s, c) == s \in Llm /\ Route(s, Input(s, c)) # NoModel

Unavailable(s, c) ==
  /\ pc[s] = "select" /\ c \in todo[s] /\ ~PassedOver(s, c)
  /\ ~Available(s, c)
  /\ todo' = [todo EXCEPT ![s] = @ \ {c}]
  /\ Attach(s, c, Fallback(s, Input(s, c)))
  /\ UNCHANGED <<now, cache, context, misses, recorded, calls>>

Take(s, c) ==
  /\ pc[s] = "select" /\ c \in todo[s] /\ ~PassedOver(s, c)
  /\ Available(s, c)
  /\ todo' = [todo EXCEPT ![s] = @ \ {c}]
  /\ cand' = [cand EXCEPT ![s] = c]
  /\ pc' = [pc EXCEPT ![s] = IF s \in Caching THEN "lookup" ELSE "ask"]
  /\ misses' = [misses EXCEPT ![s] = IF s \in Caching THEN @ ELSE @ + 1]
  /\ UNCHANGED <<now, cache, context, pend, attached, recorded, calls>>

CacheHit(s) ==
  /\ pc[s] = "lookup"
  /\ LET e == cache[CacheKey(s, cand[s])]
     IN  /\ e # NoEntry /\ e.expires >= now
         /\ Attach(s, cand[s], e.analysis)
  /\ UNCHANGED <<now, cache, context, todo, misses, recorded, calls>>

(* A row past its time is deleted first, in a transaction of its own.      *)
CacheMiss(s) ==
  /\ pc[s] = "lookup"
  /\ LET e == cache[CacheKey(s, cand[s])]
     IN  \/ /\ e = NoEntry
            /\ pc' = [pc EXCEPT ![s] = "ask"]
            /\ misses' = [misses EXCEPT ![s] = @ + 1]
         \/ /\ e # NoEntry /\ e.expires < now
            /\ pc' = [pc EXCEPT ![s] = "purge"]
            /\ UNCHANGED misses
  /\ UNCHANGED <<now, cache, context, todo, cand, pend, attached, recorded,
                 calls>>

(* Mutant: the row is read again before it is gone.                        *)
ReadAgain(s) ==
  /\ pc[s] = "purge"
  /\ pc' = [pc EXCEPT ![s] = "lookup"]
  /\ UNCHANGED <<now, cache, context, todo, cand, pend, attached, misses,
                 recorded, calls>>

CacheDelete(s) ==
  /\ pc[s] = "purge"
  /\ cache' = [cache EXCEPT ![CacheKey(s, cand[s])] = NoEntry]
  /\ pc' = [pc EXCEPT ![s] = "ask"]
  /\ misses' = [misses EXCEPT ![s] = @ + 1]
  /\ UNCHANGED <<now, context, todo, cand, pend, attached, recorded, calls>>

(* The counts of a call: those that end in an error are not recorded.      *)
Call(s, answered) ==
  /\ calls' = [calls EXCEPT ![s] = @ + 1]
  /\ recorded' = [recorded EXCEPT ![s] = IF answered THEN @ + 1 ELSE @]
  /\ UNCHANGED <<now, cache, context, todo, cand, attached, misses>>

Pending(s, a) ==
  /\ pend' = [pend EXCEPT ![s] = a]
  /\ pc' = [pc EXCEPT ![s] = "store"]

Answered(s, p) ==
  /\ pc[s] \in {"ask", "retry"}
  /\ Call(s, TRUE)
  /\ Pending(s, Settled(s, Input(s, cand[s]), p))

(* JSON that is no object, or claims the status "verified".                *)
AnswerRejected(s) ==
  /\ pc[s] \in {"ask", "retry"}
  /\ Call(s, TRUE)
  /\ Pending(s, Fallback(s, Input(s, cand[s])))

(* Mutant: text that is no JSON is sent back until it is.                  *)
AnswerNotJsonAgain(s) ==
  /\ pc[s] \in {"ask", "retry"}
  /\ Call(s, TRUE)
  /\ pc' = [pc EXCEPT ![s] = "retry"] /\ UNCHANGED pend

(* Text that is no JSON is sent back once for correction.                  *)
AnswerNotJson(s) ==
  /\ pc[s] \in {"ask", "retry"}
  /\ Call(s, TRUE)
  /\ \/ pc[s] = "ask" /\ pc' = [pc EXCEPT ![s] = "retry"] /\ UNCHANGED pend
     \/ pc[s] = "retry" /\ Pending(s, Fallback(s, Input(s, cand[s])))

(* A timeout, no connection, an empty answer.                              *)
ProviderFails(s) ==
  /\ pc[s] \in {"ask", "retry"}
  /\ Call(s, FALSE)
  /\ Pending(s, Fallback(s, Input(s, cand[s])))

(* Mutant: failed analyses are stored too.                                 *)
CacheableAlways(s, a) == s \in Caching

Cacheable(s, a) == s \in Caching /\ ~a.error

Store(s) ==
  /\ pc[s] = "store"
  /\ cache' = IF Cacheable(s, pend[s])
              THEN [cache EXCEPT ![CacheKey(s, cand[s])] =
                      [analysis |-> pend[s], expires |-> now + Ttl]]
              ELSE cache
  /\ Attach(s, cand[s], pend[s])
  /\ UNCHANGED <<now, context, todo, misses, recorded, calls>>

(* A database error ends the candidate, in the except of _attach_analyses: *)
(* an answer that could not be stored is lost with it.                     *)
CacheError(s) ==
  /\ \/ pc[s] \in {"lookup", "purge"}
     \/ pc[s] = "store" /\ Cacheable(s, pend[s])
  /\ Attach(s, cand[s], Lost)
  /\ UNCHANGED <<now, cache, context, todo, misses, recorded, calls>>

(* Mutant: the loop is left at the first candidate that cannot be analysed. *)
FinishAtFailure(s) ==
  /\ pc[s] = "select"
  /\ \/ todo[s] = {}
     \/ \E c \in Candidates : attached[s][c] = Lost
  /\ pc' = [pc EXCEPT ![s] = "done"]
  /\ UNCHANGED <<now, cache, context, todo, cand, pend, attached, misses,
                 recorded, calls>>

Finish(s) ==
  /\ pc[s] = "select" /\ todo[s] = {}
  /\ pc' = [pc EXCEPT ![s] = "done"]
  /\ UNCHANGED <<now, cache, context, todo, cand, pend, attached, misses,
                 recorded, calls>>

Tick ==
  /\ now < MaxTime
  /\ now' = now + 1
  /\ UNCHANGED <<cache, context, todo, pc, cand, pend, attached, misses,
                 recorded, calls>>

Step(s) ==
  \/ \E c \in Candidates : PassOver(s, c) \/ Unavailable(s, c) \/ Take(s, c)
  \/ CacheHit(s) \/ CacheMiss(s) \/ CacheDelete(s)
  \/ \E p \in Payloads : Answered(s, p)
  \/ AnswerRejected(s) \/ AnswerNotJson(s) \/ ProviderFails(s)
  \/ Store(s) \/ Finish(s)

Next == Tick \/ \E s \in Scans : Step(s) \/ CacheError(s)

Spec == Init /\ [][Next]_vars

(* A scan's thread is scheduled and every call ends, by llm_timeout_seconds *)
(* at the latest.                                                          *)
FairSpec == Spec /\ \A s \in Scans : WF_vars(Step(s))
-----------------------------------------------------------------------------
(* What a thread holds at each place.                                      *)
ThreadState(s) ==
  /\ pc[s] \in {"lookup", "purge", "ask", "retry", "store"} =>
       cand[s] \in Candidates \ todo[s]
  /\ pc[s] \in {"select", "done"} => cand[s] = NoCandidate
  /\ pc[s] = "store" => pend[s] \in Analyses
  /\ pc[s] = "done" => todo[s] = {}

(* Every variable stays in its type and every thread in its state.         *)
TypeOK ==
  /\ now \in 0..MaxTime
  /\ cache \in [Keys -> Entries \cup {NoEntry}]
  /\ context \in [Scans -> [Candidates -> Contexts]]
  /\ todo \in [Scans -> SUBSET Candidates]
  /\ pc \in [Scans -> Places]
  /\ cand \in [Scans -> Candidates \cup {NoCandidate}]
  /\ pend \in [Scans -> Analyses \cup {NoAnalysis}]
  /\ attached \in [Scans -> [Candidates -> Analyses \cup {NoAnalysis, Lost}]]
  /\ misses \in [Scans -> Nat]
  /\ recorded \in [Scans -> Nat]
  /\ calls \in [Scans -> Nat]
  /\ \A s \in Scans : ThreadState(s)

(* An analysis is what the gate makes of its own input: no more confidence *)
(* than the input and the model's answer give together, the status that    *)
(* confidence stands for.                                                  *)
GatedFor(a, i) ==
  /\ a.input = i
  /\ a.confidence <= Score(i, a.model_confidence)
  /\ a.status \in {Gate("needs_validation", a.confidence),
                   "likely_false_positive"}

(* What a candidate gets, from a model now or from the cache, was made for *)
(* this candidate with the knowledge this scan retrieved for it, and by    *)
(* the model this scan's settings route it to.                             *)
AnalysesAreTheirOwn ==
  \A s \in Scans, c \in Candidates :
    attached[s][c] \notin {NoAnalysis, Lost} =>
      /\ GatedFor(attached[s][c], Input(s, c))
      /\ attached[s][c].model = Route(s, Input(s, c))

(* The shared cache holds answers of models only: no failure that a later  *)
(* call could repair is kept for an hour, and each row is under the input  *)
(* and the model it was made for.                                          *)
CacheHoldsAnswers ==
  \A k \in Keys :
    cache[k] # NoEntry =>
      /\ ~cache[k].analysis.error
      /\ GatedFor(cache[k].analysis, k[1])
      /\ cache[k].analysis.model = k[2]

(* A model alone cannot make a finding likely, nor can the knowledge       *)
(* retrieved for it: whatever they say, the scanner's own confidence has   *)
(* to bring what the other weights leave open.                             *)
LikelyNeedsTheScanner ==
  \A s \in Scans, c \in Candidates :
    /\ attached[s][c] \notin {NoAnalysis, Lost}
    /\ attached[s][c].status = "likely"
    => c.scanner * WScanner + 100 * (WModel + WRag + WEvidence) >= 100 * High

(* A finding costs at most two calls, one that the cache answers costs     *)
(* none, and no more calls are reported than were made.                    *)
CallsBounded ==
  \A s \in Scans :
    /\ recorded[s] <= calls[s] /\ calls[s] <= 2 * misses[s]
    /\ misses[s] <= Cardinality({c \in Candidates \ todo[s] :
                                   ~PassedOver(s, c) /\ Available(s, c)})

(* At the end every candidate has an analysis, or the mark of one that was *)
(* lost, except those passed over, which have none; and none is analysed   *)
(* twice.                                                                  *)
EachAnalysedOnce ==
  \A s \in Scans :
    /\ pc[s] = "done" =>
         \A c \in Candidates : (attached[s][c] = NoAnalysis) = PassedOver(s, c)
    /\ \A c \in todo[s] \cup {cand[s]} :
         c \in Candidates => attached[s][c] = NoAnalysis

(* What the contract of a phase means here: the question of a candidate is *)
(* its input and the model the scan's settings pick, an outcome fits that  *)
(* the gate made of just these, or the mark of one that was lost; a page   *)
(* without knowledge is owed none; the cost is two calls for a candidate.  *)
FitsInput(q, a) ==
  a = Lost \/ (a \in Analyses /\ GatedFor(a, q.input) /\ a.model = q.model)

OwedFor(q) == ~(q.input.cand.crawled /\ ~q.input.knowledge)

Questions ==
  [s \in Scans |-> [c \in Candidates |->
     [input |-> Input(s, c), model |-> Route(s, Input(s, c))]]]

PhaseState ==
  [s \in Scans |-> IF pc[s] = "done" THEN "closed" ELSE "open"]

Contract ==
  INSTANCE PhaseContract
    WITH Limit <- 2 * Cardinality(Candidates), Nothing <- NoAnalysis,
         Owed <- OwedFor, Fits <- FitsInput,
         asked <- Questions, outcome <- attached, spent <- calls, state <- PhaseState

(* The phase keeps its contract: with all the scans on one cache, models   *)
(* that fail, answers that have to be asked for twice and database errors, *)
(* every candidate still gets the one analysis of its own input.           *)
KeepsContract == Contract!Spec

(* Every analysis phase ends, whatever the models answer.                  *)
PhasesEnd == \A s \in Scans : <>(pc[s] = "done")
=============================================================================
