-------------------------- MODULE ValidationEngine --------------------------
(***************************************************************************)
(* The validation phase of a scan: orchestrator/workflow.py                *)
(* (_attach_validations) drives validation/router.py (ValidationService,   *)
(* ValidationContext and the five validators) over the scan's finding      *)
(* candidates, with the SQLite result cache of storage/cache.py between    *)
(* them.  Every scan is a thread of the API server; the threads share      *)
(* nothing but the cache and the clock.                                    *)
(*                                                                         *)
(* A step is what one thread does between two points where another thread  *)
(* can be seen: a cache read, a cache delete, a cache write, a request.    *)
(***************************************************************************)
EXTENDS Integers, Sequences, FiniteSets

CONSTANTS
  Scans,             \* concurrent scans
  Candidates,        \* candidate findings, by identity (id, endpoint, method)
  InfoCandidates,    \* those of severity INFO
  HeaderCandidates,  \* those whose title or evidence names a supported header
  Recommended,       \* validation types the analyses recommend
  Rationales,        \* texts of recommended_validation.reason
  Responses,         \* what a target may answer
  Failures,          \* how a request may fail
  MaxPerFinding,     \* max_validation_requests_per_finding
  MaxPerScan,        \* max_validation_requests_per_scan
  Ttl,               \* validation_cache_ttl_seconds
  MaxTime,           \* bound of the clock
  ValidationEnabled, CacheEnabled, AuthConfigured,
  NoAnalysis, NoCandidate, NoEntry, NoResult

Validators == {"check_security_header", "compare_http_response",
               "check_endpoint_accessibility", "check_auth_behavior",
               "check_method_behavior"}

(* The five validators behind the eight recommended types.                 *)
Registry ==
  [compare_http_response        |-> "compare_http_response",
   check_status_behavior        |-> "compare_http_response",
   check_content_difference     |-> "compare_http_response",
   check_security_header        |-> "check_security_header",
   check_redirect_behavior      |-> "check_endpoint_accessibility",
   check_endpoint_accessibility |-> "check_endpoint_accessibility",
   check_auth_behavior          |-> "check_auth_behavior",
   check_method_behavior        |-> "check_method_behavior"]

(* "manual_review" is the one recommendation without a validator.          *)
RecommendedTypes == (DOMAIN Registry) \cup {"manual_review"}

(* A response, as far as a validator tells two apart: how access went (200 *)
(* or 204; 401, 403 or sent to a login page; 404; anything else) and       *)
(* whether the header asked for is there.                                  *)
ResponseClasses ==
  [access : {"allowed", "denied", "missing", "other"}, header : BOOLEAN]

Analyses == [type : Recommended, rationale : Rationales]

Keys == Candidates \X Validators \X Rationales

TransientReasons ==
  {"request_timeout", "connection_error", "scope_violation"}
FailureReasons == TransientReasons \cup {"unexpected_response"}
SkipReasons ==
  {"analysis_unavailable", "validation_disabled",
   "scan_request_budget_exceeded", "validation_not_selected",
   "unsupported_validator"}
DeclineReasons == {"header_not_supported", "missing_auth_context"}
Reasons ==
  FailureReasons \cup SkipReasons \cup DeclineReasons
    \cup {"conclusive", "request_budget_exceeded"}

(* ValidationResult; evidence is the responses a concluded run rests on.   *)
Results ==
  [finding : Candidates, validator : RecommendedTypes \cup {"none"},
   status : {"verified", "false_positive", "unverified", "validation_skipped"},
   reason : Reasons, requests : Nat, evidence : Seq(Responses),
   cached : BOOLEAN]

Entries == [result : Results, expires : Nat]

ASSUME ScansAssumption == IsFiniteSet(Scans) /\ IsFiniteSet(Candidates)
ASSUME CandidatesAssumption ==
  InfoCandidates \subseteq Candidates /\ HeaderCandidates \subseteq Candidates
ASSUME LimitsAssumption ==
  MaxPerFinding \in Nat /\ MaxPerScan \in Nat /\ Ttl \in Nat /\ MaxTime \in Nat
ASSUME SwitchesAssumption ==
  {ValidationEnabled, CacheEnabled, AuthConfigured} \subseteq BOOLEAN
ASSUME RecommendedAssumption == Recommended \subseteq RecommendedTypes
ASSUME ResponsesAssumption ==
  Responses \subseteq ResponseClasses /\ Failures \subseteq FailureReasons
ASSUME NullsAssumption ==
  /\ NoAnalysis \notin Analyses /\ NoCandidate \notin Candidates
  /\ NoEntry \notin Entries /\ NoResult \notin Results

VARIABLES
  now,       \* time.time()
  cache,     \* validation_cache: key -> entry
  analysis,  \* per scan and candidate: candidate.analysis
  todo,      \* per scan: candidates not yet taken
  pc,        \* per scan: where its thread is
  cand,      \* per scan: the candidate at hand
  made,      \* per scan: ValidationContext.requests_made
  seen,      \* per scan: the responses of this validator run
  pend,      \* per scan: the result of this validator run
  used,      \* per scan: scan_requests_used
  results,   \* per scan and candidate: candidate.validation
  sent       \* ghost, per scan: requests that went out on the network

vars == <<now, cache, analysis, todo, pc, cand, made, seen, pend, used,
          results, sent>>

Places == {"select", "lookup", "purge", "request", "conclude", "done",
           "aborted"}

Init ==
  /\ now = 0
  /\ cache = [k \in Keys |-> NoEntry]
  /\ analysis \in [Scans -> [Candidates -> Analyses \cup {NoAnalysis}]]
  /\ todo = [s \in Scans |-> Candidates]
  /\ pc = [s \in Scans |-> "select"]
  /\ cand = [s \in Scans |-> NoCandidate]
  /\ made = [s \in Scans |-> 0]
  /\ seen = [s \in Scans |-> <<>>]
  /\ pend = [s \in Scans |-> NoResult]
  /\ used = [s \in Scans |-> 0]
  /\ results = [s \in Scans |-> [c \in Candidates |-> NoResult]]
  /\ sent = [s \in Scans |-> 0]
-----------------------------------------------------------------------------

(* max(max_validation_requests_per_scan - scan_requests_used, 0)           *)
Remaining(s) == IF used[s] < MaxPerScan THEN MaxPerScan - used[s] ELSE 0

Validator(s, c) == Registry[analysis[s][c].type]

(* Mutant: a key without the validator.                                    *)
KeyWithoutValidator(s, c) ==
  <<c, "check_security_header", analysis[s][c].rationale>>

CacheKey(s, c) == <<c, Validator(s, c), analysis[s][c].rationale>>

Outcome(c, v, status, reason, requests, evidence) ==
  [finding |-> c, validator |-> v, status |-> status, reason |-> reason,
   requests |-> requests, evidence |-> evidence, cached |-> FALSE]

(* The early returns of validate_candidate, in their order; "none" when    *)
(* the candidate goes on to a validator.                                   *)
SkipReason(s, c) ==
  IF analysis[s][c] = NoAnalysis THEN "analysis_unavailable"
  ELSE IF ~ValidationEnabled THEN "validation_disabled"
  ELSE IF Remaining(s) = 0 THEN "scan_request_budget_exceeded"
  ELSE IF c \in InfoCandidates THEN "validation_not_selected"
  ELSE IF analysis[s][c].type \notin DOMAIN Registry
         THEN "unsupported_validator"
  ELSE "none"

(* How many requests a validator sends when none of them fails.            *)
PlanLength ==
  [v \in Validators |->
     CASE v \in {"compare_http_response", "check_auth_behavior"} -> 2
       [] v = "check_method_behavior" -> 3
       [] OTHER -> 1]

(* What each validator concludes from its responses: is the header there,  *)
(* do two answers differ, does the endpoint answer, does the login matter. *)
Verdict(v, rs) ==
  CASE v = "check_security_header" ->
         IF rs[1].header THEN "false_positive" ELSE "verified"
    [] v = "compare_http_response" ->
         IF rs[1] # rs[2] THEN "verified" ELSE "unverified"
    [] v = "check_endpoint_accessibility" ->
         IF rs[1].access = "allowed" THEN "verified"
         ELSE IF rs[1].access \in {"denied", "missing"} THEN "false_positive"
         ELSE "unverified"
    [] v = "check_auth_behavior" ->
         IF rs[1].access = "denied" /\ rs[2].access = "allowed"
           THEN "verified" ELSE "false_positive"
    [] v = "check_method_behavior" -> "unverified"

(* A validator that returns before its first request.                      *)
Declined(s, c) ==
  IF Validator(s, c) = "check_security_header" /\ c \notin HeaderCandidates
    THEN "header_not_supported"
  ELSE IF Validator(s, c) = "check_auth_behavior" /\ ~AuthConfigured
    THEN "missing_auth_context"
  ELSE "none"

(* _failure_result: a run the scope or the budget stopped counts as        *)
(* skipped, any other failure as unverified.                               *)
FailureStatus(reason) ==
  IF reason \in {"scope_violation", "request_budget_exceeded"}
    THEN "validation_skipped" ELSE "unverified"

(* Mutant: failures of the network are stored too.                         *)
CacheUnlessSkipped(r) == r.status # "validation_skipped"

ShouldCache(r) ==
  /\ r.status # "validation_skipped"
  /\ r.reason \notin TransientReasons \cup {"request_budget_exceeded"}

(* Mutant: the context of one candidate is handed on to the next.          *)
RecordKeepsContext(s, c, r) ==
  /\ results' = [results EXCEPT ![s][c] = r]
  /\ used' = [used EXCEPT ![s] = @ + r.requests]
  /\ pc' = [pc EXCEPT ![s] = "select"]
  /\ cand' = [cand EXCEPT ![s] = NoCandidate]
  /\ made' = [made EXCEPT ![s] = 0]
  /\ pend' = [pend EXCEPT ![s] = NoResult]
  /\ UNCHANGED seen

(* metrics.record, scan_requests_used += and the next turn of the loop.    *)
Record(s, c, r) ==
  /\ results' = [results EXCEPT ![s][c] = r]
  /\ used' = [used EXCEPT ![s] = @ + r.requests]
  /\ pc' = [pc EXCEPT ![s] = "select"]
  /\ cand' = [cand EXCEPT ![s] = NoCandidate]
  /\ made' = [made EXCEPT ![s] = 0]
  /\ seen' = [seen EXCEPT ![s] = <<>>]
  /\ pend' = [pend EXCEPT ![s] = NoResult]

Skip(s, c) ==
  /\ pc[s] = "select" /\ c \in todo[s] /\ SkipReason(s, c) # "none"
  /\ todo' = [todo EXCEPT ![s] = @ \ {c}]
  /\ LET type == IF analysis[s][c] = NoAnalysis THEN "none"
                 ELSE analysis[s][c].type
     IN  Record(s, c, Outcome(c, type, "validation_skipped",
                              SkipReason(s, c), 0, <<>>))
  /\ UNCHANGED <<now, cache, analysis, sent>>

Admit(s, c) ==
  /\ pc[s] = "select" /\ c \in todo[s] /\ SkipReason(s, c) = "none"
  /\ todo' = [todo EXCEPT ![s] = @ \ {c}]
  /\ cand' = [cand EXCEPT ![s] = c]
  /\ pc' = [pc EXCEPT ![s] = IF CacheEnabled THEN "lookup" ELSE "request"]
  /\ UNCHANGED <<now, cache, analysis, made, seen, pend, used, results, sent>>

(* SQLiteJSONCache.get, up to the expiry test: a hit ends the candidate, a *)
(* row past its time is deleted in a transaction of its own.               *)
CacheHit(s) ==
  /\ pc[s] = "lookup"
  /\ LET e == cache[CacheKey(s, cand[s])]
     IN  /\ e # NoEntry /\ e.expires >= now
         /\ Record(s, cand[s], [e.result EXCEPT !.cached = TRUE])
  /\ UNCHANGED <<now, cache, analysis, todo, sent>>

CacheMiss(s) ==
  /\ pc[s] = "lookup"
  /\ LET e == cache[CacheKey(s, cand[s])]
     IN  \/ /\ e = NoEntry
            /\ pc' = [pc EXCEPT ![s] = "request"]
         \/ /\ e # NoEntry /\ e.expires < now
            /\ pc' = [pc EXCEPT ![s] = "purge"]
  /\ UNCHANGED <<now, cache, analysis, todo, cand, made, seen, pend, used,
                 results, sent>>

(* Mutant: the row is read again before it is gone.                        *)
ReadAgain(s) ==
  /\ pc[s] = "purge"
  /\ pc' = [pc EXCEPT ![s] = "lookup"]
  /\ UNCHANGED <<now, cache, analysis, todo, cand, made, seen, pend, used,
                 results, sent>>

(* SQLiteJSONCache.delete: by key, whatever the row holds by now.          *)
CacheDelete(s) ==
  /\ pc[s] = "purge"
  /\ cache' = [cache EXCEPT ![CacheKey(s, cand[s])] = NoEntry]
  /\ pc' = [pc EXCEPT ![s] = "request"]
  /\ UNCHANGED <<now, analysis, todo, cand, made, seen, pend, used, results,
                 sent>>

(* The end of a validator run, before the result is stored.                *)
Conclude(s, status, reason, requests, evidence) ==
  /\ pend' = [pend EXCEPT ![s] =
                Outcome(cand[s], Validator(s, cand[s]), status, reason,
                        requests, evidence)]
  /\ pc' = [pc EXCEPT ![s] = "conclude"]

Decline(s) ==
  /\ pc[s] = "request" /\ Declined(s, cand[s]) # "none"
  /\ Conclude(s, "validation_skipped", Declined(s, cand[s]), 0, <<>>)
  /\ UNCHANGED <<now, cache, analysis, todo, cand, made, seen, used, results,
                 sent>>

(* Mutant: the scan's limit is tested one request too late.                *)
ExhaustedLate(s) == made[s] >= MaxPerFinding \/ made[s] > Remaining(s)

(* ValidationContext.request tests both budgets before it sends.           *)
Exhausted(s) == made[s] >= MaxPerFinding \/ made[s] >= Remaining(s)

RequestRefused(s) ==
  /\ pc[s] = "request" /\ Declined(s, cand[s]) = "none" /\ Exhausted(s)
  /\ Conclude(s, FailureStatus("request_budget_exceeded"),
              "request_budget_exceeded", made[s], <<>>)
  /\ UNCHANGED <<now, cache, analysis, todo, cand, made, seen, used, results,
                 sent>>

(* The count goes up before perform_request asks the scope guard, so a     *)
(* request the guard stops is counted and never sent.  The test before the *)
(* count, _enforce_same_origin, cannot fail: a validator asks only for the *)
(* endpoint of its candidate, with one query more at most, and base_url is *)
(* that endpoint.                                                          *)
RequestFails(s, reason) ==
  /\ pc[s] = "request" /\ Declined(s, cand[s]) = "none" /\ ~Exhausted(s)
  /\ made' = [made EXCEPT ![s] = @ + 1]
  /\ sent' = [sent EXCEPT ![s] = IF reason = "scope_violation" THEN @
                                 ELSE @ + 1]
  /\ Conclude(s, FailureStatus(reason), reason, made[s] + 1, <<>>)
  /\ UNCHANGED <<now, cache, analysis, todo, cand, seen, used, results>>

RequestAnswered(s, r) ==
  /\ pc[s] = "request" /\ Declined(s, cand[s]) = "none" /\ ~Exhausted(s)
  /\ made' = [made EXCEPT ![s] = @ + 1]
  /\ sent' = [sent EXCEPT ![s] = @ + 1]
  /\ LET v == Validator(s, cand[s])
         rs == Append(seen[s], r)
     IN  \/ /\ Len(rs) < PlanLength[v]
            /\ seen' = [seen EXCEPT ![s] = rs]
            /\ UNCHANGED <<pc, pend>>
         \/ /\ Len(rs) = PlanLength[v]
            /\ Conclude(s, Verdict(v, rs), "conclusive", made[s] + 1, rs)
            /\ UNCHANGED seen
  /\ UNCHANGED <<now, cache, analysis, todo, cand, used, results>>

(* cache.set when the result may be reused, then the result is recorded.   *)
Settle(s) ==
  /\ pc[s] = "conclude"
  /\ cache' = IF CacheEnabled /\ ShouldCache(pend[s])
              THEN [cache EXCEPT ![CacheKey(s, cand[s])] =
                      [result |-> pend[s], expires |-> now + Ttl]]
              ELSE cache
  /\ Record(s, cand[s], pend[s])
  /\ UNCHANGED <<now, analysis, todo, sent>>

(* Mutant: the loop is left with candidates to go.                         *)
FinishEarly(s) ==
  /\ pc[s] = "select"
  /\ pc' = [pc EXCEPT ![s] = "done"]
  /\ UNCHANGED <<now, cache, analysis, todo, cand, made, seen, pend, used,
                 results, sent>>

Finish(s) ==
  /\ pc[s] = "select" /\ todo[s] = {}
  /\ pc' = [pc EXCEPT ![s] = "done"]
  /\ UNCHANGED <<now, cache, analysis, todo, cand, made, seen, pend, used,
                 results, sent>>

(* A database error (a lock held too long) leaves the loop and the scan.   *)
Abort(s) ==
  /\ \/ pc[s] \in {"lookup", "purge"}
     \/ pc[s] = "conclude" /\ CacheEnabled /\ ShouldCache(pend[s])
  /\ pc' = [pc EXCEPT ![s] = "aborted"]
  /\ UNCHANGED <<now, cache, analysis, todo, cand, made, seen, pend, used,
                 results, sent>>

Tick ==
  /\ now < MaxTime
  /\ now' = now + 1
  /\ UNCHANGED <<cache, analysis, todo, pc, cand, made, seen, pend, used,
                 results, sent>>

Step(s) ==
  \/ \E c \in Candidates : Skip(s, c) \/ Admit(s, c)
  \/ CacheHit(s) \/ CacheMiss(s) \/ CacheDelete(s)
  \/ Decline(s) \/ RequestRefused(s)
  \/ \E reason \in Failures : RequestFails(s, reason)
  \/ \E r \in Responses : RequestAnswered(s, r)
  \/ Settle(s) \/ Finish(s)

Next == Tick \/ \E s \in Scans : Step(s) \/ Abort(s)

Spec == Init /\ [][Next]_vars

(* A scan's thread is scheduled and every request ends, by its timeout at  *)
(* the latest; nothing makes the clock or the database's errors happen.    *)
FairSpec == Spec /\ \A s \in Scans : WF_vars(Step(s))
-----------------------------------------------------------------------------
(* What a thread holds at each place: a candidate with a validator while   *)
(* one is being validated, a count and responses only once requests are    *)
(* made, a result only at the end, and nothing left over for the next one. *)
ThreadState(s) ==
  /\ pc[s] \in {"lookup", "purge", "request", "conclude"} =>
       /\ cand[s] \in Candidates
       /\ analysis[s][cand[s]] \in Analyses
       /\ analysis[s][cand[s]].type \in DOMAIN Registry
  /\ pc[s] \in {"select", "done"} => cand[s] = NoCandidate
  /\ pc[s] \in {"select", "done", "lookup", "purge"} =>
       made[s] = 0 /\ seen[s] = <<>>
  /\ pc[s] = "request" => made[s] = Len(seen[s])
  /\ pc[s] = "conclude" => pend[s] \in Results

(* Every variable stays in its type and every thread in its state.         *)
TypeOK ==
  /\ now \in 0..MaxTime
  /\ cache \in [Keys -> Entries \cup {NoEntry}]
  /\ analysis \in [Scans -> [Candidates -> Analyses \cup {NoAnalysis}]]
  /\ todo \in [Scans -> SUBSET Candidates]
  /\ pc \in [Scans -> Places]
  /\ cand \in [Scans -> Candidates \cup {NoCandidate}]
  /\ made \in [Scans -> Nat]
  /\ seen \in [Scans -> Seq(Responses)]
  /\ pend \in [Scans -> Results \cup {NoResult}]
  /\ used \in [Scans -> Nat]
  /\ results \in [Scans -> [Candidates -> Results \cup {NoResult}]]
  /\ sent \in [Scans -> Nat]
  /\ \A s \in Scans : ThreadState(s)

(* What a validation phase puts on the network stays within both limits,   *)
(* max_validation_requests_per_finding for the run at hand and             *)
(* max_validation_requests_per_scan for all of them, whatever the cached   *)
(* results add to scan_requests_used and wherever the phase stops.         *)
TrafficWithinBudget ==
  \A s \in Scans : sent[s] <= MaxPerScan /\ made[s] <= MaxPerFinding

(* scan_requests_used may pass the scan's limit, because a cached result   *)
(* brings the count of the run that produced it: only by such a result,    *)
(* and by less than one finding's limit.                                   *)
OverrunOnlyByReuse ==
  \A s \in Scans :
    used[s] > MaxPerScan =>
      /\ used[s] - MaxPerScan < MaxPerFinding
      /\ \E c \in Candidates :
           results[s][c] # NoResult /\ results[s][c].cached

(* A result, from a run or from another scan's run through the cache, is   *)
(* about the candidate it is attached to and the validator its analysis    *)
(* asked for; and only what that validator concludes from a complete set   *)
(* of responses makes it "verified" or "false_positive".                   *)
Grounded(r) ==
  /\ r.reason = "conclusive" =>
       /\ Len(r.evidence) = PlanLength[r.validator]
       /\ r.requests = Len(r.evidence)
       /\ r.status = Verdict(r.validator, r.evidence)
  /\ r.status \in {"verified", "false_positive"} => r.reason = "conclusive"

VerdictsAreGrounded ==
  \A s \in Scans, c \in Candidates :
    results[s][c] # NoResult =>
      /\ results[s][c].finding = c
      /\ results[s][c].status # "validation_skipped" =>
           results[s][c].validator = Validator(s, c)
      /\ Grounded(results[s][c])

(* The shared cache never serves a run that was skipped, timed out, lost   *)
(* its connection or ran out of its budget; of the failures only the one   *)
(* without a reason of its own is stored.  Every row holds a run of its    *)
(* own key within the limit of one finding.                                *)
CacheHoldsReusableRuns ==
  \A k \in Keys :
    cache[k] # NoEntry =>
      LET r == cache[k].result
      IN  /\ r.finding = k[1] /\ r.validator = k[2] /\ ~r.cached
          /\ r.status # "validation_skipped"
          /\ r.reason \in {"conclusive", "unexpected_response"}
          /\ r.requests \in 1..MaxPerFinding
          /\ Grounded(r)

(* A phase that comes to its end has a result for every candidate, and a   *)
(* candidate's result is never replaced by a later one.                    *)
DoneIsComplete ==
  \A s \in Scans :
    /\ pc[s] = "done" => \A c \in Candidates : results[s][c] # NoResult
    /\ cand[s] # NoCandidate => results[s][cand[s]] = NoResult

(* What the contract of a phase means here: the question of a candidate is *)
(* its analysis, an outcome fits that is grounded and of the validator the *)
(* analysis asks for, and the cost is requests on the network.             *)
FitsAnalysis(q, r) ==
  /\ r \in Results /\ r.finding = q[1] /\ Grounded(r)
  /\ r.status # "validation_skipped" =>
       q[2] # NoAnalysis /\ r.validator = Registry[q[2].type]

AlwaysOwed(q) == TRUE

ContractState(s) ==
  CASE pc[s] = "done" -> "closed"
    [] pc[s] = "aborted" -> "stopped"
    [] OTHER -> "open"

Questions ==
  [s \in Scans |-> [c \in Candidates |-> <<c, analysis[s][c]>>]]

PhaseState == [s \in Scans |-> ContractState(s)]

Contract ==
  INSTANCE PhaseContract
    WITH Limit <- MaxPerScan, Nothing <- NoResult,
         Owed <- AlwaysOwed, Fits <- FitsAnalysis,
         asked <- Questions, outcome <- results, spent <- sent, state <- PhaseState

(* The phase keeps its contract: with all the scans on one cache, rows     *)
(* that expire, requests that fail and results of other scans, every       *)
(* candidate still gets one grounded result for its own analysis, none is  *)
(* replaced, and the requests fit into the scan's limit.                   *)
KeepsContract == Contract!Spec

(* Every phase comes to its end, unless a database error of its own stops  *)
(* it, whatever its requests come to and the other scans do to the cache:  *)
(* rows that are served, that expire, or that another scan purges.         *)
ScansEnd == \A s \in Scans : <>(pc[s] \in {"done", "aborted"})

(* The report's "Requests:" figure counts requests this scan made.         *)
CountedRequestsWereMade ==
  \A s \in Scans :
    (\A c \in Candidates :
       results[s][c] # NoResult => results[s][c].reason # "scope_violation")
    => used[s] <= sent[s]
=============================================================================
