----------------------- MODULE ValidationEngineProofs -----------------------
(***************************************************************************)
(* Safety of ValidationEngine for any number of scans and candidates, any  *)
(* limits and any time to live; and the steps that a scan has left, which  *)
(* each of its steps makes fewer and no other scan makes more.             *)
(***************************************************************************)
EXTENDS ValidationEngine, FiniteSetTheorems, TLAPS

(* The facts about the constant tables that the steps rest on.             *)
LEMMA RegistryType ==
  /\ DOMAIN Registry = RecommendedTypes \ {"manual_review"}
  /\ \A t \in DOMAIN Registry : Registry[t] \in Validators
BY DEF Registry, RecommendedTypes, Validators

(* No validator plans more than three requests.                            *)
LEMMA PlanType == PlanLength \in [Validators -> 1..3]
BY DEF PlanLength, Validators

(* No verdict is a skip.                                                   *)
LEMMA VerdictType ==
  ASSUME NEW v \in Validators, NEW rs \in Seq(Responses)
  PROVE  Verdict(v, rs) \in {"verified", "false_positive", "unverified"}
BY DEF Verdict, Validators

(* What is left of the scan's budget never exceeds it.                     *)
LEMMA RemainingType ==
  ASSUME NEW s \in Scans, TypeOK
  PROVE  Remaining(s) \in Nat /\ Remaining(s) <= MaxPerScan
BY LimitsAssumption DEF TypeOK, Remaining

(* The candidate at hand has a validator and a cache key.                  *)
LEMMA ActiveTypes ==
  ASSUME TypeOK, NEW s \in Scans,
         pc[s] \in {"lookup", "purge", "request", "conclude"}
  PROVE  /\ cand[s] \in Candidates
         /\ Validator(s, cand[s]) \in Validators
         /\ CacheKey(s, cand[s]) \in Keys
BY RegistryType DEF TypeOK, ThreadState, Validator, CacheKey, Keys, Analyses

(* A new result is a ValidationResult.                                     *)
LEMMA OutcomeType ==
  ASSUME NEW c \in Candidates, NEW v \in RecommendedTypes \cup {"none"},
         NEW status \in {"verified", "false_positive", "unverified",
                         "validation_skipped"},
         NEW reason \in Reasons, NEW requests \in Nat,
         NEW evidence \in Seq(Responses)
  PROVE  Outcome(c, v, status, reason, requests, evidence) \in Results
BY DEF Outcome, Results

(* Every validator is named by one of the recommended types.               *)
LEMMA ValidatorsAreTypes == Validators \subseteq RecommendedTypes
BY DEF Validators, RecommendedTypes, Registry

(* The type invariant holds when the scans start.                          *)
LEMMA TypeInit == Init => TypeOK
BY LimitsAssumption DEF Init, TypeOK, ThreadState, Places

(* A validator run of thread s ends with result r.                         *)
Concludes(s, r) ==
  /\ pend' = [pend EXCEPT ![s] = r]
  /\ pc' = [pc EXCEPT ![s] = "conclude"]
  /\ made' \in [Scans -> Nat] /\ sent' \in [Scans -> Nat]
  /\ \A t \in Scans \ {s} : made'[t] = made[t]
  /\ UNCHANGED <<now, cache, analysis, todo, cand, seen, used, results>>

(* The effect of Record on the thread's own state.                         *)
LEMMA RecordType ==
  ASSUME TypeOK, NEW s \in Scans, NEW c \in Candidates, NEW r \in Results,
         Record(s, c, r)
  PROVE  /\ results' \in [Scans -> [Candidates -> Results \cup {NoResult}]]
         /\ used' \in [Scans -> Nat]
         /\ pc' \in [Scans -> Places]
         /\ cand' \in [Scans -> Candidates \cup {NoCandidate}]
         /\ made' \in [Scans -> Nat]
         /\ seen' \in [Scans -> Seq(Responses)]
         /\ pend' \in [Scans -> Results \cup {NoResult}]
         /\ pc'[s] = "select" /\ cand'[s] = NoCandidate /\ made'[s] = 0
         /\ seen'[s] = <<>>
         /\ \A t \in Scans \ {s} :
              /\ pc'[t] = pc[t] /\ cand'[t] = cand[t] /\ made'[t] = made[t]
              /\ seen'[t] = seen[t] /\ pend'[t] = pend[t]
<1>1. r.requests \in Nat
  BY DEF Results
<1>2. <<>> \in Seq(Responses)
  OBVIOUS
<1> QED
  BY <1>1, <1>2 DEF TypeOK, Record, Places

(* Every step keeps the types and the state of every thread.               *)
LEMMA TypeStep == TypeOK /\ [Next]_vars => TypeOK'
<1> SUFFICES ASSUME TypeOK, [Next]_vars PROVE TypeOK'
  OBVIOUS
<1>1. ASSUME NEW s \in Scans, NEW c \in Candidates, Skip(s, c)
      PROVE  TypeOK'
  <2> DEFINE type == IF analysis[s][c] = NoAnalysis THEN "none"
                     ELSE analysis[s][c].type
             r == Outcome(c, type, "validation_skipped", SkipReason(s, c), 0,
                          <<>>)
  <2>1. type \in RecommendedTypes \cup {"none"}
    BY RecommendedAssumption DEF TypeOK, Analyses
  <2>2. SkipReason(s, c) \in Reasons
    BY <1>1 DEF Skip, SkipReason, Reasons, SkipReasons
  <2>3. r \in Results
    <3>1. <<>> \in Seq(Responses) /\ 0 \in Nat
      OBVIOUS
    <3> HIDE DEF type
    <3> QED BY <2>1, <2>2, <3>1, OutcomeType
  <2>4. Record(s, c, r) /\ todo' = [todo EXCEPT ![s] = @ \ {c}]
        /\ UNCHANGED <<now, cache, analysis, sent>>
    BY <1>1 DEF Skip
  <2> HIDE DEF r
  <2>5. \A t \in Scans : ThreadState(t)'
    BY ZenonT(60), <2>3, <2>4, RecordType DEF TypeOK, ThreadState
  <2> QED
    BY <2>3, <2>4, <2>5, RecordType DEF TypeOK
<1>2. ASSUME NEW s \in Scans, NEW c \in Candidates, Admit(s, c)
      PROVE  TypeOK'
  <2>1. analysis[s][c] \in Analyses /\ analysis[s][c].type \in DOMAIN Registry
    BY <1>2 DEF Admit, SkipReason, TypeOK
  <2> QED
    BY <1>2, <2>1 DEF Admit, TypeOK, ThreadState, Places
<1>3. ASSUME NEW s \in Scans, CacheHit(s)
      PROVE  TypeOK'
  <2> DEFINE e == cache[CacheKey(s, cand[s])]
             r == [e.result EXCEPT !.cached = TRUE]
  <2>1. cand[s] \in Candidates /\ CacheKey(s, cand[s]) \in Keys
    BY <1>3, ActiveTypes DEF CacheHit
  <2>2. r \in Results
    <3>1. e \in Entries
      BY <1>3, <2>1 DEF CacheHit, TypeOK
    <3>2. e.result \in Results
      BY <3>1 DEF Entries
    <3> HIDE DEF e
    <3> QED BY <3>2 DEF Results
  <2>3. Record(s, cand[s], r) /\ UNCHANGED <<now, cache, analysis, todo, sent>>
    BY <1>3 DEF CacheHit
  <2> HIDE DEF r
  <2>4. \A t \in Scans : ThreadState(t)'
    BY ZenonT(60), <2>1, <2>2, <2>3, RecordType DEF TypeOK, ThreadState
  <2> QED
    BY <2>1, <2>2, <2>3, <2>4, RecordType DEF TypeOK
<1>4. ASSUME NEW s \in Scans, CacheMiss(s)
      PROVE  TypeOK'
  BY ZenonT(60), <1>4 DEF CacheMiss, TypeOK, ThreadState, Places
<1>5. ASSUME NEW s \in Scans, CacheDelete(s)
      PROVE  TypeOK'
  <2>1. cache' \in [Keys -> Entries \cup {NoEntry}]
    BY <1>5 DEF CacheDelete, TypeOK
  <2> QED
    BY <1>5, <2>1 DEF CacheDelete, TypeOK, ThreadState, Places
<1>6. ASSUME NEW s \in Scans, NEW r \in Results, pc[s] = "request",
             Concludes(s, r)
      PROVE  TypeOK'
  BY <1>6 DEF Concludes, TypeOK, ThreadState, Places
<1>7. ASSUME NEW s \in Scans, Decline(s)
      PROVE  TypeOK'
  <2> DEFINE r == Outcome(cand[s], Validator(s, cand[s]),
                          "validation_skipped", Declined(s, cand[s]), 0, <<>>)
  <2>1. Declined(s, cand[s]) \in Reasons
    BY <1>7 DEF Decline, Declined, Reasons, DeclineReasons
  <2>2. pc[s] = "request" /\ Concludes(s, r)
    BY <1>7 DEF Decline, Conclude, Concludes, TypeOK
  <2>3. 0 \in Nat /\ <<>> \in Seq(Responses)
    OBVIOUS
  <2>4. r \in Results
    BY <2>1, <2>2, <2>3, ActiveTypes, ValidatorsAreTypes, OutcomeType
  <2> QED
    BY <1>6, <2>2, <2>4
<1>8. ASSUME NEW s \in Scans, RequestRefused(s)
      PROVE  TypeOK'
  <2> DEFINE r == Outcome(cand[s], Validator(s, cand[s]),
                          "validation_skipped", "request_budget_exceeded",
                          made[s], <<>>)
  <2>1. "request_budget_exceeded" \in Reasons
    BY DEF Reasons
  <2>2. pc[s] = "request" /\ Concludes(s, r)
    BY <1>8 DEF RequestRefused, Conclude, Concludes, FailureStatus, TypeOK
  <2>3. made[s] \in Nat /\ <<>> \in Seq(Responses)
    BY DEF TypeOK
  <2>4. r \in Results
    BY <2>1, <2>2, <2>3, ActiveTypes, ValidatorsAreTypes, OutcomeType
  <2> QED
    BY <1>6, <2>2, <2>4
<1>9. ASSUME NEW s \in Scans, NEW reason \in Failures, RequestFails(s, reason)
      PROVE  TypeOK'
  <2> DEFINE status == FailureStatus(reason)
             r == Outcome(cand[s], Validator(s, cand[s]), status, reason,
                          made[s] + 1, <<>>)
  <2>1. reason \in Reasons /\ made[s] + 1 \in Nat /\ <<>> \in Seq(Responses)
    BY ResponsesAssumption DEF Reasons, TypeOK
  <2>2. pc[s] = "request" /\ Concludes(s, r)
    BY <1>9 DEF RequestFails, Conclude, Concludes, TypeOK
  <2>3. status \in {"unverified", "validation_skipped"}
    BY DEF FailureStatus
  <2>4. r \in Results
    <3> HIDE DEF status
    <3> QED
      BY <2>1, <2>2, <2>3, ActiveTypes, ValidatorsAreTypes, OutcomeType
  <2> QED
    BY <1>6, <2>2, <2>4
<1>10. ASSUME NEW s \in Scans, NEW r \in Responses, RequestAnswered(s, r)
       PROVE  TypeOK'
  <2> DEFINE v == Validator(s, cand[s])
             rs == Append(seen[s], r)
  <2>1. pc[s] = "request" /\ v \in Validators /\ rs \in Seq(Responses)
    BY SMTT(30), <1>10, ActiveTypes DEF RequestAnswered, TypeOK
  <2>2. /\ made' = [made EXCEPT ![s] = @ + 1]
        /\ sent' = [sent EXCEPT ![s] = @ + 1]
        /\ UNCHANGED <<now, cache, analysis, todo, cand, used, results>>
    BY <1>10 DEF RequestAnswered
  <2>3. CASE /\ seen' = [seen EXCEPT ![s] = rs]
             /\ UNCHANGED <<pc, pend>>
    BY <2>1, <2>2, <2>3 DEF TypeOK, ThreadState
  <2>4. CASE /\ Conclude(s, Verdict(v, rs), "conclusive", made[s] + 1, rs)
             /\ UNCHANGED seen
    <3>1. Verdict(v, rs) \in {"verified", "false_positive", "unverified"}
      BY <2>1, VerdictType
    <3>2. "conclusive" \in Reasons
      BY DEF Reasons
    <3>3. made[s] + 1 \in Nat
      BY DEF TypeOK
    <3> DEFINE r1 == Outcome(cand[s], v, Verdict(v, rs), "conclusive",
                             made[s] + 1, rs)
    <3>4. Concludes(s, r1)
      BY <2>2, <2>4 DEF Conclude, Concludes, TypeOK
    <3>5. r1 \in Results
      <4> HIDE DEF v, rs
      <4> QED
        BY <2>1, <3>1, <3>2, <3>3, ActiveTypes, ValidatorsAreTypes, OutcomeType
    <3> QED
      BY <1>6, <2>1, <3>4, <3>5
  <2> QED
    BY <1>10, <2>3, <2>4 DEF RequestAnswered
<1>11. ASSUME NEW s \in Scans, Settle(s)
       PROVE  TypeOK'
  <2>1. /\ cand[s] \in Candidates /\ CacheKey(s, cand[s]) \in Keys
        /\ pend[s] \in Results
    BY <1>11, ActiveTypes DEF Settle, TypeOK, ThreadState
  <2>2. [result |-> pend[s], expires |-> now + Ttl] \in Entries
    BY <2>1, LimitsAssumption DEF Entries, TypeOK
  <2>3. cache' \in [Keys -> Entries \cup {NoEntry}]
    BY <1>11, <2>1, <2>2 DEF Settle, TypeOK
  <2>4. Record(s, cand[s], pend[s]) /\ UNCHANGED <<now, analysis, todo, sent>>
    BY <1>11 DEF Settle
  <2>5. \A t \in Scans : ThreadState(t)'
    BY ZenonT(60), <2>1, <2>4, RecordType DEF TypeOK, ThreadState
  <2> QED
    BY <2>1, <2>3, <2>4, <2>5, RecordType DEF TypeOK
<1>12. ASSUME NEW s \in Scans, Finish(s)
       PROVE  TypeOK'
  BY <1>12 DEF Finish, TypeOK, ThreadState, Places
<1>13. ASSUME NEW s \in Scans, Abort(s)
       PROVE  TypeOK'
  BY <1>13 DEF Abort, TypeOK, ThreadState, Places
<1>14. CASE Tick
  BY <1>14, LimitsAssumption DEF Tick, TypeOK, ThreadState
<1>15. CASE UNCHANGED vars
  BY <1>15 DEF vars, TypeOK, ThreadState
<1> QED
  BY <1>1, <1>2, <1>3, <1>4, <1>5, <1>7, <1>8, <1>9, <1>10, <1>11, <1>12,
     <1>13, <1>14, <1>15 DEF Next, Step

(* Type correctness, with the state of every thread at every place.        *)
THEOREM TypeCorrect == Spec => []TypeOK
BY TypeInit, TypeStep, PTL DEF Spec
-----------------------------------------------------------------------------
(* The candidates without a result are those not taken yet and the one at  *)
(* hand: what makes DoneIsComplete inductive.                              *)
Settlement(s) ==
  /\ cand[s] # NoCandidate => cand[s] \notin todo[s]
  /\ \A c \in Candidates :
       results[s][c] = NoResult <=> (c \in todo[s] \/ c = cand[s])
  /\ pc[s] = "done" => todo[s] = {}

SettlementInv == \A s \in Scans : Settlement(s)

(* Recording a result settles its candidate and no other.                  *)
LEMMA RecordSettles ==
  ASSUME TypeOK, SettlementInv, NEW s \in Scans, NEW c \in Candidates,
         NEW r \in Results, Record(s, c, r),
         todo' = [todo EXCEPT ![s] = @ \ {c}],
         cand[s] \in {c, NoCandidate}
  PROVE  SettlementInv'
BY NullsAssumption DEF TypeOK, SettlementInv, Settlement, Record

(* A candidate is to do, at hand or settled, after every step.             *)
LEMMA SettlementStep == TypeOK /\ SettlementInv /\ [Next]_vars => SettlementInv'
<1> SUFFICES ASSUME TypeOK, SettlementInv, [Next]_vars PROVE SettlementInv'
  OBVIOUS
<1>1. ASSUME NEW s \in Scans, NEW c \in Candidates, Skip(s, c)
      PROVE  SettlementInv'
  <2>1. cand[s] = NoCandidate
    BY <1>1 DEF Skip, TypeOK, ThreadState
  <2>2. SkipReason(s, c) \in Reasons
    BY <1>1 DEF Skip, SkipReason, Reasons, SkipReasons
  <2> DEFINE type == IF analysis[s][c] = NoAnalysis THEN "none"
                     ELSE analysis[s][c].type
             r == Outcome(c, type, "validation_skipped", SkipReason(s, c), 0,
                          <<>>)
  <2>3. type \in RecommendedTypes \cup {"none"}
    BY RecommendedAssumption DEF TypeOK, Analyses
  <2>4. r \in Results
    <3>1. <<>> \in Seq(Responses) /\ 0 \in Nat
      OBVIOUS
    <3> HIDE DEF type
    <3> QED BY <2>2, <2>3, <3>1, OutcomeType
  <2>5. Record(s, c, r) /\ todo' = [todo EXCEPT ![s] = @ \ {c}]
    BY <1>1 DEF Skip
  <2> HIDE DEF r
  <2> QED
    BY <2>1, <2>4, <2>5, RecordSettles
<1>2. ASSUME NEW s \in Scans, NEW c \in Candidates, Admit(s, c)
      PROVE  SettlementInv'
  BY <1>2, NullsAssumption
     DEF Admit, TypeOK, ThreadState, SettlementInv, Settlement
<1>3. ASSUME NEW s \in Scans, CacheHit(s)
      PROVE  SettlementInv'
  <2> DEFINE e == cache[CacheKey(s, cand[s])]
             r == [e.result EXCEPT !.cached = TRUE]
  <2>1. cand[s] \in Candidates /\ e \in Entries
    BY <1>3, ActiveTypes DEF CacheHit, TypeOK
  <2>2. r \in Results
    <3>1. e.result \in Results
      BY <2>1 DEF Entries
    <3> HIDE DEF e
    <3> QED BY <3>1 DEF Results
  <2>3. Record(s, cand[s], r) /\ todo' = todo
    BY <1>3 DEF CacheHit
  <2>4. todo' = [todo EXCEPT ![s] = @ \ {cand[s]}]
    BY <2>1, <2>3, NullsAssumption DEF TypeOK, SettlementInv, Settlement
  <2> HIDE DEF r
  <2> QED
    BY <2>1, <2>2, <2>3, <2>4, RecordSettles
<1>4. ASSUME NEW s \in Scans, Settle(s)
      PROVE  SettlementInv'
  <2>1. cand[s] \in Candidates /\ pend[s] \in Results
    BY <1>4 DEF Settle, TypeOK, ThreadState
  <2>2. Record(s, cand[s], pend[s]) /\ todo' = todo
    BY <1>4 DEF Settle
  <2>3. todo' = [todo EXCEPT ![s] = @ \ {cand[s]}]
    BY <2>1, <2>2, NullsAssumption DEF TypeOK, SettlementInv, Settlement
  <2> QED
    BY <2>1, <2>2, <2>3, RecordSettles
<1>5. ASSUME NEW s \in Scans, Finish(s)
      PROVE  SettlementInv'
  BY <1>5 DEF Finish, TypeOK, SettlementInv, Settlement
<1>6. ASSUME NEW s \in Scans,
             \/ CacheMiss(s) \/ CacheDelete(s) \/ Decline(s)
             \/ RequestRefused(s) \/ Abort(s)
             \/ \E reason \in Failures : RequestFails(s, reason)
             \/ \E r \in Responses : RequestAnswered(s, r)
      PROVE  SettlementInv'
  <2>1. /\ UNCHANGED <<todo, cand, results>>
        /\ \A t \in Scans : pc'[t] = "done" => pc[t] = "done"
    BY <1>6 DEF CacheMiss, CacheDelete, Decline, RequestRefused, Abort,
                RequestFails, RequestAnswered, Conclude, TypeOK
  <2> QED
    BY <2>1 DEF SettlementInv, Settlement
<1>7. CASE Tick \/ UNCHANGED vars
  BY <1>7 DEF Tick, vars, SettlementInv, Settlement
<1> QED
  BY <1>1, <1>2, <1>3, <1>4, <1>5, <1>6, <1>7 DEF Next, Step

(* So every candidate is accounted for throughout.                         *)
LEMMA SettlementInvariant == Spec => []SettlementInv
<1>1. Init => SettlementInv
  BY NullsAssumption DEF Init, SettlementInv, Settlement
<1> QED
  BY <1>1, SettlementStep, TypeCorrect, PTL DEF Spec

(* A phase that ends has a result for every candidate, and the candidate   *)
(* being validated has none yet.                                           *)
THEOREM Completeness == Spec => []DoneIsComplete
<1>2. TypeOK /\ SettlementInv => DoneIsComplete
  <2> SUFFICES ASSUME TypeOK, SettlementInv, NEW s \in Scans
               PROVE  /\ pc[s] = "done" =>
                           \A c \in Candidates : results[s][c] # NoResult
                      /\ cand[s] # NoCandidate => results[s][cand[s]] = NoResult
    BY DEF DoneIsComplete
  <2>1. Settlement(s) /\ ThreadState(s) /\ cand[s] \in Candidates \cup {NoCandidate}
    BY DEF SettlementInv, TypeOK
  <2> QED
    BY <2>1, NullsAssumption DEF Settlement, ThreadState
<1> QED
  BY <1>2, SettlementInvariant, TypeCorrect, PTL
-----------------------------------------------------------------------------
(* What a finished validator run has established before it is stored or    *)
(* recorded: this makes CacheHoldsReusableRuns inductive.                  *)
RunOK(r, c, v) ==
  /\ r.finding = c /\ r.validator = v /\ ~r.cached
  /\ Grounded(r)
  /\ ShouldCache(r) =>
       /\ r.reason \in {"conclusive", "unexpected_response"}
       /\ r.requests \in 1..MaxPerFinding

PendingInv ==
  \A s \in Scans :
    pc[s] = "conclude" => RunOK(pend[s], cand[s], Validator(s, cand[s]))

RunInv == PendingInv /\ CacheHoldsReusableRuns

(* A run that was stopped, and so has no evidence, is a sound result.      *)
LEMMA StoppedRun ==
  ASSUME NEW c, NEW v, NEW requests \in Nat,
         NEW status \in {"unverified", "validation_skipped"},
         NEW reason \in Reasons \ {"conclusive"},
         \/ status = "validation_skipped"
         \/ reason \in FailureReasons /\ requests \in 1..MaxPerFinding
  PROVE  RunOK(Outcome(c, v, status, reason, requests, <<>>), c, v)
BY DEF RunOK, Outcome, Grounded, ShouldCache, FailureReasons, TransientReasons

(* A run that got all its answers may be stored.                           *)
LEMMA ConcludedRun ==
  ASSUME NEW c, NEW v \in Validators, NEW rs \in Seq(Responses),
         Len(rs) = PlanLength[v], Len(rs) \in 1..MaxPerFinding
  PROVE  RunOK(Outcome(c, v, Verdict(v, rs), "conclusive", Len(rs), rs), c, v)
BY DEF RunOK, Outcome, Grounded

(* Whatever ends in "conclude" keeps RunInv when its result is sound.      *)
LEMMA ConcludeKeeps ==
  ASSUME TypeOK, RunInv, NEW s \in Scans, NEW r,
         RunOK(r, cand[s], Validator(s, cand[s])),
         pend' = [pend EXCEPT ![s] = r],
         pc' = [pc EXCEPT ![s] = "conclude"],
         UNCHANGED <<cache, cand, analysis>>
  PROVE  RunInv'
BY DEF TypeOK, RunInv, PendingInv, CacheHoldsReusableRuns, Validator

(* Every step keeps the pending results and the cache rows reusable.       *)
LEMMA RunStep == TypeOK /\ RunInv /\ [Next]_vars => RunInv'
<1> SUFFICES ASSUME TypeOK, RunInv, [Next]_vars PROVE RunInv'
  OBVIOUS
<1>1. ASSUME NEW s \in Scans, Decline(s)
      PROVE  RunInv'
  <2>1. Declined(s, cand[s]) \in Reasons \ {"conclusive"}
    BY <1>1 DEF Decline, Declined, Reasons, DeclineReasons
  <2>2. RunOK(Outcome(cand[s], Validator(s, cand[s]), "validation_skipped",
                      Declined(s, cand[s]), 0, <<>>),
              cand[s], Validator(s, cand[s]))
    BY <2>1, StoppedRun
  <2> QED
    BY <1>1, <2>2, ConcludeKeeps DEF Decline, Conclude
<1>2. ASSUME NEW s \in Scans, RequestRefused(s)
      PROVE  RunInv'
  <2>1. /\ "request_budget_exceeded" \in Reasons \ {"conclusive"}
        /\ made[s] \in Nat
        /\ FailureStatus("request_budget_exceeded") = "validation_skipped"
    BY DEF Reasons, TypeOK, FailureStatus
  <2>2. RunOK(Outcome(cand[s], Validator(s, cand[s]), "validation_skipped",
                      "request_budget_exceeded", made[s], <<>>),
              cand[s], Validator(s, cand[s]))
    BY <2>1, StoppedRun
  <2> QED
    BY <1>2, <2>1, <2>2, ConcludeKeeps DEF RequestRefused, Conclude
<1>3. ASSUME NEW s \in Scans, NEW reason \in Failures, RequestFails(s, reason)
      PROVE  RunInv'
  <2>1. made[s] \in Nat /\ made[s] < MaxPerFinding
    BY <1>3, LimitsAssumption DEF RequestFails, Exhausted, TypeOK
  <2>2. /\ made[s] + 1 \in Nat /\ made[s] + 1 \in 1..MaxPerFinding
        /\ reason \in FailureReasons /\ reason \in Reasons \ {"conclusive"}
        /\ FailureStatus(reason) \in {"unverified", "validation_skipped"}
    BY <2>1, LimitsAssumption, ResponsesAssumption
       DEF FailureReasons, TransientReasons, Reasons, FailureStatus
  <2>3. RunOK(Outcome(cand[s], Validator(s, cand[s]), FailureStatus(reason),
                      reason, made[s] + 1, <<>>),
              cand[s], Validator(s, cand[s]))
    BY <2>2, StoppedRun
  <2> QED
    BY <1>3, <2>3, ConcludeKeeps DEF RequestFails, Conclude
<1>4. ASSUME NEW s \in Scans, NEW r \in Responses, RequestAnswered(s, r)
      PROVE  RunInv'
  <2> DEFINE v == Validator(s, cand[s])
             rs == Append(seen[s], r)
  <2>1. /\ v \in Validators /\ rs \in Seq(Responses)
        /\ made[s] = Len(seen[s]) /\ Len(rs) = made[s] + 1
        /\ made[s] \in Nat /\ made[s] < MaxPerFinding
    <3>1. pc[s] = "request" /\ ~Exhausted(s)
      BY <1>4 DEF RequestAnswered
    <3>2. seen[s] \in Seq(Responses) /\ made[s] \in Nat /\ made[s] = Len(seen[s])
      BY <3>1 DEF TypeOK, ThreadState
    <3>3. rs \in Seq(Responses) /\ Len(rs) = made[s] + 1
      BY <3>2
    <3>4. made[s] < MaxPerFinding
      BY <3>1, <3>2, LimitsAssumption DEF Exhausted
    <3> QED
      BY <3>1, <3>2, <3>3, <3>4, ActiveTypes
  <2>2. Len(rs) \in 1..MaxPerFinding
    BY SMTT(30), <2>1, LimitsAssumption
  <2>3. CASE UNCHANGED <<pc, pend>>
    BY <1>4, <2>3 DEF RequestAnswered, RunInv, PendingInv,
                      CacheHoldsReusableRuns, Validator
  <2>4. CASE /\ Len(rs) = PlanLength[v]
             /\ Conclude(s, Verdict(v, rs), "conclusive", made[s] + 1, rs)
    <3>1. RunOK(Outcome(cand[s], v, Verdict(v, rs), "conclusive", Len(rs), rs),
                cand[s], v)
      BY <2>1, <2>2, <2>4, ConcludedRun
    <3>2. /\ pend' = [pend EXCEPT ![s] =
                        Outcome(cand[s], v, Verdict(v, rs), "conclusive",
                                Len(rs), rs)]
          /\ pc' = [pc EXCEPT ![s] = "conclude"]
          /\ UNCHANGED <<cache, cand, analysis>>
      BY <1>4, <2>1, <2>4 DEF RequestAnswered, Conclude
    <3> HIDE DEF rs
    <3> QED
      BY <3>1, <3>2, ConcludeKeeps
  <2> QED
    BY <1>4, <2>3, <2>4 DEF RequestAnswered
<1>5. ASSUME NEW s \in Scans, Settle(s)
      PROVE  RunInv'
  <2>1. CacheHoldsReusableRuns'
    <3>1. RunOK(pend[s], cand[s], Validator(s, cand[s]))
      BY <1>5 DEF Settle, RunInv, PendingInv
    <3>2. CacheKey(s, cand[s])[1] = cand[s]
          /\ CacheKey(s, cand[s])[2] = Validator(s, cand[s])
      BY DEF CacheKey
    <3> QED
      BY <1>5, <3>1, <3>2
         DEF Settle, RunInv, CacheHoldsReusableRuns, RunOK, TypeOK, ShouldCache
  <2>2. PendingInv'
    BY <1>5 DEF Settle, Record, TypeOK, RunInv, PendingInv, Validator
  <2> QED
    BY <2>1, <2>2 DEF RunInv
<1>6. ASSUME NEW s \in Scans, CacheDelete(s)
      PROVE  RunInv'
  BY <1>6 DEF CacheDelete, TypeOK, RunInv, PendingInv, CacheHoldsReusableRuns,
              Validator
<1>7. ASSUME NEW s \in Scans, NEW c \in Candidates, Skip(s, c) \/ Admit(s, c)
      PROVE  RunInv'
  BY ZenonT(60), <1>7 DEF Skip, Admit, Record, TypeOK, RunInv, PendingInv,
              CacheHoldsReusableRuns, Validator
<1>8. ASSUME NEW s \in Scans, CacheHit(s) \/ CacheMiss(s) \/ Finish(s) \/ Abort(s)
      PROVE  RunInv'
  BY ZenonT(60), <1>8
     DEF CacheHit, CacheMiss, Finish, Abort, Record, TypeOK, RunInv,
              PendingInv, CacheHoldsReusableRuns, Validator
<1>9. CASE Tick \/ UNCHANGED vars
  BY <1>9 DEF Tick, vars, RunInv, PendingInv, CacheHoldsReusableRuns, Validator
<1> QED
  BY <1>1, <1>2, <1>3, <1>4, <1>5, <1>6, <1>7, <1>8, <1>9 DEF Next, Step

(* So they are reusable throughout.                                        *)
LEMMA RunInvariant == Spec => []RunInv
<1>1. Init => RunInv
  BY DEF Init, RunInv, PendingInv, CacheHoldsReusableRuns
<1> QED
  BY <1>1, RunStep, TypeCorrect, PTL DEF Spec

(* The cache serves only complete runs of the key they are stored under.   *)
THEOREM CacheReusable == Spec => []CacheHoldsReusableRuns
BY RunInvariant, PTL DEF RunInv
-----------------------------------------------------------------------------
(* A result is sound for candidate c of scan s.                            *)
AttachedOK(s, c, r) ==
  /\ r.finding = c
  /\ r.status # "validation_skipped" => r.validator = Validator(s, c)
  /\ Grounded(r)

(* Recording a grounded result keeps all results grounded.                 *)
LEMMA RecordGrounds ==
  ASSUME TypeOK, VerdictsAreGrounded, NEW s \in Scans, NEW c \in Candidates,
         NEW r, Record(s, c, r), AttachedOK(s, c, r), UNCHANGED analysis
  PROVE  VerdictsAreGrounded'
BY DEF TypeOK, VerdictsAreGrounded, AttachedOK, Record, Validator

(* Every step records only grounded results.                               *)
LEMMA GroundedStep ==
  TypeOK /\ RunInv /\ VerdictsAreGrounded /\ [Next]_vars => VerdictsAreGrounded'
<1> SUFFICES ASSUME TypeOK, RunInv, VerdictsAreGrounded, [Next]_vars
             PROVE  VerdictsAreGrounded'
  OBVIOUS
<1>1. ASSUME NEW s \in Scans, NEW c \in Candidates, Skip(s, c)
      PROVE  VerdictsAreGrounded'
  <2> DEFINE type == IF analysis[s][c] = NoAnalysis THEN "none"
                     ELSE analysis[s][c].type
             r == Outcome(c, type, "validation_skipped", SkipReason(s, c), 0,
                          <<>>)
  <2>1. SkipReason(s, c) # "conclusive"
    BY DEF SkipReason
  <2>2. AttachedOK(s, c, r)
    BY <2>1 DEF AttachedOK, Outcome, Grounded
  <2>3. Record(s, c, r) /\ UNCHANGED analysis
    BY <1>1 DEF Skip
  <2> HIDE DEF r
  <2> QED
    BY <2>2, <2>3, RecordGrounds
<1>2. ASSUME NEW s \in Scans, CacheHit(s)
      PROVE  VerdictsAreGrounded'
  <2> DEFINE k == CacheKey(s, cand[s])
             e == cache[k]
             r == [e.result EXCEPT !.cached = TRUE]
  <2>1. cand[s] \in Candidates /\ k \in Keys /\ e # NoEntry /\ e \in Entries
    BY <1>2, ActiveTypes DEF CacheHit, TypeOK
  <2>2. e.result.finding = k[1] /\ e.result.validator = k[2] /\ Grounded(e.result)
    BY <2>1 DEF RunInv, CacheHoldsReusableRuns
  <2>3. k[1] = cand[s] /\ k[2] = Validator(s, cand[s])
    BY DEF CacheKey
  <2>4. e.result \in Results
    BY <2>1 DEF Entries
  <2>5. AttachedOK(s, cand[s], r)
    <3> HIDE DEF e, k
    <3> QED BY <2>2, <2>3, <2>4 DEF AttachedOK, Grounded, Results
  <2>6. Record(s, cand[s], r) /\ UNCHANGED analysis
    BY <1>2 DEF CacheHit
  <2> HIDE DEF r
  <2> QED
    BY <2>1, <2>5, <2>6, RecordGrounds
<1>3. ASSUME NEW s \in Scans, Settle(s)
      PROVE  VerdictsAreGrounded'
  <2>1. AttachedOK(s, cand[s], pend[s]) /\ cand[s] \in Candidates
    BY <1>3, ActiveTypes DEF Settle, RunInv, PendingInv, RunOK, AttachedOK
  <2>2. Record(s, cand[s], pend[s]) /\ UNCHANGED analysis
    BY <1>3 DEF Settle
  <2> QED
    BY <2>1, <2>2, RecordGrounds
<1>4. ASSUME UNCHANGED <<results, analysis>>
      PROVE  VerdictsAreGrounded'
  BY <1>4 DEF VerdictsAreGrounded, Validator
<1> QED
  BY <1>1, <1>2, <1>3, <1>4
     DEF Next, Step, Tick, vars, Admit, CacheMiss, CacheDelete, Decline,
         RequestRefused, RequestFails, RequestAnswered, Finish, Abort

(* Every verdict attached to a candidate, its own or one reused from       *)
(* another scan, is what its validator concludes from complete evidence.   *)
THEOREM Groundedness == Spec => []VerdictsAreGrounded
<1>1. Init => VerdictsAreGrounded
  BY DEF Init, VerdictsAreGrounded
<1> QED
  BY <1>1, GroundedStep, RunInvariant, TypeCorrect, PTL DEF Spec
-----------------------------------------------------------------------------
(* What the traffic of a scan is bounded by at each place: its requests    *)
(* are on its account or on the count of the run at hand, and that count   *)
(* still fits what is left of the scan's limit.                            *)
Account(s) ==
  /\ sent[s] <= used[s] + made[s] /\ sent[s] <= MaxPerScan
  /\ made[s] <= MaxPerFinding
  /\ pc[s] \in {"lookup", "purge"} => used[s] < MaxPerScan
  /\ made[s] > 0 => used[s] + made[s] <= MaxPerScan
  /\ pc[s] = "request" /\ Declined(s, cand[s]) # "none" => made[s] = 0
  /\ pc[s] = "conclude" => pend[s].requests = made[s]

AccountInv == (\A s \in Scans : Account(s)) /\ OverrunOnlyByReuse

(* Every step keeps what is sent, made and used in proportion.             *)
LEMMA AccountStep ==
  TypeOK /\ SettlementInv /\ RunInv /\ AccountInv /\ [Next]_vars => AccountInv'
<1> SUFFICES ASSUME TypeOK, SettlementInv, RunInv, AccountInv, [Next]_vars
             PROVE  AccountInv'
  OBVIOUS
<1> USE LimitsAssumption
<1>1. ASSUME NEW s \in Scans, NEW c \in Candidates, NEW r \in Results,
             Record(s, c, r), results[s][c] = NoResult,
             sent[s] <= used[s] + r.requests, UNCHANGED <<sent, analysis>>,
             \/ used[s] + r.requests <= MaxPerScan
             \/ r.requests = 0
             \/ /\ used[s] < MaxPerScan /\ r.cached
                /\ r.requests <= MaxPerFinding
      PROVE  AccountInv'
  <2>1. /\ used' = [used EXCEPT ![s] = @ + r.requests]
        /\ pc' = [pc EXCEPT ![s] = "select"]
        /\ made' = [made EXCEPT ![s] = 0]
        /\ results'[s][c] = r
        /\ \A d \in Candidates \ {c} : results'[s][d] = results[s][d]
        /\ \A t \in Scans \ {s} :
             /\ results'[t] = results[t] /\ cand'[t] = cand[t]
             /\ pend'[t] = pend[t]
    BY <1>1 DEF Record, TypeOK
  <2>2. r.requests \in Nat /\ r # NoResult
    BY <1>1, NullsAssumption DEF Results
  <2>3. \A t \in Scans : Account(t)'
    BY <1>1, <2>1, <2>2 DEF AccountInv, Account, TypeOK, Declined, Validator
  <2>4. OverrunOnlyByReuse'
    <3> SUFFICES ASSUME NEW t \in Scans, used'[t] > MaxPerScan
                 PROVE  /\ used'[t] - MaxPerScan < MaxPerFinding
                        /\ \E d \in Candidates :
                             results'[t][d] # NoResult /\ results'[t][d].cached
      BY DEF OverrunOnlyByReuse
    <3>1. CASE t # s
      <4>1. used'[t] = used[t] /\ results'[t] = results[t]
        BY <2>1, <3>1 DEF TypeOK
      <4> QED BY <4>1 DEF AccountInv, OverrunOnlyByReuse
    <3>3. CASE t = s /\ r.requests = 0
      <4>1. used'[s] = used[s]
        BY <2>1, <3>3 DEF TypeOK
      <4>2. PICK d \in Candidates : results[s][d] # NoResult /\ results[s][d].cached
        BY <3>3, <4>1 DEF AccountInv, OverrunOnlyByReuse
      <4>3. d # c /\ results'[s][d] = results[s][d]
        BY <1>1, <2>1, <4>2
      <4> QED BY <3>3, <4>1, <4>2, <4>3 DEF AccountInv, OverrunOnlyByReuse
    <3>2. CASE t = s /\ r.requests # 0
      BY <1>1, <2>1, <2>2, <3>2 DEF TypeOK
    <3> QED BY <3>1, <3>2, <3>3
  <2> QED
    BY <2>3, <2>4 DEF AccountInv
<1>2. ASSUME NEW s \in Scans, NEW c \in Candidates, Skip(s, c)
      PROVE  AccountInv'
  <2> DEFINE type == IF analysis[s][c] = NoAnalysis THEN "none"
                     ELSE analysis[s][c].type
             r == Outcome(c, type, "validation_skipped", SkipReason(s, c), 0,
                          <<>>)
  <2>1. type \in RecommendedTypes \cup {"none"} /\ SkipReason(s, c) \in Reasons
    BY <1>2, RecommendedAssumption
       DEF TypeOK, Analyses, Skip, SkipReason, Reasons, SkipReasons
  <2>2. r \in Results /\ r.requests = 0
    <3>1. <<>> \in Seq(Responses) /\ 0 \in Nat
      OBVIOUS
    <3>2. r.requests = 0
      BY DEF Outcome
    <3> HIDE DEF type
    <3> QED BY <2>1, <3>1, <3>2, OutcomeType
  <2>3. Record(s, c, r) /\ UNCHANGED <<sent, analysis>>
    BY <1>2 DEF Skip
  <2>4. results[s][c] = NoResult /\ sent[s] <= used[s] + 0
    BY <1>2 DEF Skip, SettlementInv, Settlement, AccountInv, Account, TypeOK,
                ThreadState
  <2> HIDE DEF r
  <2> QED
    BY <1>1, <2>2, <2>3, <2>4
<1>3. ASSUME NEW s \in Scans, CacheHit(s)
      PROVE  AccountInv'
  <2> DEFINE k == CacheKey(s, cand[s])
             e == cache[k]
             r == [e.result EXCEPT !.cached = TRUE]
  <2>1. cand[s] \in Candidates /\ k \in Keys /\ e # NoEntry /\ e \in Entries
    BY <1>3, ActiveTypes DEF CacheHit, TypeOK
  <2>2. e.result.requests \in 1..MaxPerFinding
    BY <2>1 DEF RunInv, CacheHoldsReusableRuns
  <2>3. e.result \in Results
    BY <2>1 DEF Entries
  <2>4. /\ r \in Results /\ r.cached /\ r.requests = e.result.requests
        /\ r.requests \in Nat
    <3> HIDE DEF e
    <3> QED BY <2>3 DEF Results
  <2>5. Record(s, cand[s], r) /\ UNCHANGED <<sent, analysis>>
    BY <1>3 DEF CacheHit
  <2>6. /\ results[s][cand[s]] = NoResult /\ used[s] < MaxPerScan
        /\ sent[s] <= used[s] /\ used[s] \in Nat /\ sent[s] \in Nat
    BY <1>3, <2>1 DEF CacheHit, SettlementInv, Settlement, AccountInv, Account,
                      TypeOK, ThreadState
  <2>7. sent[s] <= used[s] + r.requests /\ r.requests <= MaxPerFinding
    BY <2>2, <2>4, <2>6
  <2> HIDE DEF r
  <2> QED
    BY <1>1, <2>1, <2>4, <2>5, <2>6, <2>7
<1>4. ASSUME NEW s \in Scans, Settle(s)
      PROVE  AccountInv'
  <2>1. /\ cand[s] \in Candidates /\ pend[s] \in Results
        /\ Record(s, cand[s], pend[s]) /\ UNCHANGED <<sent, analysis>>
    BY <1>4 DEF Settle, TypeOK, ThreadState
  <2>2. results[s][cand[s]] = NoResult
    BY <2>1 DEF SettlementInv, Settlement
  <2>3. /\ pend[s].requests = made[s] /\ sent[s] <= used[s] + made[s]
        /\ made[s] > 0 => used[s] + made[s] <= MaxPerScan
        /\ made[s] \in Nat
    BY <1>4 DEF Settle, AccountInv, Account, TypeOK
  <2> QED
    BY <1>1, <2>1, <2>2, <2>3
<1>5. ASSUME NEW s \in Scans, NEW c \in Candidates, Admit(s, c)
      PROVE  AccountInv'
  <2>1. Remaining(s) # 0
    BY <1>5 DEF Admit, SkipReason
  <2>2. used[s] < MaxPerScan
    BY <2>1 DEF Remaining, TypeOK
  <2>3. made[s] = 0
    BY <1>5 DEF Admit, TypeOK, ThreadState
  <2> QED
    BY <1>5, <2>2, <2>3 DEF Admit, AccountInv, Account, OverrunOnlyByReuse,
                            TypeOK, Declined, Validator
<1>6. ASSUME NEW s \in Scans, CacheMiss(s) \/ CacheDelete(s)
      PROVE  AccountInv'
  <2>1. made[s] = 0
    BY <1>6 DEF CacheMiss, CacheDelete, TypeOK, ThreadState
  <2> QED
    BY ZenonT(60), <1>6, <2>1 DEF CacheMiss, CacheDelete, AccountInv, Account,
                      OverrunOnlyByReuse, TypeOK, Declined, Validator
<1>7. ASSUME NEW s \in Scans, NEW r, pc[s] = "request", Concludes(s, r),
             r.requests = made'[s], sent'[s] <= used[s] + made'[s],
             \A t \in Scans \ {s} : sent'[t] = sent[t],
             sent'[s] <= MaxPerScan, made'[s] <= MaxPerFinding,
             made'[s] > 0 => used[s] + made'[s] <= MaxPerScan
      PROVE  AccountInv'
  <2>1. \A t \in Scans \ {s} : Account(t)'
    BY SMTT(30), <1>7
       DEF Concludes, AccountInv, Account, TypeOK, Declined, Validator
  <2>2. Account(s)'
    BY <1>7 DEF Concludes, Account, TypeOK
  <2> QED
    BY <1>7, <2>1, <2>2 DEF Concludes, AccountInv, OverrunOnlyByReuse
<1>8. ASSUME NEW s \in Scans, pc[s] = "request", ~Exhausted(s)
      PROVE  /\ made[s] + 1 <= MaxPerFinding
             /\ used[s] + (made[s] + 1) <= MaxPerScan
             /\ sent[s] + 1 <= used[s] + (made[s] + 1)
             /\ sent[s] <= used[s] + (made[s] + 1)
             /\ sent[s] + 1 <= MaxPerScan
             /\ sent[s] <= MaxPerScan
  BY <1>8 DEF Exhausted, Remaining, AccountInv, Account, TypeOK
<1>9. ASSUME NEW s \in Scans, Decline(s) \/ RequestRefused(s)
      PROVE  AccountInv'
  <2> DEFINE r == pend'[s]
  <2>1. pc[s] = "request" /\ Concludes(s, r) /\ r.requests = made[s]
    BY <1>9 DEF Decline, RequestRefused, Conclude, Concludes, Outcome, TypeOK,
                AccountInv, Account
  <2>2. UNCHANGED <<made, sent>> /\ Account(s)
    BY <1>9 DEF Decline, RequestRefused, AccountInv
  <2> HIDE DEF r
  <2> QED
    BY <1>7, <2>1, <2>2 DEF Account
<1>10. ASSUME NEW s \in Scans, pc[s] = "request", ~Exhausted(s), NEW status,
              NEW reason, NEW evidence,
              Conclude(s, status, reason, made[s] + 1, evidence),
              made' = [made EXCEPT ![s] = @ + 1],
              sent' \in {sent, [sent EXCEPT ![s] = @ + 1]},
              UNCHANGED <<now, cache, analysis, todo, cand, seen, used, results>>
       PROVE  AccountInv'
  <2> DEFINE r == pend'[s]
  <2>1. /\ made'[s] = made[s] + 1 /\ sent'[s] \in {sent[s], sent[s] + 1}
        /\ \A t \in Scans \ {s} : sent'[t] = sent[t]
        /\ made' \in [Scans -> Nat] /\ sent' \in [Scans -> Nat]
        /\ \A t \in Scans \ {s} : made'[t] = made[t]
    BY <1>10 DEF TypeOK
  <2>2. r.requests = made[s] + 1
    BY <1>10 DEF Conclude, Outcome, TypeOK
  <2>3. Concludes(s, r)
    BY <1>10, <2>1 DEF Conclude, Concludes, TypeOK
  <2> HIDE DEF r
  <2> QED
    BY <1>7, <1>8, <1>10, <2>1, <2>2, <2>3
<1>11. ASSUME NEW s \in Scans, NEW reason \in Failures, RequestFails(s, reason)
       PROVE  AccountInv'
  <2>1. /\ pc[s] = "request" /\ ~Exhausted(s)
        /\ Conclude(s, FailureStatus(reason), reason, made[s] + 1, <<>>)
        /\ made' = [made EXCEPT ![s] = @ + 1]
        /\ UNCHANGED <<now, cache, analysis, todo, cand, seen, used, results>>
    BY <1>11 DEF RequestFails
  <2>2. sent' \in {sent, [sent EXCEPT ![s] = @ + 1]}
    BY <1>11 DEF RequestFails, TypeOK
  <2> QED
    BY <1>10, <2>1, <2>2
<1>12. ASSUME NEW s \in Scans, NEW r \in Responses, RequestAnswered(s, r)
       PROVE  AccountInv'
  <2> DEFINE v == Validator(s, cand[s])
             rs == Append(seen[s], r)
  <2>1. /\ pc[s] = "request" /\ ~Exhausted(s) /\ Declined(s, cand[s]) = "none"
        /\ made' = [made EXCEPT ![s] = @ + 1]
        /\ sent' = [sent EXCEPT ![s] = @ + 1]
        /\ UNCHANGED <<now, cache, analysis, todo, cand, used, results>>
    BY <1>12 DEF RequestAnswered
  <2>2. CASE UNCHANGED <<pc, pend>>
    <3>1. /\ made'[s] = made[s] + 1 /\ sent'[s] = sent[s] + 1
          /\ made' \in [Scans -> Nat] /\ sent' \in [Scans -> Nat]
          /\ \A t \in Scans \ {s} : made'[t] = made[t] /\ sent'[t] = sent[t]
      BY <2>1 DEF TypeOK
    <3>2. \A t \in Scans \ {s} : Account(t)'
      BY <2>1, <2>2, <3>1 DEF AccountInv, Account, Declined, Validator
    <3>3. Account(s)'
      BY <1>8, <2>1, <2>2, <3>1 DEF Account, Declined, Validator
    <3> QED
      BY <2>1, <3>2, <3>3 DEF AccountInv, OverrunOnlyByReuse
  <2>3. CASE /\ Conclude(s, Verdict(v, rs), "conclusive", made[s] + 1, rs)
             /\ UNCHANGED seen
    <3> HIDE DEF v, rs
    <3> QED BY <1>10, <2>1, <2>3
  <2> QED
    BY <1>12, <2>2, <2>3 DEF RequestAnswered
<1>13. ASSUME NEW s \in Scans, Finish(s) \/ Abort(s)
       PROVE  AccountInv'
  BY ZenonT(60), <1>13
     DEF Finish, Abort, AccountInv, Account, OverrunOnlyByReuse, TypeOK,
               Declined, Validator
<1>14. CASE Tick \/ UNCHANGED vars
  BY <1>14 DEF Tick, vars, AccountInv, Account, OverrunOnlyByReuse, Declined,
               Validator
<1> QED
  BY <1>2, <1>3, <1>4, <1>5, <1>6, <1>9, <1>11, <1>12, <1>13, <1>14
     DEF Next, Step

(* So the account holds throughout.                                        *)
LEMMA AccountInvariant == Spec => []AccountInv
<1>1. Init => SettlementInv /\ AccountInv
  BY NullsAssumption, LimitsAssumption
     DEF Init, SettlementInv, Settlement, AccountInv, Account, OverrunOnlyByReuse
<1> QED
  BY <1>1, SettlementStep, AccountStep, RunInvariant, TypeCorrect, PTL DEF Spec

(* The requests of a validation phase stay within both limits.             *)
THEOREM TrafficBounded == Spec => []TrafficWithinBudget
<1>1. AccountInv => TrafficWithinBudget
  BY DEF AccountInv, Account, TrafficWithinBudget
<1> QED
  BY <1>1, AccountInvariant, PTL

(* scan_requests_used passes the limit only by reuse, and by less than the *)
(* limit of one finding.                                                   *)
THEOREM OverrunBounded == Spec => []OverrunOnlyByReuse
BY AccountInvariant, PTL DEF AccountInv
-----------------------------------------------------------------------------
(* The invariants that a step needs to be a step of the contract.          *)
SafetyInv ==
  TypeOK /\ SettlementInv /\ VerdictsAreGrounded /\ TrafficWithinBudget
    /\ DoneIsComplete

LEMMA SafetyInvariant == Spec => []SafetyInv
BY TypeCorrect, SettlementInvariant, Groundedness, TrafficBounded, Completeness,
   PTL DEF SafetyInv

(* A step that records a result is the contract's Settle.                  *)
LEMMA RecordIsSettle ==
  ASSUME SafetyInv, SafetyInv', NEW s \in Scans, NEW c \in Candidates, NEW r,
         pc[s] \in Places \ {"done", "aborted"}, results[s][c] = NoResult,
         results'[s][c].status # "validation_skipped" =>
           analysis[s][c] # NoAnalysis,
         Record(s, c, r), results'[s][c] # NoResult,
         UNCHANGED <<analysis, sent>>
  PROVE  Contract!Settle(s, c)
<1>1. PhaseState[s] = "open"
  BY DEF PhaseState, ContractState, Places
<1>2. results' = [results EXCEPT ![s][c] = results'[s][c]]
  BY DEF Record, SafetyInv, TypeOK
<1>3. UNCHANGED PhaseState
  <2>1. \A t \in Scans : ContractState(t)' = ContractState(t)
    BY DEF Record, SafetyInv, TypeOK, ContractState, Places
  <2> QED BY <2>1 DEF PhaseState
<1>4. UNCHANGED Questions
  BY DEF Questions
<1>5. Questions[s][c] = <<c, analysis[s][c]>>
  BY DEF Questions
<1>6. FitsAnalysis(Questions[s][c], results'[s][c])
  <2>1. /\ results'[s][c] \in Results /\ results'[s][c].finding = c
        /\ Grounded(results'[s][c])
        /\ results'[s][c].status # "validation_skipped" =>
             results'[s][c].validator = Registry[analysis[s][c].type]
    BY DEF SafetyInv, TypeOK, VerdictsAreGrounded, Validator
  <2> QED BY <1>5, <2>1 DEF FitsAnalysis
<1> QED
  BY <1>1, <1>2, <1>3, <1>4, <1>6 DEF Contract!Settle, AlwaysOwed

(* A step that leaves the results alone and is not at the end sends one    *)
(* request or nothing.                                                     *)
LEMMA OtherIsSpend ==
  ASSUME SafetyInv, SafetyInv', NEW s \in Scans,
         pc[s] \in Places \ {"done", "aborted"},
         pc' = [pc EXCEPT ![s] = pc'[s]], pc'[s] \in Places \ {"done", "aborted"},
         sent' \in {sent, [sent EXCEPT ![s] = @ + 1]},
         UNCHANGED <<analysis, results>>
  PROVE  Contract!Spend(s) \/ UNCHANGED Contract!vars
<1>1. PhaseState[s] = "open"
  BY DEF PhaseState, ContractState, Places
<1>2. UNCHANGED <<PhaseState, Questions>>
  <2>1. \A t \in Scans : ContractState(t)' = ContractState(t)
    BY DEF SafetyInv, TypeOK, ContractState, Places
  <2> QED BY <2>1 DEF PhaseState, Questions
<1>3. CASE sent' = sent
  BY <1>2, <1>3 DEF Contract!vars
<1>4. CASE sent' = [sent EXCEPT ![s] = @ + 1]
  <2>1. sent[s] < MaxPerScan
    BY <1>4, LimitsAssumption DEF SafetyInv, TypeOK, TrafficWithinBudget
  <2> QED BY <1>1, <1>2, <1>4, <2>1 DEF Contract!Spend
<1> QED BY <1>3, <1>4

(* Every step of the phase is a step of the contract or nothing to it.     *)
LEMMA ContractStep ==
  SafetyInv /\ SafetyInv' /\ [Next]_vars => [Contract!Next]_(Contract!vars)
<1> SUFFICES ASSUME SafetyInv, SafetyInv', [Next]_vars
             PROVE  Contract!Next \/ UNCHANGED Contract!vars
  OBVIOUS
<1> USE DEF SafetyInv
<1>1. ASSUME NEW s \in Scans, NEW c \in Candidates, Skip(s, c)
      PROVE  Contract!Settle(s, c)
  <2> DEFINE type == IF analysis[s][c] = NoAnalysis THEN "none"
                     ELSE analysis[s][c].type
             r == Outcome(c, type, "validation_skipped", SkipReason(s, c), 0,
                          <<>>)
  <2>1. pc[s] = "select" /\ Record(s, c, r) /\ UNCHANGED <<analysis, sent>>
    BY <1>1 DEF Skip
  <2>2. results[s][c] = NoResult
    BY <1>1 DEF Skip, SettlementInv, Settlement
  <2>3. results'[s][c] # NoResult
    <3>1. todo'[s] = todo[s] \ {c} /\ cand'[s] = NoCandidate
      BY <1>1, <2>1 DEF Skip, Record, TypeOK
    <3> QED BY <3>1, NullsAssumption DEF SettlementInv, Settlement
  <2>4. results'[s][c].status = "validation_skipped"
    BY <2>1 DEF Record, Outcome, TypeOK
  <2> HIDE DEF r
  <2> QED BY <2>1, <2>2, <2>3, <2>4, RecordIsSettle DEF Places
<1>2. ASSUME NEW s \in Scans, CacheHit(s) \/ Settle(s)
      PROVE  Contract!Settle(s, cand[s])
  <2>1. /\ pc[s] \in {"lookup", "conclude"} /\ cand[s] \in Candidates
        /\ analysis[s][cand[s]] # NoAnalysis
    <3>1. pc[s] \in {"lookup", "conclude"}
      BY <1>2 DEF CacheHit, Settle
    <3> QED BY <3>1, NullsAssumption DEF TypeOK, ThreadState
  <2>2. PICK r : Record(s, cand[s], r)
    BY <1>2 DEF CacheHit, Settle
  <2>3. UNCHANGED <<analysis, todo, sent>>
    BY <1>2 DEF CacheHit, Settle
  <2>4. results[s][cand[s]] = NoResult /\ cand[s] \notin todo[s]
    BY <2>1, NullsAssumption DEF SettlementInv, Settlement
  <2>5. results'[s][cand[s]] # NoResult
    <3>1. cand'[s] = NoCandidate
      BY <2>2 DEF Record, TypeOK
    <3> QED BY <2>1, <2>3, <2>4, <3>1, NullsAssumption DEF SettlementInv, Settlement
  <2> QED BY <2>1, <2>2, <2>3, <2>4, <2>5, RecordIsSettle DEF Places
<1>3. ASSUME NEW s \in Scans,
             \/ \E c \in Candidates : Admit(s, c)
             \/ CacheMiss(s) \/ CacheDelete(s) \/ Decline(s) \/ RequestRefused(s)
             \/ \E reason \in Failures : RequestFails(s, reason)
             \/ \E r \in Responses : RequestAnswered(s, r)
      PROVE  Contract!Spend(s) \/ UNCHANGED Contract!vars
  <2>1. /\ pc[s] \in Places \ {"done", "aborted"}
        /\ pc' = [pc EXCEPT ![s] = pc'[s]]
        /\ pc'[s] \in Places \ {"done", "aborted"}
    BY ZenonT(60), <1>3
       DEF Admit, CacheMiss, CacheDelete, Decline, RequestRefused,
                RequestFails, RequestAnswered, Conclude, TypeOK, Places
  <2>2. sent' \in {sent, [sent EXCEPT ![s] = @ + 1]}
    BY ZenonT(60), <1>3
       DEF Admit, CacheMiss, CacheDelete, Decline, RequestRefused,
                RequestFails, RequestAnswered, TypeOK
  <2>3. UNCHANGED <<analysis, results>>
    BY <1>3 DEF Admit, CacheMiss, CacheDelete, Decline, RequestRefused,
                RequestFails, RequestAnswered
  <2> QED BY <2>1, <2>2, <2>3, OtherIsSpend
<1>4. ASSUME NEW s \in Scans, Finish(s) \/ Abort(s)
      PROVE  Contract!Close(s) \/ Contract!Stop(s)
  <2>1. /\ pc[s] \in Places \ {"done", "aborted"}
        /\ UNCHANGED <<analysis, results, sent>>
    BY <1>4 DEF Finish, Abort, Places
  <2>2. PhaseState[s] = "open" /\ UNCHANGED Questions
    BY <2>1 DEF PhaseState, ContractState, Questions, Places
  <2>3. CASE Finish(s)
    <3>1. pc' = [pc EXCEPT ![s] = "done"]
      BY <2>3 DEF Finish
    <3>2. PhaseState' = [PhaseState EXCEPT ![s] = "closed"]
      BY <3>1 DEF PhaseState, ContractState, TypeOK
    <3>3. \A c \in Candidates : results[s][c] # NoResult
      BY <2>1, <3>1 DEF DoneIsComplete, TypeOK
    <3> QED BY <2>1, <2>2, <3>2, <3>3 DEF Contract!Close, AlwaysOwed
  <2>4. CASE Abort(s)
    <3>1. pc' = [pc EXCEPT ![s] = "aborted"]
      BY <2>4 DEF Abort
    <3>2. PhaseState' = [PhaseState EXCEPT ![s] = "stopped"]
      BY <3>1 DEF PhaseState, ContractState, TypeOK
    <3> QED BY <2>1, <2>2, <3>2 DEF Contract!Stop
  <2> QED BY <1>4, <2>3, <2>4
<1>5. CASE Tick \/ UNCHANGED vars
  BY <1>5 DEF Tick, vars, Contract!vars, PhaseState, ContractState, Questions
<1> QED
  <2>1. ASSUME NEW s \in Scans, Step(s)
        PROVE  Contract!Next \/ UNCHANGED Contract!vars
    <3>1. CASE \E c \in Candidates : Skip(s, c)
      BY <1>1, <3>1 DEF Contract!Next
    <3>2. CASE CacheHit(s) \/ Settle(s)
      <4>1. pc[s] \in {"lookup", "conclude"}
        BY <3>2 DEF CacheHit, Settle
      <4>2. cand[s] \in Candidates
        BY <4>1 DEF TypeOK, ThreadState
      <4> QED BY <1>2, <3>2, <4>2 DEF Contract!Next
    <3>3. CASE Finish(s)
      BY <1>4, <3>3 DEF Contract!Next
    <3> QED BY <1>3, <2>1, <3>1, <3>2, <3>3 DEF Step, Contract!Next
  <2> QED BY <1>4, <1>5, <2>1 DEF Next, Contract!Next

(* The validation phase of every scan keeps the contract of a phase,       *)
(* whatever the other scans do to the cache they share.                    *)
THEOREM ContractKept == Spec => KeepsContract
<1>1. Init => Contract!Init
  BY DEF Init, Contract!Init, PhaseState, ContractState
<1> QED
  BY <1>1, ContractStep, SafetyInvariant, PTL DEF Spec, KeepsContract, Contract!Spec
-----------------------------------------------------------------------------
(* What the loop of a scan still has to do: at most seven steps for each   *)
(* candidate to go, and what the one at hand has left.                     *)
TurnLeft(s) ==
  CASE pc[s] = "lookup"   -> 7
    [] pc[s] = "purge"    -> 6
    [] pc[s] = "request"  -> 5 - Len(seen[s])
    [] pc[s] = "conclude" -> 2
    [] OTHER              -> 1

StepsLeft(s) ==
  IF pc[s] \in {"done", "aborted"} THEN 0
  ELSE 7 * Cardinality(todo[s]) + TurnLeft(s)

(* No scan takes a step for nothing, and no scan is moved by another: what *)
(* the others do to the cache never makes it begin anything again.         *)
ScansSpendSteps ==
  [][\A s \in Scans :
       \/ StepsLeft(s) \in Nat /\ StepsLeft(s)' < StepsLeft(s)
       \/ UNCHANGED <<todo[s], pc[s], cand[s], made[s], seen[s], pend[s],
                      used[s], results[s], sent[s]>>]_vars

(* A validator that has requests to send has sent two at most.             *)
AnswersAwaited ==
  \A s \in Scans : pc[s] = "request" => Len(seen[s]) <= 2

LEMMA AwaitedStep == TypeOK /\ AnswersAwaited /\ [Next]_vars => AnswersAwaited'
<1> SUFFICES ASSUME TypeOK, AnswersAwaited, [Next]_vars, NEW t \in Scans,
                    pc'[t] = "request"
             PROVE  Len(seen'[t]) <= 2
  BY DEF AnswersAwaited
<1>1. ASSUME NEW s \in Scans, NEW c \in Candidates, NEW r, Record(s, c, r)
      PROVE  Len(seen'[t]) <= 2
  <2>1. pc'[s] = "select"
    BY <1>1 DEF Record, TypeOK
  <2>2. t # s
    BY <2>1
  <2>3. pc'[t] = pc[t] /\ seen'[t] = seen[t]
    BY <1>1, <2>2 DEF Record, TypeOK
  <2> QED BY <2>3 DEF AnswersAwaited
<1>2. ASSUME NEW s \in Scans, UNCHANGED seen, pc[s] \in {"select", "lookup", "purge"},
             \A u \in Scans \ {s} : pc'[u] = pc[u]
      PROVE  Len(seen'[t]) <= 2
  <2>1. CASE t = s
    <3>1. seen[t] = <<>>
      BY <1>2, <2>1 DEF TypeOK, ThreadState
    <3> QED BY <1>2, <3>1
  <2>2. CASE t # s
    BY <1>2, <2>2 DEF AnswersAwaited
  <2> QED BY <2>1, <2>2
<1>3. ASSUME NEW s \in Scans, UNCHANGED seen, pc' = [pc EXCEPT ![s] = pc'[s]],
             pc'[s] # "request"
      PROVE  Len(seen'[t]) <= 2
  BY <1>3 DEF AnswersAwaited, TypeOK
<1>4. ASSUME NEW s \in Scans, NEW r \in Responses, RequestAnswered(s, r)
      PROVE  Len(seen'[t]) <= 2
  <2> DEFINE v == Validator(s, cand[s])
             rs == Append(seen[s], r)
  <2>1. v \in Validators /\ pc[s] = "request"
    BY <1>4, ActiveTypes DEF RequestAnswered
  <2>2. CASE /\ Len(rs) < PlanLength[v]
             /\ seen' = [seen EXCEPT ![s] = rs]
             /\ UNCHANGED pc
    <3>1. seen[s] \in Seq(Responses)
      BY DEF TypeOK
    <3>2. Len(rs) \in Nat /\ PlanLength[v] \in 1..3
      BY <2>1, <3>1, PlanType
    <3>3. Len(rs) <= 2
      BY <2>2, <3>2
    <3>4. CASE t = s
      BY <2>2, <3>3, <3>4 DEF TypeOK
    <3>5. CASE t # s
      BY <2>2, <3>5 DEF TypeOK, AnswersAwaited
    <3> QED BY <3>4, <3>5
  <2>3. CASE UNCHANGED seen /\ pc' = [pc EXCEPT ![s] = "conclude"]
    BY <1>3, <2>3 DEF TypeOK
  <2> QED BY <1>4, <2>2, <2>3 DEF RequestAnswered, Conclude
<1>5. CASE Tick \/ UNCHANGED vars
  BY <1>5 DEF Tick, vars, AnswersAwaited
<1>6. ASSUME NEW s \in Scans, Step(s)
      PROVE  Len(seen'[t]) <= 2
  <2>1. CASE \E c \in Candidates : Skip(s, c)
    BY <1>1, <2>1 DEF Skip
  <2>2. CASE CacheHit(s) \/ Settle(s)
    <3>1. cand[s] \in Candidates
      BY <2>2, ActiveTypes DEF CacheHit, Settle
    <3> QED BY <1>1, <2>2, <3>1 DEF CacheHit, Settle
  <2>3. CASE \/ \E c \in Candidates : Admit(s, c)
             \/ CacheMiss(s) \/ CacheDelete(s)
    <3>1. /\ UNCHANGED seen /\ pc[s] \in {"select", "lookup", "purge"}
          /\ \A u \in Scans \ {s} : pc'[u] = pc[u]
      BY <2>3 DEF Admit, CacheMiss, CacheDelete, TypeOK
    <3> QED BY <1>2, <3>1
  <2>4. CASE \/ Decline(s) \/ RequestRefused(s) \/ Finish(s)
             \/ \E reason \in Failures : RequestFails(s, reason)
    <3>1. /\ UNCHANGED seen /\ pc' = [pc EXCEPT ![s] = pc'[s]]
          /\ pc'[s] # "request"
      BY <2>4 DEF Decline, RequestRefused, Finish, RequestFails, Conclude, TypeOK
    <3> QED BY <1>3, <3>1
  <2> QED BY <1>4, <1>6, <2>1, <2>2, <2>3, <2>4 DEF Step
<1>7. ASSUME NEW s \in Scans, Abort(s)
      PROVE  Len(seen'[t]) <= 2
  BY <1>3, <1>7 DEF Abort, TypeOK
<1> QED BY <1>5, <1>6, <1>7 DEF Next

(* The candidates to go can be counted.                                    *)
LEMMA CandidatesLeft ==
  ASSUME TypeOK, NEW s \in Scans
  PROVE  /\ Cardinality(todo[s]) \in Nat
         /\ \A c \in todo[s] :
              Cardinality(todo[s] \ {c}) = Cardinality(todo[s]) - 1
<1>1. IsFiniteSet(todo[s])
  BY ScansAssumption, FS_Subset DEF TypeOK
<1> QED BY <1>1, FS_CardinalityType, FS_RemoveElement

(* A step of a scan's own thread leaves it with less to do.                *)
LEMMA StepSpent ==
  ASSUME TypeOK, AnswersAwaited, NEW s \in Scans, Step(s) \/ Abort(s)
  PROVE  StepsLeft(s) \in Nat /\ StepsLeft(s)' < StepsLeft(s)
<1> DEFINE n == Cardinality(todo[s])
<1>1. n \in Nat /\ \A c \in todo[s] : Cardinality(todo[s] \ {c}) = n - 1
  BY CandidatesLeft
<1>2. Len(seen[s]) \in Nat /\ (pc[s] = "request" => Len(seen[s]) <= 2)
  BY DEF TypeOK, AnswersAwaited
<1>3. pc[s] \in Places /\ pc[s] \notin {"done", "aborted"}
  BY DEF TypeOK, Step, Abort, Skip, Admit, CacheHit, CacheMiss, CacheDelete,
         Decline, RequestRefused, RequestFails, RequestAnswered, Settle, Finish
<1>4. StepsLeft(s) = 7 * n + TurnLeft(s) /\ TurnLeft(s) \in 1..7
  BY <1>2, <1>3 DEF StepsLeft, TurnLeft, Places
<1>5. CASE \E c \in Candidates : Skip(s, c)
  <2>1. PICK c \in Candidates : Skip(s, c)
    BY <1>5
  <2>2. /\ pc[s] = "select" /\ pc'[s] = "select"
        /\ c \in todo[s] /\ todo'[s] = todo[s] \ {c}
    BY <2>1 DEF Skip, Record, TypeOK
  <2>3. StepsLeft(s)' = 7 * (n - 1) + 1 /\ TurnLeft(s) = 1
    BY <1>1, <2>2 DEF StepsLeft, TurnLeft
  <2> QED BY <1>1, <1>4, <2>3
<1>6. CASE \E c \in Candidates : Admit(s, c)
  <2>1. PICK c \in Candidates : Admit(s, c)
    BY <1>6
  <2>2. /\ pc[s] = "select" /\ pc'[s] \in {"lookup", "request"}
        /\ c \in todo[s] /\ todo'[s] = todo[s] \ {c} /\ seen'[s] = <<>>
    BY <2>1 DEF Admit, TypeOK, ThreadState
  <2>3. TurnLeft(s)' \in {5, 7} /\ TurnLeft(s) = 1
    BY <2>2 DEF TurnLeft
  <2>4. StepsLeft(s)' = 7 * (n - 1) + TurnLeft(s)'
    BY <1>1, <2>2 DEF StepsLeft
  <2> QED BY <1>1, <1>4, <2>3, <2>4
<1>7. ASSUME UNCHANGED todo, pc'[s] \notin {"done", "aborted"},
             TurnLeft(s)' \in Int, TurnLeft(s)' < TurnLeft(s)
      PROVE  StepsLeft(s)' < StepsLeft(s)
  <2>1. StepsLeft(s)' = 7 * n + TurnLeft(s)'
    BY <1>7 DEF StepsLeft
  <2> QED BY <1>1, <1>4, <1>7, <2>1
<1>8. CASE CacheHit(s) \/ Settle(s)
  <2>1. /\ pc[s] \in {"lookup", "conclude"} /\ pc'[s] = "select"
        /\ UNCHANGED todo
    BY <1>8 DEF CacheHit, Settle, Record, TypeOK
  <2>2. TurnLeft(s) \in {7, 2} /\ TurnLeft(s)' = 1
    BY <2>1 DEF TurnLeft
  <2> QED BY <1>4, <1>1, <1>7, <2>1, <2>2
<1>9. CASE CacheMiss(s) \/ CacheDelete(s)
  <2>1. /\ UNCHANGED <<todo, seen>> /\ seen[s] = <<>>
        /\ \/ pc[s] = "lookup" /\ pc'[s] \in {"request", "purge"}
           \/ pc[s] = "purge" /\ pc'[s] = "request"
    BY <1>9 DEF CacheMiss, CacheDelete, TypeOK, ThreadState
  <2>2. /\ TurnLeft(s)' \in Int /\ TurnLeft(s)' < TurnLeft(s)
        /\ pc'[s] \notin {"done", "aborted"}
    BY <2>1 DEF TurnLeft
  <2> QED BY <1>4, <1>1, <1>7, <2>1, <2>2
<1>10. CASE \/ Decline(s) \/ RequestRefused(s)
            \/ \E reason \in Failures : RequestFails(s, reason)
  <2>1. pc[s] = "request" /\ pc'[s] = "conclude" /\ UNCHANGED todo
    BY <1>10 DEF Decline, RequestRefused, RequestFails, Conclude, TypeOK
  <2>2. TurnLeft(s) \in {3, 4, 5} /\ TurnLeft(s)' = 2
    BY <1>2, <2>1 DEF TurnLeft
  <2> QED BY <1>4, <1>1, <1>7, <2>1, <2>2
<1>11. CASE \E r \in Responses : RequestAnswered(s, r)
  <2>1. PICK r \in Responses : RequestAnswered(s, r)
    BY <1>11
  <2>2. /\ pc[s] = "request" /\ UNCHANGED todo
        /\ \/ pc'[s] = "request" /\ seen'[s] = Append(seen[s], r)
           \/ pc'[s] = "conclude"
    BY <2>1 DEF RequestAnswered, Conclude, TypeOK
  <2>3. Len(Append(seen[s], r)) = Len(seen[s]) + 1
    BY <2>1 DEF TypeOK
  <2>4. TurnLeft(s) = 5 - Len(seen[s])
    BY <2>2 DEF TurnLeft
  <2>5. TurnLeft(s)' \in {2, 5 - (Len(seen[s]) + 1)}
    BY <2>2, <2>3 DEF TurnLeft
  <2>6. TurnLeft(s)' \in Int /\ TurnLeft(s)' < TurnLeft(s)
    BY <1>2, <2>2, <2>4, <2>5
  <2> QED BY <1>4, <1>1, <1>7, <2>2, <2>6
<1>12. CASE Finish(s) \/ Abort(s)
  <2>1. pc'[s] \in {"done", "aborted"}
    BY <1>12 DEF Finish, Abort, TypeOK
  <2>2. StepsLeft(s)' = 0
    BY <2>1 DEF StepsLeft
  <2> QED BY <1>1, <1>4, <2>2
<1>13. StepsLeft(s) \in Nat
  BY <1>1, <1>4
<1> QED
  BY <1>5, <1>6, <1>8, <1>9, <1>10, <1>11, <1>12, <1>13 DEF Step

(* A step of another thread leaves a scan where it was.                    *)
LEMMA OthersStay ==
  ASSUME TypeOK, NEW s \in Scans, NEW t \in Scans, t # s, Step(s) \/ Abort(s)
  PROVE  UNCHANGED <<todo[t], pc[t], cand[t], made[t], seen[t], pend[t],
                     used[t], results[t], sent[t]>>
<1>1. CASE \E c \in Candidates : Skip(s, c)
  BY <1>1 DEF Skip, Record, TypeOK
<1>2. CASE CacheHit(s)
  BY <1>2 DEF CacheHit, Record, TypeOK
<1>3. CASE Settle(s)
  BY <1>3 DEF Settle, Record, TypeOK
<1>4. CASE \/ \E c \in Candidates : Admit(s, c)
           \/ CacheMiss(s) \/ CacheDelete(s) \/ Finish(s) \/ Abort(s)
  BY <1>4 DEF Admit, CacheMiss, CacheDelete, Finish, Abort, TypeOK
<1>5. CASE \/ Decline(s) \/ RequestRefused(s)
           \/ \E reason \in Failures : RequestFails(s, reason)
  BY <1>5 DEF Decline, RequestRefused, RequestFails, Conclude, TypeOK
<1>6. CASE \E r \in Responses : RequestAnswered(s, r)
  BY <1>6 DEF RequestAnswered, Conclude, TypeOK
<1> QED BY <1>1, <1>2, <1>3, <1>4, <1>5, <1>6 DEF Step

(* A scan takes no more than seven steps for each of its candidates and    *)
(* one to finish, whatever its target and the other scans do: what         *)
(* ScansEnd asks, but for a thread that is not scheduled at all.           *)
THEOREM StepsAreSpent == Spec => ScansSpendSteps
<1> DEFINE Inv == TypeOK /\ AnswersAwaited
<1>1. Init => AnswersAwaited
  BY DEF Init, AnswersAwaited
<1>2. Inv /\ [Next]_vars =>
        [\A s \in Scans :
           \/ StepsLeft(s) \in Nat /\ StepsLeft(s)' < StepsLeft(s)
           \/ UNCHANGED <<todo[s], pc[s], cand[s], made[s], seen[s], pend[s],
                          used[s], results[s], sent[s]>>]_vars
  <2> SUFFICES ASSUME Inv, Next, NEW t \in Scans
               PROVE  \/ StepsLeft(t) \in Nat /\ StepsLeft(t)' < StepsLeft(t)
                      \/ UNCHANGED <<todo[t], pc[t], cand[t], made[t], seen[t],
                                     pend[t], used[t], results[t], sent[t]>>
    OBVIOUS
  <2>1. CASE Tick
    BY <2>1 DEF Tick
  <2>2. ASSUME NEW s \in Scans, Step(s) \/ Abort(s)
        PROVE  \/ StepsLeft(t) \in Nat /\ StepsLeft(t)' < StepsLeft(t)
               \/ UNCHANGED <<todo[t], pc[t], cand[t], made[t], seen[t],
                              pend[t], used[t], results[t], sent[t]>>
    <3>1. CASE s = t
      BY <2>2, <3>1, StepSpent
    <3>2. CASE s # t
      BY <2>2, <3>2, OthersStay
    <3> QED BY <3>1, <3>2
  <2> QED BY <2>1, <2>2 DEF Next
<1> QED
  BY <1>1, <1>2, TypeCorrect, AwaitedStep, PTL DEF Spec, ScansSpendSteps
=============================================================================
