---------------------------- MODULE PhaseContract ----------------------------
(***************************************************************************)
(* What a phase of orchestrator/workflow.py (_attach_analyses,             *)
(* _attach_validations) owes the rest of its scan, whatever it does to get *)
(* there: its candidates' outcomes, one each, that fit what was asked of   *)
(* them, at a limited cost on the outside world.  A scan is on its own     *)
(* here: there is no cache, no clock, no attempt that failed.              *)
(***************************************************************************)
EXTENDS Naturals

CONSTANTS
  Scans, Candidates,
  Limit,      \* what one scan may spend on requests or calls
  Nothing,    \* no outcome
  Owed(_),    \* does a question call for an outcome?
  Fits(_, _)  \* is this an outcome for this question?

VARIABLES
  asked,    \* per scan and candidate: the question
  outcome,  \* per scan and candidate: what the loop attached
  spent,    \* per scan: what went out
  state     \* per scan: "open", "closed" or "stopped"

vars == <<asked, outcome, spent, state>>

Init ==
  /\ outcome = [s \in Scans |-> [c \in Candidates |-> Nothing]]
  /\ spent = [s \in Scans |-> 0]
  /\ state = [s \in Scans |-> "open"]

(* One request or call, before any outcome comes of it.                    *)
Spend(s) ==
  /\ state[s] = "open" /\ spent[s] < Limit
  /\ spent' = [spent EXCEPT ![s] = @ + 1]
  /\ UNCHANGED <<asked, outcome, state>>

(* The turn of a candidate ends with its outcome, and it has no other.     *)
Settle(s, c) ==
  /\ state[s] = "open"
  /\ outcome[s][c] = Nothing /\ Owed(asked[s][c])
  /\ Fits(asked[s][c], outcome'[s][c])
  /\ outcome' = [outcome EXCEPT ![s][c] = outcome'[s][c]]
  /\ UNCHANGED <<asked, spent, state>>

(* The loop returns once nothing is owed any more.                         *)
Close(s) ==
  /\ state[s] = "open"
  /\ \A c \in Candidates : (outcome[s][c] # Nothing) = Owed(asked[s][c])
  /\ state' = [state EXCEPT ![s] = "closed"]
  /\ UNCHANGED <<asked, outcome, spent>>

(* An exception leaves the loop.                                           *)
Stop(s) ==
  /\ state[s] = "open"
  /\ state' = [state EXCEPT ![s] = "stopped"]
  /\ UNCHANGED <<asked, outcome, spent>>

Next ==
  \E s \in Scans :
    Spend(s) \/ Close(s) \/ Stop(s) \/ \E c \in Candidates : Settle(s, c)

Spec == Init /\ [][Next]_vars
=============================================================================
