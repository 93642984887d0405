------------------------ MODULE MCValidationEngine ------------------------
(* Small instances of ValidationEngine for TLC.                            *)
EXTENDS ValidationEngine, TLC

CONSTANTS c1, c2, c3, r1

MCCandidates == {c1, c2}
MCHeaderCandidates == {c1}

(* A candidate for every validator beside one of severity INFO, for the    *)
(* run with all recommended types.                                         *)
MCInfoCandidates == {c3}
MCWithInfo == MCHeaderCandidates \cup MCInfoCandidates

(* An answer without the header and a refusal with it.  One answer is      *)
(* enough where no property looks at the verdicts.                         *)
MCResponses ==
  {[access |-> "allowed", header |-> FALSE],
   [access |-> "denied", header |-> TRUE]}
MCOneResponse == {[access |-> "allowed", header |-> FALSE]}

ScanSymmetry == Permutations(Scans)
=============================================================================
