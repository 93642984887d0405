-------------------------- MODULE MCAnalysisAgent --------------------------
(* Small instances of AnalysisAgent for TLC.                               *)
EXTENDS AnalysisAgent, TLC

CONSTANTS s1, s2, s3, small, large

(* DET-001: the missing Content-Security-Policy.                           *)
Header == [id |-> 1, crawled |-> FALSE, profiled |-> TRUE,
           inferred |-> "check_security_header", simple |-> TRUE,
           scanner |-> 90, evidence |-> 3]

(* A crawled /admin.                                                       *)
AdminPage == [id |-> 2, crawled |-> TRUE, profiled |-> TRUE,
              inferred |-> "check_endpoint_accessibility", simple |-> FALSE,
              scanner |-> 35, evidence |-> 2]

(* A nuclei match of severity INFO on a POST, which the small model gets   *)
(* only with knowledge that names its CWE.                                 *)
Match == [id |-> 3, crawled |-> FALSE, profiled |-> FALSE, inferred |-> "none",
          simple |-> TRUE, scanner |-> 60, evidence |-> 1]

MCCandidates == {Header, AdminPage}
MCMatch == {Match}
MCContexts == {[knowledge |-> FALSE, cwe |-> FALSE],
               [knowledge |-> TRUE, cwe |-> TRUE]}

Payload(status, type, confidence, error) ==
  [status |-> status, type |-> type, confidence |-> confidence,
   error |-> error]

MCPayloads ==
  {Payload("likely", "other", 100, FALSE),
   Payload("insufficient_evidence", "other", 100, FALSE),
   Payload("likely_false_positive", "check_auth_behavior", 50, TRUE)}

MCTwoPayloads ==
  {Payload("likely", "other", 100, FALSE),
   Payload("likely_false_positive", "check_auth_behavior", 50, TRUE)}

ScanSymmetry == Permutations({s1, s2})
=============================================================================
