---------------------------- MODULE MCEvaluator ----------------------------
(* Small instances of Evaluator for TLC, after juice-shop-safe-v1.json.    *)
EXTENDS Evaluator, SequencesExt

CONSTANTS csp, cspText, admin, misconfiguration, access, none,
          root, adminPath, adminSlash, noEndpoint

(* "missing content-security-policy" and how _normalize_text leaves it.    *)
MCTexts == {csp, cspText, admin, misconfiguration, access, none}
MCNormal == [x \in MCTexts |-> IF x = csp THEN cspText ELSE x]
MCWithin == {<<x, x>> : x \in MCTexts} \cup {<<none, x>> : x \in MCTexts}

(* "/" (or the target's own address), "/administration", with a slash.     *)
MCEndpoints == {root, adminPath, adminSlash}
MCNormalEndpoint == [x \in MCEndpoints |-> IF x = adminSlash THEN adminPath ELSE x]
MCEndsWith == {<<x, x>> : x \in MCEndpoints} \cup {<<adminSlash, root>>}

Truth(aliases, category, endpoint, cwe, severity) ==
  [aliases |-> aliases, category |-> category, endpoint |-> endpoint,
   method |-> "GET", cwe |-> cwe, severity |-> severity]

Header == Truth({csp}, misconfiguration, root, "CWE-16", "medium")
AdminPage == Truth({admin}, access, adminPath, "none", "high")
AnyHeader == Truth({none}, misconfiguration, noEndpoint, "CWE-16", "low")
Unrated == Truth({csp}, misconfiguration, root, "CWE-16", "other")

(* In the first list Header takes the fourth finding below, although the   *)
(* third or the sixth would do for it too, and then nothing is left for    *)
(* AnyHeader.  In the second list each of the two gets one.                *)
MCBenchmarks ==
  {<<Header, AnyHeader, AdminPage>>, <<AnyHeader, Header>>,
   <<AdminPage, AdminPage>>, <<Unrated>>, <<>>}

Finding(title, category, endpoint, cwe, severity, status) ==
  [title |-> title, category |-> category, endpoint |-> endpoint,
   method |-> "GET", cwe |-> cwe, severity |-> severity, status |-> status]

(* In the order of a report: severity, status, title, endpoint.  The first *)
(* two are alike.                                                          *)
MCFindings ==
  <<Finding(admin, access, adminSlash, "none", "high", "verified"),
    Finding(admin, access, adminSlash, "none", "high", "verified"),
    Finding(admin, access, root, "CWE-16", "high", "unverified"),
    Finding(csp, misconfiguration, root, "CWE-16", "medium", "verified"),
    Finding(csp, misconfiguration, adminPath, "CWE-16", "low", "likely"),
    Finding(csp, misconfiguration, root, "none", "info", "informational")>>

Listed(places) == [i \in 1..Len(places) |-> MCFindings[places[i]]]

(* Reports of up to three of them.                                         *)
MCScanned ==
  {Listed(s) : s \in {s \in BoundedSeq(1..Len(MCFindings), 3) :
                        \A i \in 2..Len(s) : s[i - 1] < s[i]}}

MCCosts == {[seconds |-> 4, calls |-> 0], [seconds |-> 4, calls |-> 5],
            [seconds |-> 5, calls |-> 7]}
=============================================================================
