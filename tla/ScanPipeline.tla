---------------------------- MODULE ScanPipeline ----------------------------
(***************************************************************************)
(* One scan from the request to its reports: orchestrator/workflow.py      *)
(* (run_initial_recon, _run_tool and the phases), the supervisor, the      *)
(* final findings of reports/generator.py and the two files it writes.     *)
(* Scans share nothing here: a report is under the fresh id of its scan.   *)
(*                                                                         *)
(* What the tools, the retrieval, the analysis and the validation of one   *)
(* candidate may come to is given; their own modules say how they come to  *)
(* it.  Every loop over candidates takes them from queue and appends them  *)
(* to enriched, which is the next loop's queue.  The order of the findings *)
(* in a report and their texts are left out.                               *)
(***************************************************************************)
EXTENDS Integers, FiniteSets, Sequences

CONSTANTS
  Surface,     \* titles of crawled endpoints of category "Attack Surface"
  Disclosures, \* titles of the other crawled endpoints worth a candidate
  Matches,     \* titles of nuclei matches that are findings
  InfoMatches, \* those of severity INFO
  Csp, Admin,  \* the titles of the two deterministic candidates
  MaxFinds,    \* bound of what crawler and nuclei find together
  RagEnabled,  \* settings.rag_enabled
  Verdicts,    \* statuses an analysis may have, a bound
  NoProbe, NoReport, Absent, Partial

Titles == Surface \cup Disclosures \cup Matches \cup {Csp, Admin}

AnalysisStatuses == {"likely", "needs_validation", "insufficient_evidence",
                     "likely_false_positive"}
ValidationStatuses ==
  {"verified", "false_positive", "unverified", "validation_skipped"}
FinalStatuses == {"verified", "false_positive", "unverified", "likely", "candidate"}
ReportStatuses == ValidationStatuses \cup {"likely", "informational"}

Tools == {"web_probe", "network_scan", "robots_txt", "common_endpoints",
          "crawler", "nuclei", "technology_detect", "analysis_agent",
          "validation_engine"}
Executions == [tool : Tools, success : BOOLEAN]

(* FindingCandidate; its title stands for its endpoint too.  An analysis   *)
(* is absent, lost to an error or has its status.                          *)
FindingCandidates ==
  [tool : {"crawler", "nuclei", "deterministic_recon"}, title : Titles,
   knowledge : BOOLEAN, analysis : AnalysisStatuses \cup {"none", "lost"},
   validation : ValidationStatuses \cup {"none"}, final_status : FinalStatuses]

(* WebProbeResult: a status below 400, a Content-Security-Policy.          *)
Probes == [ok : BOOLEAN, csp : BOOLEAN]

(* PentestReport: its findings and its validation_summary.                 *)
FinalFindings ==
  [tool : {"crawler", "nuclei", "deterministic_recon"}, title : Titles,
   status : ReportStatuses]
Counters == ValidationStatuses \cup {"attempted"}
Reports == [findings : Seq(FinalFindings), summary : [Counters -> Nat]]

ASSUME TitlesAssumption ==
  /\ IsFiniteSet(Surface) /\ IsFiniteSet(Disclosures) /\ IsFiniteSet(Matches)
  /\ Surface \cap Disclosures = {} /\ InfoMatches \subseteq Matches
  /\ Csp # Admin
ASSUME BoundsAssumption == MaxFinds \in Nat /\ Verdicts \subseteq AnalysisStatuses
ASSUME RagAssumption == RagEnabled \in BOOLEAN
ASSUME NullsAssumption ==
  /\ NoProbe \notin Probes /\ NoReport \notin Reports
  /\ {Absent, Partial} \cap Reports = {} /\ Absent # Partial

VARIABLES
  place,      \* where the scan is
  executions, \* tool_executions
  probe,      \* probe
  exposed,    \* does endpoints hold the one worth a candidate?
  found,      \* finding_candidates before _dedupe_candidates
  queue,      \* candidates the loop at hand has not taken yet
  enriched,   \* those it is through with
  analysed,   \* success_count of _attach_analyses
  metrics,    \* ValidationMetrics
  report,     \* the PentestReport
  temp,       \* the temporary file at work: Absent, Partial or a report
  json, html  \* the two report files: Absent or a report

vars == <<place, executions, probe, exposed, found, queue, enriched, analysed,
          metrics, report, temp, json, html>>
recon == <<executions, probe, exposed, found>>
lists == <<queue, enriched, analysed, metrics>>
files == <<report, temp, json, html>>

Phases == {"dedupe", "rag", "analysis", "validation"}
Writes == {"json", "html"}
Ends == {"refused", "failed", "killed", "answered"}
Places ==
  {"scope", "web_probe", "network_scan", "robots_txt", "common_endpoints",
   "crawler", "nuclei", "collect", "report"} \cup Phases \cup Writes \cup Ends

Init ==
  /\ place = "scope" /\ executions = <<>> /\ probe = NoProbe
  /\ exposed = FALSE /\ found = <<>>
  /\ queue = <<>> /\ enriched = <<>> /\ analysed = 0
  /\ metrics = [k \in Counters |-> 0]
  /\ report = NoReport /\ temp = Absent /\ json = Absent /\ html = Absent
-----------------------------------------------------------------------------
Fresh(tool, title) ==
  [tool |-> tool, title |-> title, knowledge |-> FALSE, analysis |-> "none",
   validation |-> "none", final_status |-> "candidate"]

Key(c) == <<c.title, c.tool>>

Keys(s) == {Key(s[i]) : i \in DOMAIN s}

Ran(tool, success) ==
  executions' = Append(executions, [tool |-> tool, success |-> success])

Refuse ==
  /\ place = "scope" /\ place' = "refused"
  /\ UNCHANGED <<recon, lists, files>>

Accept ==
  /\ place = "scope" /\ place' = "web_probe"
  /\ UNCHANGED <<recon, lists, files>>

(* _run_tool turns an exception into an execution that failed and None.    *)
WebProbe ==
  /\ place = "web_probe" /\ place' = "network_scan"
  /\ \/ Ran("web_probe", FALSE) /\ UNCHANGED probe
     \/ Ran("web_probe", TRUE) /\ probe' \in Probes
  /\ UNCHANGED <<exposed, found, lists, files>>

NetworkScan ==
  /\ place = "network_scan" /\ place' = "robots_txt"
  /\ \E success \in BOOLEAN : Ran("network_scan", success)
  /\ UNCHANGED <<probe, exposed, found, lists, files>>

RobotsTxt ==
  /\ place = "robots_txt" /\ place' = "common_endpoints"
  /\ \E success \in BOOLEAN : Ran("robots_txt", success)
  /\ UNCHANGED <<probe, exposed, found, lists, files>>

(* Mutant: the crawler and the scanner run whatever the probe came to.     *)
AfterEndpointsAlways == "crawler"

AfterEndpoints == IF probe # NoProbe THEN "crawler" ELSE "collect"

(* One request that fails takes the endpoints found before it along.       *)
CommonEndpoints ==
  /\ place = "common_endpoints" /\ place' = AfterEndpoints
  /\ \/ Ran("common_endpoints", FALSE) /\ UNCHANGED exposed
     \/ Ran("common_endpoints", TRUE) /\ exposed' \in BOOLEAN
  /\ UNCHANGED <<probe, found, lists, files>>

(* normalize_crawl_candidates makes one of each endpoint worth it.         *)
Crawl ==
  /\ place = "crawler" /\ place' = "nuclei"
  /\ \/ Ran("crawler", FALSE) /\ UNCHANGED found
     \/ /\ Ran("crawler", TRUE)
        /\ \E n \in 0..MaxFinds : \E page \in [1..n -> Surface \cup Disclosures] :
             /\ \A i, j \in 1..n : page[i] = page[j] => i = j
             /\ found' = [i \in 1..n |-> Fresh("crawler", page[i])]
  /\ UNCHANGED <<probe, exposed, lists, files>>

(* No output at all (refused, missing, timed out, a malformed line), or    *)
(* the matches printed, whatever the exit code; one may come twice.        *)
Nuclei ==
  /\ place = "nuclei" /\ place' = "collect"
  /\ \/ Ran("nuclei", FALSE) /\ UNCHANGED found
     \/ \E n \in 0..(MaxFinds - Len(found)), success \in BOOLEAN :
          \E match \in [1..n -> Matches] :
            /\ Ran("nuclei", success)
            /\ found' = found \o [i \in 1..n |-> Fresh("nuclei", match[i])]
  /\ UNCHANGED <<probe, exposed, lists, files>>

(* _synthesize_recon_candidates                                            *)
Synthesized ==
  (IF probe # NoProbe /\ probe.ok /\ ~probe.csp
     THEN <<Fresh("deterministic_recon", Csp)>> ELSE <<>>)
  \o (IF exposed THEN <<Fresh("deterministic_recon", Admin)>> ELSE <<>>)

Collect ==
  /\ place = "collect" /\ place' = "dedupe"
  /\ found' = found \o Synthesized /\ queue' = found'
  /\ Ran("technology_detect", probe # NoProbe)
  /\ UNCHANGED <<probe, exposed, enriched, analysed, metrics, files>>
-----------------------------------------------------------------------------
(* Mutant: a turn puts its candidate back, to come to it again.            *)
TakeLater(c) == queue' = Append(Tail(queue), c) /\ UNCHANGED enriched

(* One turn of a loop leaves the candidate as c.                           *)
Take(c) == queue' = Tail(queue) /\ enriched' = Append(enriched, c)

Start(phase) == place = phase /\ queue # <<>> /\ enriched = <<>>

(* The end of a loop: what it returns is the next one's list.              *)
Finish(phase, next) ==
  /\ place = phase /\ queue = <<>> /\ place' = next
  /\ queue' = enriched /\ enriched' = <<>>

(* Mutant: duplicates stay.                                                *)
SeenNever(c) == FALSE

Seen(c) == Key(c) \in Keys(enriched)

DedupeTurn ==
  /\ place = "dedupe" /\ queue # <<>>
  /\ IF Seen(Head(queue)) THEN queue' = Tail(queue) /\ UNCHANGED enriched
                          ELSE Take(Head(queue))
  /\ UNCHANGED <<place, recon, analysed, metrics, files>>

Deduped ==
  /\ Finish("dedupe", "rag")
  /\ UNCHANGED <<recon, analysed, metrics, files>>

(* Retrieval is switched off, or there is nothing to retrieve for.         *)
RagOff ==
  /\ place = "rag"
  /\ ~RagEnabled \/ (queue = <<>> /\ enriched = <<>>)
  /\ place' = "analysis"
  /\ UNCHANGED <<recon, lists, files>>

(* Mutant: the retriever asks about every candidate.                       *)
QueryAlways(c) == TRUE

(* build_retrieval_query is not None.                                      *)
Query(c) == c.tool # "crawler" \/ c.title \notin Surface

(* Only for a crawled candidate does it matter what retrieval finds.       *)
RagTurn ==
  /\ place = "rag" /\ RagEnabled /\ queue # <<>>
  /\ \E knowledge \in BOOLEAN :
       /\ knowledge => Query(Head(queue)) /\ Head(queue).tool = "crawler"
       /\ Take([Head(queue) EXCEPT !.knowledge = knowledge])
  /\ UNCHANGED <<place, recon, analysed, metrics, files>>

Retrieved ==
  /\ RagEnabled /\ enriched # <<>> /\ Finish("rag", "analysis")
  /\ UNCHANGED <<recon, analysed, metrics, files>>

PassedOver(c) == c.tool = "crawler" /\ ~c.knowledge

(* A crawled candidate without knowledge is passed over.  The others get   *)
(* an analysis, the one that stands for a model that failed, or an error.  *)
AnalysisTurn ==
  /\ place = "analysis" /\ queue # <<>>
  /\ LET c == Head(queue)
         With(a) == Take([c EXCEPT !.analysis = a])
     IN \/ PassedOver(c) /\ Take(c) /\ UNCHANGED analysed
        \/ /\ ~PassedOver(c)
           /\ \/ \E v \in Verdicts : With(v) /\ analysed' = analysed + 1
              \/ With("insufficient_evidence") /\ UNCHANGED analysed
              \/ With("lost") /\ UNCHANGED analysed
  /\ UNCHANGED <<place, recon, metrics, files>>

(* No candidates, no execution.                                            *)
Concluded(tool, success) ==
  IF enriched = <<>> THEN UNCHANGED executions ELSE Ran(tool, success)

Analysed ==
  /\ Finish("analysis", "validation")
  /\ Concluded("analysis_agent", analysed > 0)
  /\ UNCHANGED <<probe, exposed, found, analysed, metrics, files>>

Severe(c) == c.tool # "crawler" /\ c.title \notin InfoMatches

(* What validate_candidate may return: without an analysis, or with INFO   *)
(* severity, a candidate is skipped.                                       *)
Verdict(c) ==
  IF c.analysis \in AnalysisStatuses /\ Severe(c)
    THEN ValidationStatuses ELSE {"validation_skipped"}

(* Mutant: what the model thinks comes before what validation showed.      *)
FinalStatusLikelyFirst(c, v) ==
  IF c.analysis = "likely" THEN "likely"
  ELSE IF v # "validation_skipped" THEN v ELSE "candidate"

(* _final_status                                                           *)
FinalStatus(c, v) ==
  IF v # "validation_skipped" THEN v
  ELSE IF c.analysis = "likely" THEN "likely" ELSE "candidate"

(* Mutant: a skipped candidate does not count as attempted.                *)
TallyAttempts(v) ==
  [k \in Counters |-> IF k = v \/ (k = "attempted" /\ v # "validation_skipped")
                        THEN metrics[k] + 1 ELSE metrics[k]]

(* ValidationMetrics.record                                                *)
Tally(v) ==
  [k \in Counters |-> IF k \in {v, "attempted"} THEN metrics[k] + 1 ELSE metrics[k]]

ValidationTurn ==
  /\ place = "validation" /\ queue # <<>>
  /\ \E v \in Verdict(Head(queue)) :
       /\ metrics' = Tally(v)
       /\ Take([Head(queue) EXCEPT !.validation = v,
                 !.final_status = FinalStatus(Head(queue), v)])
  /\ UNCHANGED <<place, recon, analysed, files>>

Validated ==
  /\ Finish("validation", "report")
  /\ Concluded("validation_engine", metrics["attempted"] > 0)
  /\ UNCHANGED <<probe, exposed, found, analysed, metrics, files>>
-----------------------------------------------------------------------------
(* resolve_final_status                                                    *)
ReportStatus(c) ==
  IF c.validation # "none" THEN c.validation
  ELSE IF c.analysis = "likely" THEN "likely" ELSE "informational"

(* A finding keeps its candidate's id, for which title and tool stand.     *)
FinalFinding(c) == [tool |-> c.tool, title |-> c.title, status |-> ReportStatus(c)]

(* ReportBuilder.build: no candidate of a scan makes _build_final_finding  *)
(* fail, so its except is left out.                                        *)
Report ==
  /\ place = "report" /\ place' = "json"
  /\ report' = [findings |-> [i \in DOMAIN queue |-> FinalFinding(queue[i])],
                summary |-> metrics]
  /\ UNCHANGED <<recon, lists, temp, json, html>>

(* _atomic_write_text: a named temporary file, its content, the rename.    *)
OpenTemp ==
  /\ place \in Writes /\ temp = Absent /\ temp' = Partial
  /\ UNCHANGED <<place, recon, lists, report, json, html>>

FillTemp ==
  /\ place \in Writes /\ temp = Partial /\ temp' = report
  /\ UNCHANGED <<place, recon, lists, report, json, html>>

(* Mutant: the rename does not wait for the file to be closed.             *)
OpenedTemp == temp # Absent

WholeTemp == temp \notin {Absent, Partial}

(* Mutant: the HTML report is written first.                               *)
ReplaceHtmlFirst ==
  /\ WholeTemp /\ temp' = Absent
  /\ \/ place = "json" /\ html' = temp /\ place' = "html" /\ UNCHANGED json
     \/ place = "html" /\ json' = temp /\ place' = "answered" /\ UNCHANGED html
  /\ UNCHANGED <<recon, lists, report>>

Replace ==
  /\ WholeTemp /\ temp' = Absent
  /\ \/ place = "json" /\ json' = temp /\ place' = "html" /\ UNCHANGED html
     \/ place = "html" /\ html' = temp /\ place' = "answered" /\ UNCHANGED json
  /\ UNCHANGED <<recon, lists, report>>

(* An error nothing catches: a port that is no number, a knowledge base,   *)
(* agent or engine that cannot be made, a validation cache that cannot be  *)
(* used, a file that cannot be written.                                    *)
Abort ==
  /\ \/ place = "scope"
     \/ Start("rag") /\ RagEnabled
     \/ Start("analysis")
     \/ place = "validation" /\ queue # <<>>
     \/ place \in Writes
  /\ place' = "failed" /\ UNCHANGED <<recon, lists, files>>

Kill ==
  /\ place \notin Ends /\ place' = "killed" /\ UNCHANGED <<recon, lists, files>>

Recon == WebProbe \/ NetworkScan \/ RobotsTxt \/ CommonEndpoints \/ Crawl \/ Nuclei

Turn == DedupeTurn \/ RagTurn \/ AnalysisTurn \/ ValidationTurn

PhaseEnd == Deduped \/ RagOff \/ Retrieved \/ Analysed \/ Validated

Write == OpenTemp \/ FillTemp \/ Replace

Step == Refuse \/ Accept \/ Recon \/ Collect \/ Turn \/ PhaseEnd \/ Report \/ Write

Next == Step \/ Abort \/ Kill

Spec == Init /\ [][Next]_vars

(* The scan's thread waits only for requests and subprocesses that have a  *)
(* timeout, and for the crawl, which ends.                                 *)
FairSpec == Spec /\ WF_vars(Step)
-----------------------------------------------------------------------------
TypeOK ==
  /\ place \in Places /\ executions \in Seq(Executions)
  /\ probe \in Probes \cup {NoProbe} /\ exposed \in BOOLEAN
  /\ found \in Seq(FindingCandidates) /\ queue \in Seq(FindingCandidates)
  /\ enriched \in Seq(FindingCandidates) /\ analysed \in Nat
  /\ metrics \in [Counters -> Nat]
  /\ report \in Reports \cup {NoReport}
  /\ temp \in Reports \cup {Absent, Partial}
  /\ json \in Reports \cup {Absent} /\ html \in Reports \cup {Absent}
  /\ place \in Writes \cup {"answered"} => report # NoReport

Distinct(s) == \A i, j \in DOMAIN s : Key(s[i]) = Key(s[j]) => i = j

(* The report has one finding for everything a tool found and none         *)
(* besides, whatever the phases after the tools made of it: no failed      *)
(* retrieval, analysis or validation loses a candidate, and what nuclei    *)
(* matched twice is reported once.                                         *)
ReportCoversFinds ==
  report # NoReport =>
    /\ Keys(report.findings) = Keys(found)
    /\ Distinct(report.findings)

(* A candidate of the scan and its finding in the report get their status  *)
(* from two functions (_final_status, resolve_final_status) that agree on  *)
(* what validation showed.  What only the analysis thinks likely is        *)
(* "validation_skipped" in the report, where "likely" and "informational"  *)
(* never occur.                                                            *)
VerdictsAgree ==
  report # NoReport =>
    \A i \in DOMAIN queue :
      LET inScan == queue[i].final_status
          inReport == report.findings[i].status
      IN /\ inReport \in ValidationStatuses
         /\ inReport = "validation_skipped" => inScan \in {"likely", "candidate"}
         /\ inReport # "validation_skipped" => inScan = inReport

With(status) ==
  {i \in DOMAIN report.findings : report.findings[i].status = status}

(* The validation summary, counted while the candidates were validated, is *)
(* what a reader counts in the findings of the same report: every finding  *)
(* is attempted, the skipped ones too, and has one status.                 *)
SummaryMatches ==
  report # NoReport =>
    /\ report.summary["attempted"] = Len(report.findings)
    /\ \A status \in ValidationStatuses :
         report.summary[status] = Cardinality(With(status))

(* No knowledge is retrieved for a crawled page of the attack surface, so  *)
(* no model is asked about it, two phases later; everything another tool   *)
(* found has been analysed, be it in vain.                                 *)
ModelIsSparedForPages ==
  report # NoReport =>
    \A i \in DOMAIN queue :
      /\ queue[i].tool = "crawler" /\ queue[i].title \in Surface
           => queue[i].analysis = "none"
      /\ queue[i].tool # "crawler" => queue[i].analysis # "none"

(* A crash or an error between any two steps leaves each report file       *)
(* absent or whole, the HTML one only beside the JSON one, and both of the *)
(* same report; an answered scan has both and no temporary file.           *)
FilesInOrder ==
  /\ json \in {Absent, report} /\ html \in {Absent, report}
  /\ html # Absent => json # Absent
  /\ place = "answered" => json = report /\ html = report /\ temp = Absent

Executed == {executions[i].tool : i \in DOMAIN executions}

(* tools_used lists every tool once, and just those the scan came to: the  *)
(* crawler and nuclei only after a probe that worked, the agents only when *)
(* there was a candidate, and these the engine always successfully.        *)
ExecutionsComplete ==
  report # NoReport =>
    /\ Executed =
         (Tools \ {"crawler", "nuclei", "analysis_agent", "validation_engine"})
         \cup (IF probe # NoProbe THEN {"crawler", "nuclei"} ELSE {})
         \cup (IF found # <<>> THEN {"analysis_agent", "validation_engine"} ELSE {})
    /\ \A i, j \in DOMAIN executions :
         executions[i].tool = executions[j].tool => i = j
    /\ \A i \in DOMAIN executions :
         executions[i].tool = "validation_engine" => executions[i].success

(* Every scan comes to an end, whatever its tools and agents come to.      *)
ScanEnds == <>(place \in Ends)
=============================================================================
