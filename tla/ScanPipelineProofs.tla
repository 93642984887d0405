------------------------- MODULE ScanPipelineProofs -------------------------
(***************************************************************************)
(* Proofs about ScanPipeline: its types, the two report files, that a      *)
(* report covers what was found, and that it tells the verdicts of its     *)
(* scan.                                                                   *)
(*                                                                         *)
(* The argument has two parts.  Stages says what every candidate in a list *)
(* has been through, phase by phase; Coverage that the two lists of a loop *)
(* hold between them the keys that were found.  StagesEnd says that a scan *)
(* comes to an end: what each of its steps leaves less of; and             *)
(* LoopsKeepContract that two of its loops are phases as PhaseContract has *)
(* them.                                                                   *)
(***************************************************************************)
EXTENDS ScanPipeline, SequenceTheorems, FiniteSetTheorems, TLAPS

Before == {"scope", "web_probe", "network_scan", "robots_txt",
           "common_endpoints", "crawler", "nuclei", "collect"}

(* Candidates after each phase: as found; with what retrieval found; with  *)
(* an analysis where one is due; with a verdict.                           *)
Raw == {c \in FindingCandidates : ~c.knowledge /\ c.analysis = "none"}
Read ==
  {c \in FindingCandidates : (c.knowledge => Query(c)) /\ c.analysis = "none"}
Asked ==
  {c \in FindingCandidates :
     /\ c.tool = "crawler" /\ c.title \in Surface => c.analysis = "none"
     /\ c.tool # "crawler" => c.analysis # "none"}
Judged ==
  {c \in Asked : c.validation \in ValidationStatuses
                 /\ c.final_status = FinalStatus(c, c.validation)}

Settled == place = "report" \/ report # NoReport

Stages ==
  /\ found \in Seq(Raw)
  /\ place \in Before => queue = <<>> /\ enriched = <<>>
  /\ place = "dedupe" => queue \in Seq(Raw) /\ enriched \in Seq(Raw)
  /\ place = "rag" =>
       /\ queue \in Seq(Raw) /\ enriched \in Seq(Read)
       /\ ~RagEnabled => enriched = <<>>
  /\ place = "analysis" => queue \in Seq(Read) /\ enriched \in Seq(Asked)
  /\ place = "validation" => queue \in Seq(Asked) /\ enriched \in Seq(Judged)
  /\ Settled => queue \in Seq(Judged) /\ enriched = <<>>

(* The lists of a loop share out the keys that were found.                 *)
Shared ==
  /\ Distinct(queue) /\ Distinct(enriched)
  /\ Keys(queue) \cap Keys(enriched) = {}
  /\ Keys(queue) \cup Keys(enriched) = Keys(found)

Coverage ==
  /\ place = "dedupe" =>
       Distinct(enriched) /\ Keys(queue) \cup Keys(enriched) = Keys(found)
  /\ place \in {"rag", "analysis", "validation"} => Shared
  /\ Settled => Distinct(queue) /\ Keys(queue) = Keys(found)

(* A report has the findings of the candidates it was made of.             *)
Reported ==
  /\ place \in Before \cup Phases \cup {"report"} => report = NoReport
  /\ report # NoReport =>
       /\ report \in Reports
       /\ DOMAIN report.findings = DOMAIN queue
       /\ \A i \in DOMAIN queue : report.findings[i] = FinalFinding(queue[i])

(* What is in the files, by the place of the scan.                         *)
Files ==
  /\ json \in {Absent, report} /\ html \in {Absent, report}
  /\ temp \in {Absent, Partial, report}
  /\ report = NoReport => json = Absent /\ html = Absent /\ temp = Absent
  /\ html # Absent => json # Absent
  /\ place = "json" => json = Absent /\ html = Absent
  /\ place = "html" => json = report /\ html = Absent
  /\ place = "answered" => json = report /\ html = report /\ temp = Absent
-----------------------------------------------------------------------------
(* What one turn of a loop does to the keys of the list it takes from.     *)
LEMMA TailKeys ==
  ASSUME NEW S, NEW s \in Seq(S), s # <<>>
  PROVE  /\ Head(s) \in S /\ Tail(s) \in Seq(S)
         /\ Keys(s) = {Key(Head(s))} \cup Keys(Tail(s))
         /\ Distinct(s) => Distinct(Tail(s)) /\ Key(Head(s)) \notin Keys(Tail(s))
<1>1. Head(s) \in S /\ Tail(s) \in Seq(S)
  BY HeadTailProperties
<1>2. /\ Len(s) \in Nat /\ Len(s) >= 1 /\ DOMAIN s = 1..Len(s)
      /\ Head(s) = s[1] /\ DOMAIN Tail(s) = 1..(Len(s) - 1)
      /\ \A i \in 1..(Len(s) - 1) : Tail(s)[i] = s[i + 1]
  BY HeadTailProperties, LenProperties, EmptySeq
<1>3. Keys(s) = {Key(Head(s))} \cup Keys(Tail(s))
  <2>1. ASSUME NEW i \in DOMAIN s PROVE Key(s[i]) \in {Key(Head(s))} \cup Keys(Tail(s))
    <3>1. CASE i = 1
      BY <1>2, <3>1
    <3>2. CASE i # 1
      <4>1. i - 1 \in 1..(Len(s) - 1) /\ Tail(s)[i - 1] = s[i]
        BY <1>2, <3>2
      <4> QED BY <4>1, <1>2 DEF Keys
    <3> QED BY <3>1, <3>2
  <2>2. ASSUME NEW i \in DOMAIN Tail(s) PROVE Key(Tail(s)[i]) \in Keys(s)
    <3>1. i + 1 \in DOMAIN s /\ Tail(s)[i] = s[i + 1]
      BY <1>2
    <3> QED BY <3>1 DEF Keys
  <2>3. Key(Head(s)) \in Keys(s)
    <3>1. 1 \in DOMAIN s
      BY <1>2
    <3> QED BY <3>1, <1>2 DEF Keys
  <2> QED BY <2>1, <2>2, <2>3 DEF Keys
<1>4. ASSUME Distinct(s) PROVE Distinct(Tail(s)) /\ Key(Head(s)) \notin Keys(Tail(s))
  <2>1. ASSUME NEW i \in DOMAIN Tail(s), NEW j \in DOMAIN Tail(s),
               Key(Tail(s)[i]) = Key(Tail(s)[j])
        PROVE  i = j
    <3>1. /\ i + 1 \in DOMAIN s /\ Tail(s)[i] = s[i + 1]
          /\ j + 1 \in DOMAIN s /\ Tail(s)[j] = s[j + 1]
      BY <1>2
    <3>2. i + 1 = j + 1
      BY <3>1, <2>1, <1>4 DEF Distinct
    <3> QED BY <3>2, <1>2
  <2>2. ASSUME NEW i \in DOMAIN Tail(s) PROVE Key(Tail(s)[i]) # Key(Head(s))
    <3>1. i + 1 \in DOMAIN s /\ Tail(s)[i] = s[i + 1] /\ 1 \in DOMAIN s /\ i + 1 # 1
      BY <1>2
    <3> QED BY <3>1, <1>2, <1>4 DEF Distinct
  <2> QED BY <2>1, <2>2 DEF Distinct, Keys
<1> QED BY <1>1, <1>3, <1>4

(* And to the keys of the list it appends to.                              *)
LEMMA AppendKeys ==
  ASSUME NEW S, NEW s \in Seq(S), NEW c \in S
  PROVE  /\ Append(s, c) \in Seq(S) /\ Append(s, c) # <<>>
         /\ Keys(Append(s, c)) = Keys(s) \cup {Key(c)}
         /\ Distinct(s) /\ Key(c) \notin Keys(s) => Distinct(Append(s, c))
<1> DEFINE t == Append(s, c)
<1>1. /\ t \in Seq(S) /\ t # <<>> /\ Len(s) \in Nat
      /\ DOMAIN s = 1..Len(s) /\ DOMAIN t = 1..(Len(s) + 1)
      /\ \A i \in 1..Len(s) : t[i] = s[i]
      /\ t[Len(s) + 1] = c
  BY AppendProperties, LenProperties
<1> HIDE DEF t
<1>2. DOMAIN t = DOMAIN s \cup {Len(s) + 1} /\ Len(s) + 1 \notin DOMAIN s
  BY <1>1
<1>3. Keys(t) = Keys(s) \cup {Key(c)}
  BY <1>1, <1>2, Zenon DEF Keys
<1>4. ASSUME Distinct(s), Key(c) \notin Keys(s) PROVE Distinct(t)
  BY <1>1, <1>2, <1>4, Zenon DEF Distinct, Keys
<1> QED BY <1>1, <1>3, <1>4 DEF t

(* A candidate that a phase adds to keeps its key.                         *)
LEMMA SameKey ==
  ASSUME NEW c \in FindingCandidates, NEW x
  PROVE  /\ Key([c EXCEPT !.knowledge = x]) = Key(c)
         /\ Key([c EXCEPT !.analysis = x]) = Key(c)
         /\ \A y : Key([c EXCEPT !.validation = x, !.final_status = y]) = Key(c)
BY DEF Key, FindingCandidates
-----------------------------------------------------------------------------
(* What is found is raw; a turn makes a candidate one of the next stage.   *)
LEMMA FreshIsRaw ==
  ASSUME NEW tool \in {"crawler", "nuclei", "deterministic_recon"},
         NEW title \in Titles
  PROVE  Fresh(tool, title) \in Raw
BY DEF Fresh, Raw, FindingCandidates, FinalStatuses

LEMMA RagStage ==
  ASSUME NEW c \in Raw, NEW knowledge \in BOOLEAN, knowledge => Query(c)
  PROVE  [c EXCEPT !.knowledge = knowledge] \in Read
BY DEF Raw, Read, FindingCandidates, Query

LEMMA AnalysisStage ==
  ASSUME NEW c \in Read
  PROVE  /\ PassedOver(c) => c \in Asked
         /\ \A a \in AnalysisStatuses \cup {"lost"} :
              ~PassedOver(c) => [c EXCEPT !.analysis = a] \in Asked
<1>1. PassedOver(c) => c \in Asked
  BY DEF Read, Asked, PassedOver
<1>2. ASSUME NEW a \in AnalysisStatuses \cup {"lost"}, ~PassedOver(c)
      PROVE  [c EXCEPT !.analysis = a] \in Asked
  <2> DEFINE d == [c EXCEPT !.analysis = a]
  <2>1. d \in FindingCandidates /\ d.tool = c.tool /\ d.title = c.title /\ d.analysis = a
    BY DEF Read, FindingCandidates
  <2>2. a # "none"
    BY DEF AnalysisStatuses
  <2>3. ~(c.tool = "crawler" /\ c.title \in Surface)
    BY <1>2 DEF Read, PassedOver, Query
  <2> QED BY <2>1, <2>2, <2>3 DEF Asked
<1> QED BY <1>1, <1>2

LEMMA ValidationStage ==
  ASSUME NEW c \in Asked, NEW v \in ValidationStatuses
  PROVE  [c EXCEPT !.validation = v, !.final_status = FinalStatus(c, v)] \in Judged
<1> DEFINE d == [c EXCEPT !.validation = v, !.final_status = FinalStatus(c, v)]
<1>1. FinalStatus(c, v) \in FinalStatuses
  BY DEF FinalStatus, ValidationStatuses, FinalStatuses
<1>2. /\ d \in FindingCandidates /\ d.tool = c.tool /\ d.title = c.title
      /\ d.analysis = c.analysis /\ d.validation = v
      /\ d.final_status = FinalStatus(c, v)
  BY <1>1 DEF Asked, FindingCandidates
<1>3. FinalStatus(d, v) = FinalStatus(c, v)
  BY <1>2 DEF FinalStatus
<1> QED BY <1>2, <1>3 DEF Asked, Judged

(* Every stage is one of finding candidates.                               *)
LEMMA StagesAreCandidates ==
  /\ Raw \subseteq Read /\ Raw \subseteq FindingCandidates
  /\ Read \subseteq FindingCandidates /\ Asked \subseteq FindingCandidates
  /\ Judged \subseteq FindingCandidates /\ Judged \subseteq Asked
BY DEF Raw, Read, Asked, Judged

(* What the tools that make candidates return.                             *)
LEMMA FreshSequence ==
  ASSUME NEW tool \in {"crawler", "nuclei", "deterministic_recon"},
         NEW n \in Nat, NEW t \in [1..n -> Titles]
  PROVE  [i \in 1..n |-> Fresh(tool, t[i])] \in Seq(Raw)
<1>1. \A i \in 1..n : Fresh(tool, t[i]) \in Raw
  BY FreshIsRaw
<1> QED BY <1>1, IsASeq

LEMMA SynthesizedIsRaw == Synthesized \in Seq(Raw)
<1>1. /\ Fresh("deterministic_recon", Csp) \in Raw
      /\ Fresh("deterministic_recon", Admin) \in Raw
  BY FreshIsRaw DEF Titles
<1> HIDE DEF Raw
<1>2. \A c \in Raw : <<c>> \in Seq(Raw)
  OBVIOUS
<1>3. <<>> \in Seq(Raw)
  BY EmptySeq
<1> DEFINE a == IF probe # NoProbe /\ probe.ok /\ ~probe.csp
                  THEN <<Fresh("deterministic_recon", Csp)>> ELSE <<>>
           b == IF exposed THEN <<Fresh("deterministic_recon", Admin)>> ELSE <<>>
<1>4. a \in Seq(Raw) /\ b \in Seq(Raw)
  BY <1>1, <1>2, <1>3, Zenon
<1> HIDE DEF a, b
<1>5. a \o b \in Seq(Raw)
  BY <1>4, ConcatProperties
<1> QED BY <1>5, Zenon DEF Synthesized, a, b
-----------------------------------------------------------------------------
LEMMA FindingsAreFinal ==
  ASSUME NEW s \in Seq(FindingCandidates)
  PROVE  [i \in DOMAIN s |-> FinalFinding(s[i])] \in Seq(FinalFindings)
<1>1. ASSUME NEW c \in FindingCandidates PROVE FinalFinding(c) \in FinalFindings
  <2>1. ReportStatus(c) \in ReportStatuses
    BY DEF ReportStatus, ReportStatuses, ValidationStatuses, FindingCandidates
  <2> QED BY <2>1 DEF FinalFinding, FinalFindings, FindingCandidates
<1>2. Len(s) \in Nat /\ DOMAIN s = 1..Len(s)
  BY LenProperties
<1>3. \A i \in 1..Len(s) : FinalFinding(s[i]) \in FinalFindings
  BY <1>1, ElementOfSeq
<1>4. [i \in 1..Len(s) |-> FinalFinding(s[i])] \in Seq(FinalFindings)
  BY <1>2, <1>3, IsASeq
<1> QED BY <1>2, <1>4

LEMMA RanTypes ==
  ASSUME executions \in Seq(Executions), NEW tool \in Tools, NEW success \in BOOLEAN,
         Ran(tool, success)
  PROVE  executions' \in Seq(Executions)
<1>1. [tool |-> tool, success |-> success] \in Executions
  BY DEF Executions
<1> QED BY <1>1, AppendProperties DEF Ran

LEMMA ConcludedTypes ==
  ASSUME executions \in Seq(Executions), NEW tool \in Tools, NEW success \in BOOLEAN,
         Concluded(tool, success)
  PROVE  executions' \in Seq(Executions)
<1>1. CASE enriched = <<>>
  BY <1>1, Zenon DEF Concluded
<1>2. CASE Ran(tool, success)
  BY <1>2, RanTypes
<1> QED BY <1>1, <1>2, Zenon DEF Concluded

LEMMA TallyTypes ==
  ASSUME metrics \in [Counters -> Nat], NEW v \in ValidationStatuses
  PROVE  Tally(v) \in [Counters -> Nat]
BY DEF Tally

LEMMA InitTypes == Init => TypeOK
<1> SUFFICES ASSUME Init PROVE TypeOK
  OBVIOUS
<1>1. /\ <<>> \in Seq(Executions) /\ <<>> \in Seq(FindingCandidates)
  BY EmptySeq
<1>2. metrics \in [Counters -> Nat]
  BY DEF Init
<1> QED BY <1>1, <1>2 DEF Init, TypeOK, Places, Writes

LEMMA ReconTypes ==
  ASSUME TypeOK, Recon
  PROVE  TypeOK'
<1> USE DEF recon, lists, files
<1>1. CASE WebProbe
  <2>1. executions' \in Seq(Executions)
    BY <1>1, RanTypes DEF WebProbe, TypeOK, Tools
  <2> QED BY <1>1, <2>1 DEF WebProbe, TypeOK, Places, Writes
<1>2. CASE NetworkScan
  <2>1. executions' \in Seq(Executions)
    BY <1>2, RanTypes DEF NetworkScan, TypeOK, Tools
  <2> QED BY <1>2, <2>1 DEF NetworkScan, TypeOK, Places, Writes
<1>3. CASE RobotsTxt
  <2>1. executions' \in Seq(Executions)
    BY <1>3, RanTypes DEF RobotsTxt, TypeOK, Tools
  <2> QED BY <1>3, <2>1 DEF RobotsTxt, TypeOK, Places, Writes
<1>4. CASE CommonEndpoints
  <2>1. executions' \in Seq(Executions)
    BY <1>4, RanTypes DEF CommonEndpoints, TypeOK, Tools
  <2> QED BY <1>4, <2>1 DEF CommonEndpoints, AfterEndpoints, TypeOK, Places, Writes
<1>5. CASE Crawl
  <2>1. executions' \in Seq(Executions)
    BY <1>5, RanTypes DEF Crawl, TypeOK, Tools
  <2>2. found' \in Seq(FindingCandidates)
    <3>1. ASSUME NEW n \in 0..MaxFinds, NEW page \in [1..n -> Surface \cup Disclosures]
          PROVE  [i \in 1..n |-> Fresh("crawler", page[i])] \in Seq(FindingCandidates)
      <4>1. n \in Nat /\ page \in [1..n -> Titles]
        BY BoundsAssumption DEF Titles
      <4> QED BY <4>1, FreshSequence, StagesAreCandidates, SeqMonotonic
    <3>2. CASE UNCHANGED found
      BY <3>2 DEF TypeOK
    <3>3. CASE \E n \in 0..MaxFinds : \E page \in [1..n -> Surface \cup Disclosures] :
                 found' = [i \in 1..n |-> Fresh("crawler", page[i])]
      BY <3>1, <3>3
    <3> QED BY <1>5, <3>2, <3>3, Zenon DEF Crawl
  <2> QED BY <1>5, <2>1, <2>2 DEF Crawl, TypeOK, Places, Writes
<1>6. CASE Nuclei
  <2>1. executions' \in Seq(Executions)
    BY <1>6, RanTypes DEF Nuclei, TypeOK, Tools
  <2>2. found' \in Seq(FindingCandidates)
    <3>1. ASSUME NEW n \in 0..(MaxFinds - Len(found)), NEW match \in [1..n -> Matches]
          PROVE  found \o [i \in 1..n |-> Fresh("nuclei", match[i])]
                   \in Seq(FindingCandidates)
      <4>1. n \in Nat /\ match \in [1..n -> Titles]
        BY DEF Titles
      <4>2. [i \in 1..n |-> Fresh("nuclei", match[i])] \in Seq(FindingCandidates)
        BY <4>1, FreshSequence, StagesAreCandidates, SeqMonotonic
      <4> QED BY <4>2, ConcatProperties DEF TypeOK
    <3> QED BY <1>6, <3>1 DEF Nuclei, TypeOK
  <2> QED BY <1>6, <2>1, <2>2 DEF Nuclei, TypeOK, Places, Writes
<1> QED BY <1>1, <1>2, <1>3, <1>4, <1>5, <1>6 DEF Recon

(* A turn takes the head of the queue and appends a candidate.             *)
LEMMA TakeTypes ==
  ASSUME queue \in Seq(FindingCandidates), enriched \in Seq(FindingCandidates),
         queue # <<>>, NEW c \in FindingCandidates, Take(c)
  PROVE  /\ queue' \in Seq(FindingCandidates) /\ enriched' \in Seq(FindingCandidates)
BY TailKeys, AppendKeys DEF Take

LEMMA TurnTypes ==
  ASSUME TypeOK, Turn
  PROVE  TypeOK'
<1> USE DEF recon, lists, files
<1>1. /\ queue \in Seq(FindingCandidates) /\ enriched \in Seq(FindingCandidates)
      /\ queue # <<>> => Head(queue) \in FindingCandidates
                         /\ Tail(queue) \in Seq(FindingCandidates)
  BY TailKeys DEF TypeOK
<1>2. CASE DedupeTurn
  <2>1. queue' \in Seq(FindingCandidates) /\ enriched' \in Seq(FindingCandidates)
    BY <1>1, <1>2, TakeTypes DEF DedupeTurn
  <2> QED BY <1>2, <2>1 DEF DedupeTurn, TypeOK
<1>3. CASE RagTurn
  <2>1. PICK knowledge \in BOOLEAN : Take([Head(queue) EXCEPT !.knowledge = knowledge])
    BY <1>3 DEF RagTurn
  <2>2. [Head(queue) EXCEPT !.knowledge = knowledge] \in FindingCandidates
    BY <1>1, <1>3 DEF RagTurn, FindingCandidates
  <2>3. queue' \in Seq(FindingCandidates) /\ enriched' \in Seq(FindingCandidates)
    BY <1>1, <1>3, <2>1, <2>2, TakeTypes DEF RagTurn
  <2> QED BY <1>3, <2>3 DEF RagTurn, TypeOK
<1>4. CASE AnalysisTurn
  <2> DEFINE c == Head(queue)
  <2>1. PICK d \in FindingCandidates : Take(d) /\ analysed' \in {analysed, analysed + 1}
    <3>1. \A a \in AnalysisStatuses \cup {"lost"} :
            [c EXCEPT !.analysis = a] \in FindingCandidates
      BY <1>1, <1>4 DEF AnalysisTurn, FindingCandidates
    <3>2. CASE PassedOver(c) /\ Take(c) /\ UNCHANGED analysed
      BY <1>1, <1>4, <3>2 DEF AnalysisTurn
    <3>3. CASE \E v \in Verdicts :
                 Take([c EXCEPT !.analysis = v]) /\ analysed' = analysed + 1
      BY <3>1, <3>3, BoundsAssumption
    <3>4. CASE Take([c EXCEPT !.analysis = "insufficient_evidence"]) /\ UNCHANGED analysed
      BY <3>1, <3>4 DEF AnalysisStatuses
    <3>5. CASE Take([c EXCEPT !.analysis = "lost"]) /\ UNCHANGED analysed
      BY <3>1, <3>5
    <3> QED BY <1>4, <3>2, <3>3, <3>4, <3>5 DEF AnalysisTurn
  <2>2. queue' \in Seq(FindingCandidates) /\ enriched' \in Seq(FindingCandidates)
    BY <1>1, <1>4, <2>1, TakeTypes DEF AnalysisTurn
  <2> QED BY <1>4, <2>1, <2>2 DEF AnalysisTurn, TypeOK
<1>5. CASE ValidationTurn
  <2> DEFINE c == Head(queue)
  <2>1. PICK v \in Verdict(c) :
          /\ metrics' = Tally(v)
          /\ Take([c EXCEPT !.validation = v, !.final_status = FinalStatus(c, v)])
    BY <1>5 DEF ValidationTurn
  <2>2. v \in ValidationStatuses
    BY <2>1 DEF Verdict, ValidationStatuses
  <2>3. FinalStatus(c, v) \in FinalStatuses
    BY <2>2 DEF FinalStatus, ValidationStatuses, FinalStatuses
  <2>4. [c EXCEPT !.validation = v, !.final_status = FinalStatus(c, v)]
          \in FindingCandidates
    BY <1>1, <1>5, <2>2, <2>3 DEF ValidationTurn, FindingCandidates
  <2>5. queue' \in Seq(FindingCandidates) /\ enriched' \in Seq(FindingCandidates)
    BY <1>1, <1>5, <2>1, <2>4, TakeTypes DEF ValidationTurn
  <2>6. metrics' \in [Counters -> Nat]
    BY <2>1, <2>2, TallyTypes DEF TypeOK
  <2> QED BY <1>5, <2>5, <2>6 DEF ValidationTurn, TypeOK
<1> QED BY <1>2, <1>3, <1>4, <1>5 DEF Turn

LEMMA StepTypes ==
  ASSUME TypeOK, [Next]_vars
  PROVE  TypeOK'
<1> USE DEF recon, lists, files
<1>1. CASE UNCHANGED vars
  BY <1>1 DEF TypeOK, vars
<1>2. CASE Recon
  BY <1>2, ReconTypes
<1>3. CASE Turn
  BY <1>3, TurnTypes
<1>4. CASE Collect
  <2>1. executions' \in Seq(Executions)
    BY <1>4, RanTypes DEF Collect, TypeOK, Tools
  <2>2. Synthesized \in Seq(FindingCandidates)
    BY SynthesizedIsRaw, StagesAreCandidates, SeqMonotonic
  <2>3. found' \in Seq(FindingCandidates) /\ queue' = found'
    BY <1>4, <2>2, ConcatProperties DEF Collect, TypeOK
  <2> QED BY <1>4, <2>1, <2>3 DEF Collect, TypeOK, Places, Phases, Writes
<1>5. CASE PhaseEnd
  <2>1. <<>> \in Seq(FindingCandidates)
    BY EmptySeq
  <2>2. CASE Deduped
    BY <2>1, <2>2 DEF Deduped, Finish, TypeOK, Places, Phases, Writes
  <2>3. CASE RagOff
    BY <2>1, <2>3 DEF RagOff, TypeOK, Places, Phases, Writes
  <2>4. CASE Retrieved
    BY <2>1, <2>4 DEF Retrieved, Finish, TypeOK, Places, Phases, Writes
  <2>5. CASE Analysed
    <3>1. executions' \in Seq(Executions)
      <4>1. "analysis_agent" \in Tools /\ (analysed > 0) \in BOOLEAN
        BY DEF Tools
      <4>2. executions \in Seq(Executions) /\ Concluded("analysis_agent", analysed > 0)
        BY <2>5 DEF Analysed, TypeOK
      <4> QED BY <4>1, <4>2, ConcludedTypes
    <3> QED BY <2>1, <2>5, <3>1 DEF Analysed, Finish, TypeOK, Places, Phases, Writes
  <2>6. CASE Validated
    <3>1. executions' \in Seq(Executions)
      <4>1. "validation_engine" \in Tools /\ (metrics["attempted"] > 0) \in BOOLEAN
        BY DEF Tools
      <4>2. /\ executions \in Seq(Executions)
            /\ Concluded("validation_engine", metrics["attempted"] > 0)
        BY <2>6 DEF Validated, TypeOK
      <4> QED BY <4>1, <4>2, ConcludedTypes
    <3> QED BY <2>1, <2>6, <3>1 DEF Validated, Finish, TypeOK, Places, Phases, Writes
  <2> QED BY <1>5, <2>2, <2>3, <2>4, <2>5, <2>6 DEF PhaseEnd
<1>6. CASE Report
  <2>1. report' \in Reports
    BY <1>6, FindingsAreFinal DEF Report, Reports, TypeOK
  <2> QED BY <1>6, <2>1, NullsAssumption DEF Report, TypeOK, Places, Writes
<1>7. CASE Write
  <2>1. CASE OpenTemp
    BY <2>1 DEF OpenTemp, TypeOK
  <2>2. CASE FillTemp
    BY <2>2 DEF FillTemp, TypeOK
  <2>3. CASE Replace
    BY <2>3 DEF Replace, WholeTemp, TypeOK, Places, Writes, Ends
  <2> QED BY <1>7, <2>1, <2>2, <2>3 DEF Write
<1>8. CASE Refuse \/ Accept
  BY <1>8 DEF Refuse, Accept, TypeOK, Places, Writes, Ends
<1>9. CASE Abort \/ Kill
  BY <1>9 DEF Abort, Kill, TypeOK, Places, Writes, Ends
<1> QED BY <1>1, <1>2, <1>3, <1>4, <1>5, <1>6, <1>7, <1>8, <1>9 DEF Next, Step

(* Every variable keeps to its type; a scan that writes or has answered    *)
(* has a report.                                                           *)
THEOREM TypeCorrect == Spec => []TypeOK
<1>1. TypeOK /\ [Next]_vars => TypeOK'
  BY StepTypes
<1> QED BY <1>1, InitTypes, PTL DEF Spec
-----------------------------------------------------------------------------
(* The tools leave raw candidates and the loops alone.                     *)
LEMMA ReconStage ==
  ASSUME TypeOK, Stages, Recon
  PROVE  /\ place \in Before /\ place' \in Before
         /\ found' \in Seq(Raw) /\ UNCHANGED <<queue, enriched, report, temp, json, html>>
<1> USE DEF recon, lists, files, Before
<1>1. CASE WebProbe \/ NetworkScan \/ RobotsTxt \/ CommonEndpoints
  BY <1>1 DEF WebProbe, NetworkScan, RobotsTxt, CommonEndpoints, AfterEndpoints, Stages
<1>2. CASE Crawl
  <2>1. ASSUME NEW n \in 0..MaxFinds, NEW page \in [1..n -> Surface \cup Disclosures]
        PROVE  [i \in 1..n |-> Fresh("crawler", page[i])] \in Seq(Raw)
    <3>1. n \in Nat /\ page \in [1..n -> Titles]
      BY BoundsAssumption DEF Titles
    <3> QED BY <3>1, FreshSequence
  <2>2. CASE UNCHANGED found
    BY <1>2, <2>2 DEF Crawl, Stages
  <2>3. CASE \E n \in 0..MaxFinds : \E page \in [1..n -> Surface \cup Disclosures] :
               found' = [i \in 1..n |-> Fresh("crawler", page[i])]
    <3>1. found' \in Seq(Raw)
      BY <2>1, <2>3
    <3> QED BY <1>2, <3>1 DEF Crawl
  <2> QED BY <1>2, <2>2, <2>3, Zenon DEF Crawl
<1>3. CASE Nuclei
  <2>1. ASSUME NEW n \in 0..(MaxFinds - Len(found)), NEW match \in [1..n -> Matches]
        PROVE  found \o [i \in 1..n |-> Fresh("nuclei", match[i])] \in Seq(Raw)
    <3>1. n \in Nat /\ match \in [1..n -> Titles]
      BY DEF Titles
    <3>2. [i \in 1..n |-> Fresh("nuclei", match[i])] \in Seq(Raw)
      BY <3>1, FreshSequence
    <3> QED BY <3>2, ConcatProperties DEF Stages
  <2>2. found' \in Seq(Raw)
    BY <1>3, <2>1 DEF Nuclei, Stages
  <2> QED BY <1>3, <2>2 DEF Nuclei
<1> QED BY <1>1, <1>2, <1>3 DEF Recon

(* A turn takes a candidate of one stage and appends one of the next.      *)
LEMMA TakeStage ==
  ASSUME NEW S, NEW T, queue \in Seq(S), enriched \in Seq(T), queue # <<>>,
         NEW c \in T, Take(c)
  PROVE  queue' \in Seq(S) /\ enriched' \in Seq(T)
BY TailKeys, AppendKeys DEF Take

(* What each kind of turn appends.                                         *)
LEMMA RagTake ==
  ASSUME Stages, RagTurn
  PROVE  \E c \in Read : Take(c) /\ Key(c) = Key(Head(queue))
<1>1. Head(queue) \in Raw /\ Head(queue) \in FindingCandidates
  BY TailKeys, StagesAreCandidates DEF RagTurn, Stages
<1>2. PICK knowledge \in BOOLEAN :
        /\ knowledge => Query(Head(queue))
        /\ Take([Head(queue) EXCEPT !.knowledge = knowledge])
  BY DEF RagTurn
<1>3. [Head(queue) EXCEPT !.knowledge = knowledge] \in Read
  BY <1>1, <1>2, RagStage
<1> QED BY <1>1, <1>2, <1>3, SameKey

LEMMA AnalysisTake ==
  ASSUME Stages, AnalysisTurn
  PROVE  \E c \in Asked : Take(c) /\ Key(c) = Key(Head(queue))
<1> DEFINE h == Head(queue)
<1>1. h \in Read /\ h \in FindingCandidates
  BY TailKeys, StagesAreCandidates DEF AnalysisTurn, Stages
<1>2. CASE PassedOver(h) /\ Take(h)
  BY <1>1, <1>2, AnalysisStage
<1>3. CASE ~PassedOver(h) /\ \E a \in AnalysisStatuses \cup {"lost"} :
                              Take([h EXCEPT !.analysis = a])
  <2>1. PICK a \in AnalysisStatuses \cup {"lost"} : Take([h EXCEPT !.analysis = a])
    BY <1>3
  <2>2. [h EXCEPT !.analysis = a] \in Asked
    BY <1>1, <1>3, AnalysisStage
  <2> QED BY <1>1, <2>1, <2>2, SameKey
<1>4. \/ PassedOver(h) /\ Take(h)
      \/ ~PassedOver(h) /\ \E a \in AnalysisStatuses \cup {"lost"} :
                              Take([h EXCEPT !.analysis = a])
  <2>1. "insufficient_evidence" \in AnalysisStatuses /\ Verdicts \subseteq AnalysisStatuses
    BY BoundsAssumption DEF AnalysisStatuses
  <2> QED BY <2>1 DEF AnalysisTurn
<1> QED BY <1>2, <1>3, <1>4

LEMMA ValidationTake ==
  ASSUME Stages, ValidationTurn
  PROVE  \E c \in Judged : Take(c) /\ Key(c) = Key(Head(queue))
<1> DEFINE h == Head(queue)
<1>1. h \in Asked /\ h \in FindingCandidates
  BY TailKeys, StagesAreCandidates DEF ValidationTurn, Stages
<1>2. PICK v \in Verdict(h) :
        Take([h EXCEPT !.validation = v, !.final_status = FinalStatus(h, v)])
  BY DEF ValidationTurn
<1>3. v \in ValidationStatuses
  BY DEF Verdict, ValidationStatuses
<1>4. [h EXCEPT !.validation = v, !.final_status = FinalStatus(h, v)] \in Judged
  BY <1>1, <1>3, ValidationStage
<1> DEFINE d == [h EXCEPT !.validation = v, !.final_status = FinalStatus(h, v)]
<1>5. Key(d) = Key(h)
  BY <1>1 DEF Key, FindingCandidates
<1>6. d \in Judged /\ Take(d)
  BY <1>2, <1>4
<1> HIDE DEF d
<1> QED BY <1>5, <1>6

LEMMA StagesStep ==
  ASSUME TypeOK, Stages, Reported, [Next]_vars
  PROVE  Stages'
<1> USE DEF recon, lists, files
<1>1. /\ <<>> \in Seq(Raw) /\ <<>> \in Seq(Read) /\ <<>> \in Seq(Asked)
      /\ <<>> \in Seq(Judged)
  BY EmptySeq
<1>2. found \in Seq(Raw) /\ place \in Places
  BY DEF Stages, TypeOK
<1>3. CASE UNCHANGED vars
  BY <1>3 DEF Stages, Settled, vars
<1>4. CASE Recon
  <2>1. /\ place \in Before /\ place' \in Before /\ found' \in Seq(Raw)
        /\ UNCHANGED <<queue, enriched, report>>
    BY <1>4, ReconStage
  <2>2. report' = NoReport
    BY <2>1 DEF Reported
  <2> QED BY <2>1, <2>2 DEF Stages, Settled, Before
<1>5. CASE Collect
  <2>1. found' \in Seq(Raw)
    BY <1>2, <1>5, SynthesizedIsRaw, ConcatProperties DEF Collect
  <2>2. report' = NoReport /\ queue' = found' /\ enriched' = <<>> /\ place' = "dedupe"
    BY <1>5 DEF Collect, Reported, Stages, Before
  <2> QED BY <1>1, <2>1, <2>2 DEF Stages, Settled, Before
<1>6. CASE DedupeTurn
  <2>1. place = "dedupe" /\ queue \in Seq(Raw) /\ enriched \in Seq(Raw) /\ queue # <<>>
    BY <1>6 DEF DedupeTurn, Stages
  <2>2. queue' \in Seq(Raw) /\ enriched' \in Seq(Raw)
    BY SMTT(30), <1>6, <2>1, TailKeys, TakeStage DEF DedupeTurn
  <2> QED BY <1>2, <1>6, <2>1, <2>2 DEF DedupeTurn, Stages, Settled, Before, Reported, Phases
<1>7. CASE RagTurn
  <2>1. place = "rag" /\ queue \in Seq(Raw) /\ enriched \in Seq(Read) /\ queue # <<>>
    BY <1>7 DEF RagTurn, Stages
  <2>2. queue' \in Seq(Raw) /\ enriched' \in Seq(Read)
    BY <1>7, <2>1, RagTake, TakeStage
  <2> QED BY <1>2, <1>7, <2>1, <2>2 DEF RagTurn, Stages, Settled, Before, Reported, Phases
<1>8. CASE AnalysisTurn
  <2>1. place = "analysis" /\ queue \in Seq(Read) /\ enriched \in Seq(Asked) /\ queue # <<>>
    BY <1>8 DEF AnalysisTurn, Stages
  <2>2. queue' \in Seq(Read) /\ enriched' \in Seq(Asked)
    BY <1>8, <2>1, AnalysisTake, TakeStage
  <2>3. UNCHANGED <<place, found, report>>
    BY <1>8 DEF AnalysisTurn
  <2> QED BY <1>2, <2>1, <2>2, <2>3 DEF Stages, Settled, Before, Reported, Phases
<1>9. CASE ValidationTurn
  <2>1. /\ place = "validation" /\ queue \in Seq(Asked) /\ enriched \in Seq(Judged)
        /\ queue # <<>>
    BY <1>9 DEF ValidationTurn, Stages
  <2>2. queue' \in Seq(Asked) /\ enriched' \in Seq(Judged)
    BY <1>9, <2>1, ValidationTake, TakeStage
  <2> QED BY <1>2, <1>9, <2>1, <2>2
        DEF ValidationTurn, Stages, Settled, Before, Reported, Phases
<1>10. CASE PhaseEnd
  <2> USE DEF Before, Phases, Finish
  <2>1. CASE Deduped
    BY <1>1, <2>1 DEF Deduped, Stages, Settled, Reported
  <2>2. CASE RagOff
    <3>1. queue \in Seq(Read) /\ enriched = <<>>
      BY <2>2, StagesAreCandidates, SeqMonotonic DEF RagOff, Stages
    <3> QED BY <1>1, <2>2, <3>1 DEF RagOff, Stages, Settled, Reported
  <2>3. CASE Retrieved
    BY <1>1, <2>3 DEF Retrieved, Stages, Settled, Reported
  <2>4. CASE Analysed
    BY <1>1, <2>4 DEF Analysed, Stages, Settled, Reported
  <2>5. CASE Validated
    BY <1>1, <2>5 DEF Validated, Stages, Settled, Reported
  <2> QED BY <1>10, <2>1, <2>2, <2>3, <2>4, <2>5 DEF PhaseEnd
<1>11. CASE Report
  BY <1>11 DEF Report, Stages, Settled, Before
<1>12. CASE Write
  <2>1. place \in Writes /\ place' \in Writes \cup {"answered"}
        /\ UNCHANGED <<found, queue, enriched, report>>
    BY <1>12 DEF Write, OpenTemp, FillTemp, Replace, Writes
  <2> QED BY <2>1 DEF Stages, Settled, Before, Writes
<1>13. CASE Refuse \/ Accept \/ Abort \/ Kill
  <2>1. /\ place' \in {"refused", "web_probe", "failed", "killed"}
        /\ place' = "web_probe" => place \in Before
        /\ UNCHANGED <<found, queue, enriched, report>>
    BY <1>13 DEF Refuse, Accept, Abort, Kill, Before
  <2> QED BY <2>1 DEF Stages, Settled, Before
<1> QED BY <1>3, <1>4, <1>5, <1>6, <1>7, <1>8, <1>9, <1>10, <1>11, <1>12, <1>13
      DEF Next, Step, Turn
-----------------------------------------------------------------------------
(* A turn that appends the head's successor shares out the same keys.      *)
LEMMA TakeShares ==
  ASSUME NEW S, NEW T, queue \in Seq(S), enriched \in Seq(T), queue # <<>>, Shared,
         NEW c \in T, Take(c), Key(c) = Key(Head(queue)), UNCHANGED found
  PROVE  Shared'
<1>1. /\ Keys(queue) = {Key(c)} \cup Keys(Tail(queue))
      /\ Distinct(Tail(queue)) /\ Key(c) \notin Keys(Tail(queue))
  BY TailKeys DEF Shared
<1>2. Key(c) \notin Keys(enriched)
  BY <1>1 DEF Shared
<1>3. /\ Keys(Append(enriched, c)) = Keys(enriched) \cup {Key(c)}
      /\ Distinct(Append(enriched, c))
  BY <1>2, AppendKeys DEF Shared
<1>4. queue' = Tail(queue) /\ enriched' = Append(enriched, c)
  BY DEF Take
<1>5. /\ Keys(queue') \cap Keys(enriched') = {}
      /\ Keys(queue') \cup Keys(enriched') = Keys(found)
  BY <1>1, <1>2, <1>3, <1>4 DEF Shared
<1>6. Distinct(queue') /\ Distinct(enriched')
  BY <1>1, <1>3, <1>4
<1> QED BY <1>5, <1>6 DEF Shared

LEMMA DedupeCovers ==
  ASSUME NEW S, queue \in Seq(S), enriched \in Seq(S), DedupeTurn,
         Distinct(enriched), Keys(queue) \cup Keys(enriched) = Keys(found)
  PROVE  Distinct(enriched') /\ Keys(queue') \cup Keys(enriched') = Keys(found)
<1> DEFINE c == Head(queue)
<1>1. queue # <<>> /\ c \in S /\ Keys(queue) = {Key(c)} \cup Keys(Tail(queue))
  BY TailKeys DEF DedupeTurn
<1>2. CASE Seen(c)
  <2>1. queue' = Tail(queue) /\ enriched' = enriched
    BY <1>2 DEF DedupeTurn
  <2>2. Key(c) \in Keys(enriched)
    BY <1>2 DEF Seen
  <2> QED BY <1>1, <2>1, <2>2
<1>3. CASE ~Seen(c)
  <2>1. queue' = Tail(queue) /\ enriched' = Append(enriched, c)
    BY <1>3 DEF DedupeTurn, Take
  <2>2. Key(c) \notin Keys(enriched)
    BY <1>3 DEF Seen
  <2>3. /\ Keys(Append(enriched, c)) = Keys(enriched) \cup {Key(c)}
        /\ Distinct(Append(enriched, c))
    BY <1>1, <2>2, AppendKeys
  <2> QED BY <1>1, <2>1, <2>3
<1> QED BY <1>2, <1>3

LEMMA NoKeys == Keys(<<>>) = {} /\ Distinct(<<>>)
BY DEF Keys, Distinct

LEMMA CoverageStep ==
  ASSUME TypeOK, Stages, Reported, Coverage, [Next]_vars
  PROVE  Coverage'
<1> USE DEF recon, lists, files, Before, Phases
<1>1. CASE UNCHANGED vars
  BY <1>1 DEF Coverage, Shared, Settled, vars
<1>2. CASE Recon
  BY <1>2, ReconStage DEF Coverage, Settled, Reported
<1>3. CASE Collect
  <2>1. /\ place' = "dedupe" /\ report' = NoReport /\ enriched' = <<>>
        /\ queue' = found'
    BY <1>3 DEF Collect, Reported, Stages
  <2>2. Distinct(enriched') /\ Keys(queue') \cup Keys(enriched') = Keys(found')
    BY <2>1, NoKeys
  <2> QED BY <2>1, <2>2 DEF Coverage, Settled, Keys, Distinct
<1>4. CASE DedupeTurn
  <2>1. /\ place = "dedupe" /\ place' = "dedupe" /\ report' = NoReport
        /\ found' = found
    BY <1>4 DEF DedupeTurn, Reported
  <2>2. Distinct(enriched') /\ Keys(queue') \cup Keys(enriched') = Keys(found)
    BY <1>4, <2>1, DedupeCovers DEF Stages, Coverage
  <2> QED BY <2>1, <2>2 DEF Coverage, Settled
<1>5. CASE RagTurn \/ AnalysisTurn \/ ValidationTurn
  <2>1. /\ place \in {"rag", "analysis", "validation"} /\ place' = place
        /\ report' = NoReport /\ found' = found
    <3>1. place \in {"rag", "analysis", "validation"} /\ UNCHANGED <<place, report, found>>
      BY <1>5 DEF RagTurn, AnalysisTurn, ValidationTurn
    <3> QED BY <3>1 DEF Reported
  <2>2. Shared
    BY <2>1 DEF Coverage
  <2>3. Shared'
    <3>1. CASE RagTurn
      <4>1. queue \in Seq(Raw) /\ enriched \in Seq(Read) /\ queue # <<>>
        BY <3>1 DEF RagTurn, Stages
      <4> QED BY <2>1, <2>2, <3>1, <4>1, RagTake, TakeShares
    <3>2. CASE AnalysisTurn
      <4>1. queue \in Seq(Read) /\ enriched \in Seq(Asked) /\ queue # <<>>
        BY <3>2 DEF AnalysisTurn, Stages
      <4> QED BY <2>1, <2>2, <3>2, <4>1, AnalysisTake, TakeShares
    <3>3. CASE ValidationTurn
      <4>1. queue \in Seq(Asked) /\ enriched \in Seq(Judged) /\ queue # <<>>
        BY <3>3 DEF ValidationTurn, Stages
      <4> QED BY <2>1, <2>2, <3>3, <4>1, ValidationTake, TakeShares
    <3> QED BY <1>5, <3>1, <3>2, <3>3
  <2> QED BY <2>1, <2>3 DEF Coverage, Settled
<1>6. CASE PhaseEnd
  <2>1. CASE RagOff
    <3>1. place' = "analysis" /\ report' = NoReport /\ Shared
      BY <2>1 DEF RagOff, Reported, Coverage
    <3>2. UNCHANGED <<found, queue, enriched>>
      BY <2>1 DEF RagOff
    <3>3. Shared'
      BY <3>1, <3>2 DEF Shared, Keys, Distinct
    <3> QED BY <3>1, <3>3 DEF Coverage, Settled
  <2>2. CASE Deduped \/ Retrieved \/ Analysed \/ Validated
    <3>1. /\ place \in Phases /\ queue = <<>> /\ queue' = enriched /\ enriched' = <<>>
          /\ place' \in {"rag", "analysis", "validation", "report"}
          /\ UNCHANGED <<found, report>>
      BY <2>2 DEF Deduped, Retrieved, Analysed, Validated, Finish
    <3>2. report' = NoReport
      BY <3>1 DEF Reported
    <3>3. Distinct(enriched) /\ Keys(enriched) = Keys(found)
      BY <3>1, NoKeys DEF Coverage, Shared
    <3>4. Distinct(queue') /\ Keys(queue') = Keys(found')
      BY <3>1, <3>3
    <3>5. Distinct(enriched') /\ Keys(enriched') = {}
      BY <3>1, NoKeys
    <3>6. Shared'
      BY <3>4, <3>5 DEF Shared, Keys, Distinct
    <3>7. (Distinct(queue) /\ Keys(queue) = Keys(found))'
      BY <3>4 DEF Keys, Distinct
    <3> QED BY <3>1, <3>2, <3>6, <3>7 DEF Coverage
  <2> QED BY <1>6, <2>1, <2>2 DEF PhaseEnd
<1>7. CASE Report
  BY SMTT(30), <1>7 DEF Report, Coverage, Settled, Keys, Distinct
<1>8. CASE Write
  <2>1. place \in Writes /\ place' \in Writes \cup {"answered"}
        /\ UNCHANGED <<found, queue, enriched, report>>
    BY <1>8 DEF Write, OpenTemp, FillTemp, Replace, Writes
  <2>2. Settled' => Settled
    BY <2>1 DEF Settled, Writes
  <2> QED BY <2>1, <2>2 DEF Coverage, Keys, Distinct, Writes
<1>9. CASE Refuse \/ Accept \/ Abort \/ Kill
  <2>1. /\ place' \in {"refused", "web_probe", "failed", "killed"}
        /\ UNCHANGED <<found, queue, enriched, report>>
    BY <1>9 DEF Refuse, Accept, Abort, Kill
  <2>2. Settled' => Settled
    BY <2>1 DEF Settled
  <2> QED BY <2>1, <2>2 DEF Coverage, Keys, Distinct
<1> QED BY <1>1, <1>2, <1>3, <1>4, <1>5, <1>6, <1>7, <1>8, <1>9 DEF Next, Step, Turn

LEMMA ReportedStep ==
  ASSUME TypeOK, Reported, Files, [Next]_vars
  PROVE  Reported' /\ Files'
<1> USE DEF recon, lists, files, Before, Phases, Writes
<1>1. CASE UNCHANGED vars
  <2>1. UNCHANGED <<place, queue, report, temp, json, html>>
    BY <1>1 DEF vars
  <2> QED BY <2>1 DEF Reported, Files
<1>2. CASE Recon \/ Collect \/ Turn \/ PhaseEnd \/ Refuse \/ Accept
  <2>1. /\ place \in Before \cup Phases /\ UNCHANGED <<report, temp, json, html>>
        /\ place' \notin Writes \cup {"answered"}
    <3>1. CASE Recon
      BY <3>1 DEF Recon, WebProbe, NetworkScan, RobotsTxt, CommonEndpoints,
           AfterEndpoints, Crawl, Nuclei
    <3>2. CASE Collect \/ Refuse \/ Accept
      BY <3>2 DEF Collect, Refuse, Accept
    <3>3. CASE Turn
      BY <3>3 DEF Turn, DedupeTurn, RagTurn, AnalysisTurn, ValidationTurn
    <3>4. CASE PhaseEnd
      BY <3>4 DEF PhaseEnd, Deduped, RagOff, Retrieved, Analysed, Validated, Finish
    <3> QED BY <1>2, <3>1, <3>2, <3>3, <3>4
  <2>2. report = NoReport
    BY <2>1 DEF Reported
  <2> QED BY <2>1, <2>2 DEF Reported, Files
<1>3. CASE Report
  <2>1. /\ report = NoReport /\ place' = "json"
        /\ UNCHANGED <<queue, temp, json, html>>
        /\ report' = [findings |-> [i \in DOMAIN queue |-> FinalFinding(queue[i])],
                      summary |-> metrics]
    BY <1>3 DEF Report, Reported
  <2>2. report' \in Reports
    BY <2>1, FindingsAreFinal DEF Reports, TypeOK
  <2>3. Reported'
    BY <2>1, <2>2 DEF Reported, FinalFinding, ReportStatus
  <2>4. Files'
    BY <2>1 DEF Files
  <2> QED BY <2>3, <2>4
<1>4. CASE Write
  <2>1. report \in Reports /\ report # NoReport
    BY <1>4, NullsAssumption DEF Write, OpenTemp, FillTemp, Replace, WholeTemp, TypeOK
  <2>2. Absent # Partial /\ report # Absent /\ report # Partial
    BY <2>1, NullsAssumption
  <2>3. place' \in Writes \cup {"answered"} /\ UNCHANGED <<queue, report>>
    BY <1>4 DEF Write, OpenTemp, FillTemp, Replace
  <2>4. Reported'
    BY <2>1, <2>3 DEF Reported
  <2>5. Files'
    <3>1. CASE OpenTemp
      BY <2>1, <2>2, <3>1 DEF OpenTemp, Files
    <3>2. CASE FillTemp
      BY <2>1, <2>2, <3>2 DEF FillTemp, Files
    <3>3. CASE Replace
      BY <2>1, <2>2, <3>3 DEF Replace, WholeTemp, Files
    <3> QED BY <1>4, <3>1, <3>2, <3>3 DEF Write
  <2> QED BY <2>4, <2>5
<1>5. CASE Abort \/ Kill
  <2>1. place' \in {"failed", "killed"} /\ UNCHANGED <<queue, report, temp, json, html>>
    BY <1>5 DEF Abort, Kill
  <2> QED BY <2>1 DEF Reported, Files
<1> QED BY <1>1, <1>2, <1>3, <1>4, <1>5 DEF Next, Step

(* The inductive invariant.                                                *)
IInv == TypeOK /\ Stages /\ Coverage /\ Reported /\ Files

LEMMA Inductive == Spec => []IInv
<1>1. Init => IInv
  <2> SUFFICES ASSUME Init PROVE IInv
    OBVIOUS
  <2>1. <<>> \in Seq(Raw)
    BY EmptySeq
  <2>2. Stages
    BY <2>1 DEF Init, Stages, Settled, Before
  <2>3. Coverage
    BY DEF Init, Coverage, Settled
  <2>4. Reported /\ Files
    BY DEF Init, Reported, Files
  <2> QED BY <2>2, <2>3, <2>4, InitTypes DEF IInv
<1>2. IInv /\ [Next]_vars => IInv'
  BY StepTypes, StagesStep, CoverageStep, ReportedStep DEF IInv
<1> QED BY <1>1, <1>2, PTL DEF Spec

(* Every report, of whatever scan, has one finding for each key its tools  *)
(* found and none besides.                                                 *)
THEOREM CoverCorrect == Spec => []ReportCoversFinds
<1>1. IInv => ReportCoversFinds
  <2> SUFFICES ASSUME IInv, report # NoReport
               PROVE  Keys(report.findings) = Keys(found) /\ Distinct(report.findings)
    BY DEF ReportCoversFinds
  <2>1. DOMAIN report.findings = DOMAIN queue
    BY DEF IInv, Reported
  <2>2. \A i \in DOMAIN queue : Key(report.findings[i]) = Key(queue[i])
    <3> SUFFICES ASSUME NEW i \in DOMAIN queue
                 PROVE  Key(report.findings[i]) = Key(queue[i])
      OBVIOUS
    <3>1. report.findings[i] = FinalFinding(queue[i])
      BY DEF IInv, Reported
    <3> QED BY <3>1 DEF FinalFinding, Key
  <2>3. Distinct(queue) /\ Keys(queue) = Keys(found)
    BY DEF IInv, Coverage, Settled
  <2>4. Keys(report.findings) = Keys(queue)
    BY <2>1, <2>2, Zenon DEF Keys
  <2>5. Distinct(report.findings)
    BY <2>1, <2>2, <2>3, Zenon DEF Distinct
  <2> QED BY <2>3, <2>4, <2>5
<1> QED BY <1>1, Inductive, PTL

(* The two final statuses of a candidate agree wherever validation decided. *)
THEOREM VerdictsCorrect == Spec => []VerdictsAgree
<1>1. IInv => VerdictsAgree
  <2> SUFFICES ASSUME IInv, report # NoReport, NEW i \in DOMAIN queue
               PROVE  LET inScan == queue[i].final_status
                          inReport == report.findings[i].status
                      IN /\ inReport \in ValidationStatuses
                         /\ inReport = "validation_skipped" =>
                              inScan \in {"likely", "candidate"}
                         /\ inReport # "validation_skipped" => inScan = inReport
    BY DEF VerdictsAgree
  <2>1. queue \in Seq(Judged)
    BY DEF IInv, Stages, Settled
  <2>2. queue[i] \in Judged
    BY <2>1, ElementOfSeq, LenProperties
  <2>3. report.findings[i].status = ReportStatus(queue[i])
    <3>1. report.findings[i] = FinalFinding(queue[i])
      BY DEF IInv, Reported
    <3> QED BY <3>1 DEF FinalFinding
  <2>4. ReportStatus(queue[i]) = queue[i].validation
    BY <2>2 DEF ReportStatus, Judged, ValidationStatuses
  <2> QED BY <2>2, <2>3, <2>4 DEF Judged, FinalStatus
<1> QED BY <1>1, Inductive, PTL

(* No crawled page of the attack surface is ever analysed, and everything  *)
(* the other tools found is.                                               *)
THEOREM SparedCorrect == Spec => []ModelIsSparedForPages
<1>1. IInv => ModelIsSparedForPages
  <2> SUFFICES ASSUME IInv, report # NoReport, NEW i \in DOMAIN queue
               PROVE  /\ queue[i].tool = "crawler" /\ queue[i].title \in Surface
                           => queue[i].analysis = "none"
                      /\ queue[i].tool # "crawler" => queue[i].analysis # "none"
    BY DEF ModelIsSparedForPages
  <2>1. queue \in Seq(Judged)
    BY DEF IInv, Stages, Settled
  <2>2. queue[i] \in Asked
    BY <2>1, ElementOfSeq, LenProperties, StagesAreCandidates
  <2> QED BY <2>2 DEF Asked
<1> QED BY <1>1, Inductive, PTL

(* Wherever a scan stops, its report files are absent or whole, the HTML   *)
(* one only beside the JSON one.                                           *)
THEOREM FilesCorrect == Spec => []FilesInOrder
<1>1. IInv => FilesInOrder
  BY DEF IInv, Files, FilesInOrder
<1> QED BY <1>1, Inductive, PTL
-----------------------------------------------------------------------------
(* The summary: what has been counted is what the candidates that have had *)
(* their turn were judged as.                                              *)
JudgedAs(s, v) == {i \in DOMAIN s : s[i].validation = v}

Agrees(counts, s) ==
  /\ counts["attempted"] = Len(s)
  /\ \A v \in ValidationStatuses : counts[v] = Cardinality(JudgedAs(s, v))

Tallied ==
  /\ place \in Before \cup {"dedupe", "rag", "analysis"} =>
       metrics = [k \in Counters |-> 0]
  /\ place = "validation" => Agrees(metrics, enriched)
  /\ place = "report" => Agrees(metrics, queue)
  /\ report # NoReport => Agrees(report.summary, queue)

LEMMA NothingJudged == Agrees([k \in Counters |-> 0], <<>>)
<1>1. \A v : JudgedAs(<<>>, v) = {}
  BY DEF JudgedAs
<1> QED BY <1>1, FS_EmptySet DEF Agrees, Counters

(* One more candidate is one more in the count of its verdict.             *)
LEMMA OneMoreJudged ==
  ASSUME NEW S, NEW s \in Seq(S), NEW c \in S, NEW v
  PROVE  /\ Cardinality(JudgedAs(s, v)) \in Nat
         /\ Cardinality(JudgedAs(Append(s, c), v))
              = IF c.validation = v THEN Cardinality(JudgedAs(s, v)) + 1
                ELSE Cardinality(JudgedAs(s, v))
<1>1. Len(s) \in Nat /\ DOMAIN s = 1..Len(s)
  BY LenProperties
<1>2. /\ Len(Append(s, c)) = Len(s) + 1 /\ DOMAIN Append(s, c) = 1..(Len(s) + 1)
      /\ \A i \in 1..Len(s) : Append(s, c)[i] = s[i]
      /\ Append(s, c)[Len(s) + 1] = c
  BY <1>1, AppendProperties, LenProperties
<1>3. IsFiniteSet(1..Len(s))
  BY <1>1, FS_Interval
<1>4. JudgedAs(s, v) \subseteq 1..Len(s)
  BY <1>1 DEF JudgedAs
<1>5. IsFiniteSet(JudgedAs(s, v)) /\ Cardinality(JudgedAs(s, v)) \in Nat
  BY <1>3, <1>4, FS_Subset, FS_CardinalityType
<1>6. Len(s) + 1 \notin JudgedAs(s, v)
  BY <1>1, <1>4
<1>7. CASE c.validation = v
  <2>1. JudgedAs(Append(s, c), v) = JudgedAs(s, v) \cup {Len(s) + 1}
    BY <1>1, <1>2, <1>7 DEF JudgedAs
  <2> QED BY ZenonT(60), <1>5, <1>6, <1>7, <2>1, FS_AddElement
<1>8. CASE c.validation # v
  <2>1. JudgedAs(Append(s, c), v) = JudgedAs(s, v)
    BY <1>1, <1>2, <1>8 DEF JudgedAs
  <2> QED BY <1>5, <1>8, <2>1
<1> QED BY <1>7, <1>8

(* A turn of the validation counts the candidate that it judges.           *)
LEMMA TurnTallied ==
  ASSUME TypeOK, Stages, Agrees(metrics, enriched), ValidationTurn
  PROVE  Agrees(metrics', enriched')
<1> DEFINE h == Head(queue)
<1>1. h \in Asked /\ h \in FindingCandidates
  BY TailKeys, StagesAreCandidates DEF ValidationTurn, Stages
<1>2. PICK v \in Verdict(h) :
        /\ metrics' = Tally(v)
        /\ Take([h EXCEPT !.validation = v, !.final_status = FinalStatus(h, v)])
  BY DEF ValidationTurn
<1> DEFINE d == [h EXCEPT !.validation = v, !.final_status = FinalStatus(h, v)]
<1>3. v \in ValidationStatuses
  BY DEF Verdict, ValidationStatuses
<1>4. d \in Judged /\ d.validation = v
  BY <1>1, <1>3, ValidationStage DEF FindingCandidates
<1>5. enriched' = Append(enriched, d) /\ enriched \in Seq(Judged)
  BY <1>2 DEF Take, ValidationTurn, Stages
<1> HIDE DEF h, d
<1>6. Len(enriched') = Len(enriched) + 1
  BY <1>4, <1>5, AppendProperties
<1>7. \A k \in Counters :
        metrics'[k] = IF k \in {v, "attempted"} THEN metrics[k] + 1 ELSE metrics[k]
  BY <1>2 DEF Tally
<1>8. metrics'["attempted"] = Len(enriched')
  BY <1>6, <1>7 DEF Counters, Agrees
<1>9. ASSUME NEW w \in ValidationStatuses
      PROVE  metrics'[w] = Cardinality(JudgedAs(enriched', w))
  <2>1. metrics[w] = Cardinality(JudgedAs(enriched, w)) /\ w # "attempted"
    BY DEF Agrees, ValidationStatuses
  <2>2. Cardinality(JudgedAs(enriched', w))
          = IF v = w THEN metrics[w] + 1 ELSE metrics[w]
    BY <1>4, <1>5, <2>1, OneMoreJudged
  <2> QED BY <1>7, <2>1, <2>2 DEF Counters
<1> QED BY <1>8, <1>9 DEF Agrees

LEMMA TalliedStep ==
  ASSUME IInv, Tallied, [Next]_vars
  PROVE  Tallied'
<1> USE DEF recon, lists, files, Before, Phases, Writes
<1>1. CASE UNCHANGED vars
  BY <1>1 DEF vars, Tallied
<1>2. CASE Recon \/ Collect \/ Refuse \/ Accept
  <2>1. /\ place \in Before /\ UNCHANGED <<metrics, report>>
        /\ place' \in Before \cup {"dedupe", "refused"}
    BY <1>2 DEF Recon, WebProbe, NetworkScan, RobotsTxt, CommonEndpoints,
         AfterEndpoints, Crawl, Nuclei, Collect, Refuse, Accept
  <2>2. report' = NoReport
    BY <2>1 DEF IInv, Reported
  <2> QED BY <2>1, <2>2 DEF Tallied
<1>3. CASE DedupeTurn \/ RagTurn \/ AnalysisTurn \/ Deduped \/ RagOff \/ Retrieved
  <2>1. /\ place \in {"dedupe", "rag", "analysis"} /\ UNCHANGED <<metrics, report>>
        /\ place' \in {"dedupe", "rag", "analysis"}
    BY <1>3 DEF DedupeTurn, RagTurn, AnalysisTurn, Deduped, RagOff, Retrieved, Finish
  <2>2. report' = NoReport
    BY <2>1 DEF IInv, Reported
  <2> QED BY <2>1, <2>2 DEF Tallied
<1>4. CASE ValidationTurn
  <2>1. place = "validation" /\ UNCHANGED <<place, report>>
    BY <1>4 DEF ValidationTurn
  <2>2. report = NoReport
    BY <2>1 DEF IInv, Reported
  <2>3. Agrees(metrics', enriched')
    BY <1>4, <2>1, TurnTallied DEF Tallied, IInv
  <2> QED BY <2>1, <2>2, <2>3 DEF Tallied
<1>5. CASE Analysed
  <2>1. /\ place = "analysis" /\ place' = "validation" /\ enriched' = <<>>
        /\ UNCHANGED <<metrics, report>>
    BY <1>5 DEF Analysed, Finish
  <2>2. report = NoReport
    BY <2>1 DEF IInv, Reported
  <2> QED BY <2>1, <2>2, NothingJudged DEF Tallied
<1>6. CASE Validated
  <2>1. /\ place = "validation" /\ place' = "report" /\ queue' = enriched
        /\ UNCHANGED <<metrics, report>>
    BY <1>6 DEF Validated, Finish
  <2>2. report = NoReport
    BY <2>1 DEF IInv, Reported
  <2> QED BY <2>1, <2>2 DEF Tallied
<1>7. CASE Report
  <2>1. /\ place = "report" /\ place' = "json" /\ UNCHANGED queue
        /\ report'.summary = metrics
    BY <1>7 DEF Report
  <2> QED BY <2>1 DEF Tallied
<1>8. CASE Write \/ Abort \/ Kill
  <2>1. /\ place' \in Writes \cup Ends /\ UNCHANGED <<queue, report>>
    BY <1>8 DEF Write, OpenTemp, FillTemp, Replace, Abort, Kill, Ends
  <2> QED BY <2>1 DEF Tallied, Ends
<1> QED BY <1>1, <1>2, <1>3, <1>4, <1>5, <1>6, <1>7, <1>8
      DEF Next, Step, Turn, PhaseEnd

LEMMA TalliedInvariant == Spec => []Tallied
<1>1. Init => Tallied
  BY DEF Init, Tallied, Before
<1>2. IInv /\ Tallied /\ [Next]_vars => Tallied'
  BY TalliedStep
<1> QED BY <1>1, <1>2, Inductive, PTL DEF Spec

(* The summary of every report is what its findings come to.               *)
THEOREM SummaryCorrect == Spec => []SummaryMatches
<1>1. IInv /\ Tallied => SummaryMatches
  <2> SUFFICES ASSUME IInv, Tallied, report # NoReport
               PROVE  /\ report.summary["attempted"] = Len(report.findings)
                      /\ \A status \in ValidationStatuses :
                           report.summary[status] = Cardinality(With(status))
    BY DEF SummaryMatches
  <2>1. queue \in Seq(Judged) /\ Agrees(report.summary, queue)
    BY DEF IInv, Stages, Settled, Tallied
  <2>2. report.findings \in Seq(FinalFindings) /\ DOMAIN report.findings = DOMAIN queue
    BY DEF IInv, Reported, Reports
  <2>3. Len(report.findings) = Len(queue)
    BY <2>1, <2>2, LenProperties
  <2>4. ASSUME NEW i \in DOMAIN queue
        PROVE  report.findings[i].status = queue[i].validation
    <3>1. report.findings[i] = FinalFinding(queue[i])
      BY <2>4 DEF IInv, Reported
    <3>2. queue[i] \in Judged
      BY <2>1, <2>4, ElementOfSeq, LenProperties
    <3> QED BY <3>1, <3>2 DEF FinalFinding, ReportStatus, Judged, ValidationStatuses
  <2>5. \A v : With(v) = JudgedAs(queue, v)
    BY <2>2, <2>4 DEF With, JudgedAs
  <2> QED BY <2>1, <2>3, <2>5 DEF Agrees
<1> QED BY <1>1, Inductive, TalliedInvariant, PTL
-----------------------------------------------------------------------------
(* The executions, by the place of the scan.                               *)
Searched == IF probe # NoProbe THEN {"crawler", "nuclei"} ELSE {}
Thought(tool) == IF found # <<>> THEN {tool} ELSE {}

Looked == {"web_probe", "network_scan", "robots_txt", "common_endpoints"}
Detected == Looked \cup Searched \cup {"technology_detect"}
Completed == Detected \cup Thought("analysis_agent") \cup Thought("validation_engine")

Once ==
  \A i, j \in DOMAIN executions : executions[i].tool = executions[j].tool => i = j
EngineSucceeds ==
  \A i \in DOMAIN executions :
    executions[i].tool = "validation_engine" => executions[i].success

Ledger ==
  /\ Once /\ EngineSucceeds
  /\ place \in {"crawler", "nuclei"} => probe # NoProbe
  /\ place \in {"scope", "web_probe"} => Executed = {}
  /\ place = "network_scan" => Executed = {"web_probe"}
  /\ place = "robots_txt" => Executed = {"web_probe", "network_scan"}
  /\ place = "common_endpoints" => Executed = {"web_probe", "network_scan", "robots_txt"}
  /\ place = "crawler" => Executed = Looked
  /\ place = "nuclei" => Executed = Looked \cup {"crawler"}
  /\ place = "collect" => Executed = Looked \cup Searched
  /\ place \in {"dedupe", "rag", "analysis"} => Executed = Detected
  /\ place = "validation" => Executed = Detected \cup Thought("analysis_agent")
  /\ Settled => Executed = Completed

(* A tool that has not been run is run once.                               *)
LEMMA RanOnce ==
  ASSUME executions \in Seq(Executions), Once, EngineSucceeds,
         NEW tool \in Tools, NEW success \in BOOLEAN, tool \notin Executed,
         tool = "validation_engine" => success, Ran(tool, success)
  PROVE  Executed' = Executed \cup {tool} /\ Once' /\ EngineSucceeds'
<1> DEFINE e == [tool |-> tool, success |-> success]
<1>1. e \in Executions /\ executions' = Append(executions, e)
  BY DEF Executions, Ran
<1>2. Len(executions) \in Nat /\ DOMAIN executions = 1..Len(executions)
  BY LenProperties
<1>3. e.tool = tool /\ e.success = success
  OBVIOUS
<1> HIDE DEF e
<1>4. /\ DOMAIN executions' = 1..(Len(executions) + 1)
      /\ \A i \in 1..Len(executions) : executions'[i] = executions[i]
      /\ executions'[Len(executions) + 1] = e
  BY <1>1, <1>2, AppendProperties, LenProperties
<1>5. Executed' = Executed \cup {tool}
  BY <1>2, <1>3, <1>4 DEF Executed
<1>6. Once'
  BY <1>2, <1>3, <1>4 DEF Once, Executed
<1>7. EngineSucceeds'
  BY <1>2, <1>3, <1>4 DEF EngineSucceeds
<1> QED BY <1>5, <1>6, <1>7

(* A loop ends with nothing just when nothing was found.                   *)
LEMMA LoopEnds ==
  ASSUME IInv, place \in {"analysis", "validation"}, queue = <<>>
  PROVE  enriched = <<>> <=> found = <<>>
<1>1. Keys(enriched) = Keys(found)
  BY NoKeys DEF IInv, Coverage, Shared
<1>2. \A S, s : s \in Seq(S) /\ s # <<>> => Keys(s) # {}
  <2> SUFFICES ASSUME NEW S, NEW s \in Seq(S), s # <<>> PROVE Keys(s) # {}
    OBVIOUS
  <2>1. 1 \in DOMAIN s
    BY LenProperties, EmptySeq
  <2> QED BY <2>1 DEF Keys
<1>3. found \in Seq(FindingCandidates) /\ enriched \in Seq(FindingCandidates)
  BY DEF IInv, TypeOK
<1> QED BY <1>1, <1>2, <1>3, NoKeys

LEMMA LedgerStep ==
  ASSUME IInv, Tallied, Ledger, [Next]_vars
  PROVE  Ledger'
<1> USE DEF recon, lists, files
<1>1. executions \in Seq(Executions)
  BY DEF IInv, TypeOK
<1>2. place \in Before \cup Phases \cup {"report"} => report = NoReport
  BY DEF IInv, Reported
<1>3. CASE UNCHANGED vars
  <2>1. UNCHANGED <<place, executions, probe, found, report>>
    BY <1>3 DEF vars
  <2>2. Executed' = Executed /\ (Once <=> Once') /\ (EngineSucceeds <=> EngineSucceeds')
    BY <2>1 DEF Executed, Once, EngineSucceeds
  <2>3. /\ Completed' = Completed /\ Detected' = Detected /\ Searched' = Searched
        /\ Thought("analysis_agent")' = Thought("analysis_agent")
        /\ Settled' = Settled
    BY <2>1 DEF Searched, Thought, Detected, Completed, Settled
  <2> QED BY <2>1, <2>2, <2>3 DEF Ledger
<1>4. CASE WebProbe
  <2>1. /\ place = "web_probe" /\ place' = "network_scan" /\ UNCHANGED report
        /\ \E b \in BOOLEAN : Ran("web_probe", b)
    BY <1>4 DEF WebProbe
  <2>2. Executed' = {"web_probe"} /\ Once' /\ EngineSucceeds'
    BY <1>1, <2>1, RanOnce DEF Ledger, Tools
  <2> QED BY <1>2, <2>1, <2>2 DEF Ledger, Settled, Before
<1>5. CASE NetworkScan
  <2>1. /\ place = "network_scan" /\ place' = "robots_txt" /\ UNCHANGED report
        /\ \E b \in BOOLEAN : Ran("network_scan", b)
    BY <1>5 DEF NetworkScan
  <2>2. Executed' = {"web_probe", "network_scan"} /\ Once' /\ EngineSucceeds'
    BY <1>1, <2>1, RanOnce DEF Ledger, Tools
  <2> QED BY <1>2, <2>1, <2>2 DEF Ledger, Settled, Before
<1>6. CASE RobotsTxt
  <2>1. /\ place = "robots_txt" /\ place' = "common_endpoints" /\ UNCHANGED report
        /\ \E b \in BOOLEAN : Ran("robots_txt", b)
    BY <1>6 DEF RobotsTxt
  <2>2. /\ Executed' = {"web_probe", "network_scan", "robots_txt"}
        /\ Once' /\ EngineSucceeds'
    BY <1>1, <2>1, RanOnce DEF Ledger, Tools
  <2> QED BY <1>2, <2>1, <2>2 DEF Ledger, Settled, Before
<1>7. CASE CommonEndpoints
  <2>1. /\ place = "common_endpoints" /\ UNCHANGED <<report, probe>>
        /\ place' = IF probe # NoProbe THEN "crawler" ELSE "collect"
        /\ \E b \in BOOLEAN : Ran("common_endpoints", b)
    BY <1>7 DEF CommonEndpoints, AfterEndpoints
  <2>2. Executed' = Looked /\ Once' /\ EngineSucceeds'
    BY <1>1, <2>1, RanOnce DEF Ledger, Tools, Looked
  <2> QED BY <1>2, <2>1, <2>2 DEF Ledger, Settled, Before, Searched
<1>8. CASE Crawl
  <2>1. /\ place = "crawler" /\ place' = "nuclei" /\ UNCHANGED <<report, probe>>
        /\ \E b \in BOOLEAN : Ran("crawler", b)
    BY <1>8 DEF Crawl
  <2>2. Executed' = Looked \cup {"crawler"} /\ Once' /\ EngineSucceeds'
    BY <1>1, <2>1, RanOnce DEF Ledger, Tools, Looked
  <2> QED BY <1>2, <2>1, <2>2 DEF Ledger, Settled, Before
<1>9. CASE Nuclei
  <2>1. /\ place = "nuclei" /\ place' = "collect" /\ UNCHANGED <<report, probe>>
        /\ \E b \in BOOLEAN : Ran("nuclei", b)
    BY <1>9 DEF Nuclei
  <2>2. Executed' = Looked \cup {"crawler", "nuclei"} /\ Once' /\ EngineSucceeds'
    BY <1>1, <2>1, RanOnce DEF Ledger, Tools, Looked
  <2> QED BY <1>2, <2>1, <2>2 DEF Ledger, Settled, Before, Searched
<1>10. CASE Collect
  <2>1. /\ place = "collect" /\ place' = "dedupe" /\ UNCHANGED <<report, probe>>
        /\ (probe # NoProbe) \in BOOLEAN
        /\ Ran("technology_detect", probe # NoProbe)
    BY <1>10 DEF Collect
  <2>2. Executed' = Detected /\ Once' /\ EngineSucceeds'
    BY <1>1, <2>1, RanOnce DEF Ledger, Tools, Looked, Searched, Detected
  <2>3. Detected' = Detected
    BY <2>1 DEF Detected, Searched
  <2> QED BY <1>2, <2>1, <2>2, <2>3 DEF Ledger, Settled, Before
<1>11. CASE DedupeTurn \/ RagTurn \/ AnalysisTurn \/ Deduped \/ RagOff \/ Retrieved
  <2>1. /\ place \in {"dedupe", "rag", "analysis"}
        /\ place' \in {"dedupe", "rag", "analysis"}
        /\ UNCHANGED <<executions, probe, report>>
    BY <1>11 DEF DedupeTurn, RagTurn, AnalysisTurn, Deduped, RagOff, Retrieved, Finish
  <2> QED BY <1>2, <2>1 DEF Ledger, Settled, Once, EngineSucceeds, Executed, Phases,
                            Detected, Searched
<1>12. CASE Analysed
  <2>1. /\ place = "analysis" /\ queue = <<>> /\ place' = "validation"
        /\ UNCHANGED <<report, probe, found>>
        /\ Concluded("analysis_agent", analysed > 0)
    BY <1>12 DEF Analysed, Finish
  <2>2. enriched = <<>> <=> found = <<>>
    BY <2>1, LoopEnds
  <2>3. /\ Executed' = Detected \cup Thought("analysis_agent")
        /\ Once' /\ EngineSucceeds'
    <3>1. CASE enriched = <<>>
      <4>1. UNCHANGED executions
        BY <2>1, <3>1 DEF Concluded
      <4> QED BY <2>1, <2>2, <3>1, <4>1
              DEF Ledger, Thought, Executed, Once, EngineSucceeds
    <3>2. CASE enriched # <<>>
      <4>1. Ran("analysis_agent", analysed > 0) /\ (analysed > 0) \in BOOLEAN
        BY <2>1, <3>2 DEF Concluded
      <4>2. "analysis_agent" \notin Executed /\ Executed = Detected
        BY <2>1 DEF Ledger, Detected, Looked, Searched
      <4> QED BY <1>1, <2>2, <3>2, <4>1, <4>2, RanOnce DEF Ledger, Thought, Tools
    <3> QED BY <3>1, <3>2
  <2>4. Detected' = Detected /\ Thought("analysis_agent")' = Thought("analysis_agent")
    BY <2>1 DEF Detected, Searched, Thought
  <2> QED BY <1>2, <2>1, <2>3, <2>4 DEF Ledger, Settled, Phases
<1>13. CASE ValidationTurn
  <2>1. /\ place = "validation" /\ place' = "validation"
        /\ UNCHANGED <<executions, probe, found, report>>
    BY <1>13 DEF ValidationTurn
  <2> QED BY <1>2, <2>1 DEF Ledger, Settled, Once, EngineSucceeds, Executed, Phases,
                            Detected, Searched, Thought
<1>14. CASE Validated
  <2>1. /\ place = "validation" /\ queue = <<>> /\ place' = "report"
        /\ UNCHANGED <<report, probe, found>>
        /\ Concluded("validation_engine", metrics["attempted"] > 0)
    BY <1>14 DEF Validated, Finish
  <2>2. enriched = <<>> <=> found = <<>>
    BY <2>1, LoopEnds
  <2>3. Executed' = Completed /\ Once' /\ EngineSucceeds'
    <3>1. CASE enriched = <<>>
      <4>1. UNCHANGED executions
        BY <2>1, <3>1 DEF Concluded
      <4> QED BY <2>1, <2>2, <3>1, <4>1
              DEF Ledger, Completed, Thought, Executed, Once, EngineSucceeds
    <3>2. CASE enriched # <<>>
      <4>1. /\ Ran("validation_engine", metrics["attempted"] > 0)
            /\ (metrics["attempted"] > 0) \in BOOLEAN
        BY <2>1, <3>2 DEF Concluded
      <4>2. metrics["attempted"] > 0
        <5>1. metrics["attempted"] = Len(enriched)
          BY <2>1 DEF Tallied, Agrees
        <5> QED BY <3>2, <5>1, LenProperties, EmptySeq DEF IInv, TypeOK
      <4>3. /\ Executed = Detected \cup Thought("analysis_agent")
            /\ "validation_engine" \notin Executed
        BY <2>1 DEF Ledger, Detected, Looked, Searched, Thought
      <4> QED BY <1>1, <2>2, <3>2, <4>1, <4>2, <4>3, RanOnce
              DEF Ledger, Completed, Thought, Tools
    <3> QED BY <3>1, <3>2
  <2>4. Completed' = Completed
    BY <2>1 DEF Completed, Detected, Searched, Thought
  <2> QED BY <1>2, <2>1, <2>3, <2>4 DEF Ledger, Settled, Phases
<1>15. CASE Report \/ Write \/ Refuse \/ Accept \/ Abort \/ Kill
  <2>1. /\ UNCHANGED <<executions, probe, found>>
        /\ Settled' => Settled
        /\ place' \in Writes \cup Ends \cup {"web_probe"}
        /\ place' = "web_probe" => place = "scope"
    <3>1. CASE Report
      BY <3>1 DEF Report, Settled, Writes
    <3>2. CASE Write
      BY <3>2 DEF Write, OpenTemp, FillTemp, Replace, Settled, Writes, Ends
    <3>3. CASE Refuse \/ Accept \/ Abort \/ Kill
      BY <3>3 DEF Refuse, Accept, Abort, Kill, Settled, Ends
    <3> QED BY <1>15, <3>1, <3>2, <3>3
  <2>2. Executed' = Executed /\ (Once <=> Once') /\ (EngineSucceeds <=> EngineSucceeds')
    BY <2>1 DEF Executed, Once, EngineSucceeds
  <2>3. Completed' = Completed
    BY <2>1 DEF Searched, Thought, Detected, Completed
  <2> QED BY <2>1, <2>2, <2>3 DEF Ledger, Writes, Ends
<1> QED BY <1>3, <1>4, <1>5, <1>6, <1>7, <1>8, <1>9, <1>10, <1>11, <1>12, <1>13,
           <1>14, <1>15 DEF Next, Step, Recon, Turn, PhaseEnd

(* The tools of every report are those its scan came to, each once.        *)
THEOREM ExecutionsCorrect == Spec => []ExecutionsComplete
<1>1. Init => Ledger
  BY DEF Init, Ledger, Once, EngineSucceeds, Executed, Settled
<1>2. IInv /\ Tallied /\ Ledger /\ [Next]_vars => Ledger'
  BY LedgerStep
<1>3. Ledger => ExecutionsComplete
  <2> SUFFICES ASSUME Ledger, report # NoReport PROVE ExecutionsComplete
    BY DEF ExecutionsComplete
  <2>1. Executed = Completed
    BY DEF Ledger, Settled
  <2>2. Completed =
          (Tools \ {"crawler", "nuclei", "analysis_agent", "validation_engine"})
          \cup (IF probe # NoProbe THEN {"crawler", "nuclei"} ELSE {})
          \cup (IF found # <<>> THEN {"analysis_agent", "validation_engine"} ELSE {})
    BY DEF Completed, Detected, Looked, Searched, Thought, Tools
  <2>3. Once /\ EngineSucceeds
    BY DEF Ledger
  <2> QED BY <2>1, <2>2, <2>3 DEF ExecutionsComplete, Once, EngineSucceeds
<1> QED BY <1>1, <1>2, <1>3, Inductive, TalliedInvariant, PTL DEF Spec
-----------------------------------------------------------------------------
(* The stages of a scan after the one at hand, and the turns or the steps  *)
(* of a write that this one still takes.                                   *)
StagesLeft ==
  CASE place = "scope"            -> 15
    [] place = "web_probe"        -> 14
    [] place = "network_scan"     -> 13
    [] place = "robots_txt"       -> 12
    [] place = "common_endpoints" -> 11
    [] place = "crawler"          -> 10
    [] place = "nuclei"           -> 9
    [] place = "collect"          -> 8
    [] place = "dedupe"           -> 7
    [] place = "rag"              -> 6
    [] place = "analysis"         -> 5
    [] place = "validation"       -> 4
    [] place = "report"           -> 3
    [] place = "json"             -> 2
    [] place = "html"             -> 1
    [] OTHER                      -> 0

TurnsLeft ==
  CASE place \in Phases -> Len(queue)
    [] place \in Writes -> IF temp = Absent THEN 2
                           ELSE IF temp = Partial THEN 1 ELSE 0
    [] OTHER -> 0

(* A step ends a stage or brings its end nearer: no loop of a scan looks   *)
(* at a candidate again, and no stage is entered twice, whatever the tools *)
(* find and the agents come to.                                            *)
StagesEnd ==
  [][/\ StagesLeft \in Nat /\ TurnsLeft \in Nat
     /\ \/ StagesLeft' < StagesLeft
        \/ StagesLeft' = StagesLeft /\ TurnsLeft' < TurnsLeft]_vars

(* A turn takes one candidate out of the queue.                            *)
LEMMA TurnShortens ==
  ASSUME TypeOK, Turn
  PROVE  /\ place \in Phases /\ place' = place
         /\ Len(queue) \in Nat /\ Len(queue') = Len(queue) - 1
<1>1. queue # <<>> /\ place \in Phases /\ place' = place /\ queue' = Tail(queue)
  <2>1. CASE DedupeTurn
    BY <2>1 DEF DedupeTurn, Take, Phases
  <2>2. CASE RagTurn
    BY <2>2 DEF RagTurn, Take, Phases
  <2>3. CASE AnalysisTurn
    BY <2>3 DEF AnalysisTurn, Take, Phases
  <2>4. CASE ValidationTurn
    BY <2>4 DEF ValidationTurn, Take, Phases
  <2> QED BY <2>1, <2>2, <2>3, <2>4 DEF Turn
<1>2. queue \in Seq(FindingCandidates)
  BY DEF TypeOK
<1> QED BY <1>1, <1>2, HeadTailProperties, LenProperties

(* Every step counts.                                                      *)
LEMMA StageStep ==
  ASSUME TypeOK, Next
  PROVE  \/ StagesLeft' < StagesLeft
         \/ StagesLeft' = StagesLeft /\ TurnsLeft' < TurnsLeft
<1>1. CASE \/ Refuse \/ Accept \/ Recon \/ Collect \/ Report
  <2>1. \/ place = "scope" /\ place' \in {"refused", "web_probe"}
        \/ place = "web_probe" /\ place' = "network_scan"
        \/ place = "network_scan" /\ place' = "robots_txt"
        \/ place = "robots_txt" /\ place' = "common_endpoints"
        \/ place = "common_endpoints" /\ place' \in {"crawler", "collect"}
        \/ place = "crawler" /\ place' = "nuclei"
        \/ place = "nuclei" /\ place' = "collect"
        \/ place = "collect" /\ place' = "dedupe"
        \/ place = "report" /\ place' = "json"
    BY <1>1 DEF Refuse, Accept, Recon, WebProbe, NetworkScan, RobotsTxt,
                CommonEndpoints, AfterEndpoints, Crawl, Nuclei, Collect, Report
  <2> QED BY <2>1 DEF StagesLeft
<1>2. CASE PhaseEnd
  <2>1. \/ place = "dedupe" /\ place' = "rag"
        \/ place = "rag" /\ place' = "analysis"
        \/ place = "analysis" /\ place' = "validation"
        \/ place = "validation" /\ place' = "report"
    BY <1>2 DEF PhaseEnd, Deduped, RagOff, Retrieved, Analysed, Validated, Finish
  <2> QED BY <2>1 DEF StagesLeft
<1>3. CASE Turn
  <2>1. StagesLeft' = StagesLeft
    BY <1>3, TurnShortens DEF StagesLeft
  <2>2. place \in Phases /\ place' \in Phases
    BY <1>3, TurnShortens
  <2>3. ~(place \in Writes) /\ ~(place' \in Writes)
    BY <2>2 DEF Phases, Writes
  <2>4. TurnsLeft = Len(queue)
    BY <2>2, <2>3 DEF TurnsLeft
  <2>5. TurnsLeft' = Len(queue')
    BY <2>2, <2>3 DEF TurnsLeft
  <2> QED BY <1>3, <2>1, <2>4, <2>5, TurnShortens
<1>4. CASE OpenTemp \/ FillTemp
  <2>1. /\ place \in Writes /\ place' = place
        /\ \/ temp = Absent /\ temp' = Partial
           \/ temp = Partial /\ temp' = report
    BY <1>4 DEF OpenTemp, FillTemp
  <2>2. report \in Reports
    BY <2>1 DEF TypeOK
  <2>3. report # Absent /\ report # Partial /\ Absent # Partial
    BY <2>2, NullsAssumption
  <2>4. place \notin Phases
    BY <2>1 DEF Writes, Phases
  <2>5. StagesLeft' = StagesLeft
    BY <2>1 DEF StagesLeft
  <2>6. CASE temp = Absent
    <3>1. TurnsLeft = 2 /\ TurnsLeft' = 1
      BY <2>1, <2>3, <2>4, <2>6 DEF TurnsLeft
    <3> QED BY <2>5, <3>1
  <2>7. CASE temp = Partial
    <3>1. temp' = report
      BY <2>1, <2>3, <2>7
    <3>2. TurnsLeft = 1 /\ TurnsLeft' = 0
      BY <2>1, <2>3, <2>4, <2>7, <3>1 DEF TurnsLeft
    <3> QED BY <2>5, <3>2
  <2> QED BY <2>1, <2>6, <2>7
<1>5. CASE Replace
  <2>1. \/ place = "json" /\ place' = "html"
        \/ place = "html" /\ place' = "answered"
    BY <1>5 DEF Replace
  <2> QED BY <2>1 DEF StagesLeft
<1>6. CASE Abort \/ Kill
  <2>1. place \in Places \ Ends /\ place' \in {"failed", "killed"}
    BY <1>6 DEF Abort, Kill, Start, TypeOK, Ends, Writes
  <2>2. StagesLeft' = 0
    BY <2>1 DEF StagesLeft
  <2>3. StagesLeft \in 1..15
    BY <2>1 DEF StagesLeft, Places, Phases, Writes, Ends
  <2> QED BY <2>2, <2>3
<1> QED
  BY <1>1, <1>2, <1>3, <1>4, <1>5, <1>6 DEF Next, Step, Write

(* A scan has fifteen stages, none entered twice, and a loop as many turns *)
(* as candidates: what ScanEnds asks, but for a thread that is not         *)
(* scheduled at all.                                                       *)
THEOREM ScanPassesItsStages == Spec => StagesEnd
<1>1. TypeOK => StagesLeft \in Nat /\ TurnsLeft \in Nat
  <2> SUFFICES ASSUME TypeOK PROVE StagesLeft \in Nat /\ TurnsLeft \in Nat
    OBVIOUS
  <2>1. Len(queue) \in Nat
    BY LenProperties DEF TypeOK
  <2>2. TurnsLeft \in Nat
    BY <2>1 DEF TurnsLeft
  <2>3. StagesLeft \in Nat
    BY DEF StagesLeft
  <2> QED BY <2>2, <2>3
<1>2. TypeOK /\ [Next]_vars =>
        [/\ StagesLeft \in Nat /\ TurnsLeft \in Nat
         /\ \/ StagesLeft' < StagesLeft
            \/ StagesLeft' = StagesLeft /\ TurnsLeft' < TurnsLeft]_vars
  BY <1>1, StageStep
<1> QED
  BY <1>2, TypeCorrect, PTL DEF Spec, StagesEnd
-----------------------------------------------------------------------------
(* The two loops against PhaseContract.  A candidate is known by its key;  *)
(* its question is what the phase got, its outcome what the loop attached. *)
(* What a phase spends is its own module's.                                *)
Pairs == Titles \X {"crawler", "nuclei", "deterministic_recon"}

Elements(s) == {s[i] : i \in DOMAIN s}

Named(k) == {c \in Elements(queue) \cup Elements(enriched) : Key(c) = k}

StateOf(phase) ==
  CASE place = phase                  -> "open"
    [] place \in {"failed", "killed"} -> "stopped"
    [] OTHER                          -> "closed"

Spent == [s \in {"scan"} |-> 0]

Unanalysed(c) == [c EXCEPT !.analysis = "none"]
OwedAnalysis(q) == \E c \in q : ~PassedOver(c)
FitsCandidate(q, o) ==
  \E c \in q, a \in Verdicts \cup {"insufficient_evidence", "lost"} : o = {a}

AnalysisQuestions ==
  [s \in {"scan"} |-> [k \in Pairs |-> {Unanalysed(c) : c \in Named(k)}]]
AnalysisOutcomes ==
  [s \in {"scan"} |-> [k \in Pairs |-> {c.analysis : c \in Named(k)} \ {"none"}]]
AnalysisState == [s \in {"scan"} |-> StateOf("analysis")]

Analysis ==
  INSTANCE PhaseContract
    WITH Scans <- {"scan"}, Candidates <- Pairs, Limit <- 0, Nothing <- {},
         Owed <- OwedAnalysis, Fits <- FitsCandidate,
         asked <- AnalysisQuestions, outcome <- AnalysisOutcomes,
         spent <- Spent, state <- AnalysisState

Unjudged(c) == [c EXCEPT !.validation = "none", !.final_status = "candidate"]
OwedVerdict(q) == q # {}
FitsAnalysis(q, o) == \E c \in q : \E v \in Verdict(c) : o = {v}

ValidationQuestions ==
  [s \in {"scan"} |-> [k \in Pairs |-> {Unjudged(c) : c \in Named(k)}]]
ValidationOutcomes ==
  [s \in {"scan"} |-> [k \in Pairs |-> {c.validation : c \in Named(k)} \ {"none"}]]
ValidationState == [s \in {"scan"} |-> StateOf("validation")]

Validation ==
  INSTANCE PhaseContract
    WITH Scans <- {"scan"}, Candidates <- Pairs, Limit <- 0, Nothing <- {},
         Owed <- OwedVerdict, Fits <- FitsAnalysis,
         asked <- ValidationQuestions, outcome <- ValidationOutcomes,
         spent <- Spent, state <- ValidationState

(* While a phase is at work its loop takes the steps that PhaseContract    *)
(* allows and no others: a turn gives its own candidate the outcome that   *)
(* is owed and fits, and takes no other's; the loop returns when nothing   *)
(* is owed any more; an error or the end of the process stops it.          *)
LoopsKeepContract ==
  [][/\ place = "analysis" => [Analysis!Next]_(Analysis!vars)
     /\ place = "validation" => [Validation!Next]_(Validation!vars)]_vars

(* What the turns of a loop have not come to, and what they have done.     *)
Bare(s) == \A c \in Elements(s) : c.validation = "none"

Pending ==
  /\ Bare(found)
  /\ place \in Phases => Bare(queue)
  /\ place \in Phases \ {"validation"} => Bare(enriched)
  /\ place = "analysis" =>
       \A c \in Elements(enriched) : c.analysis = "none" <=> PassedOver(c)

LEMMA ElementKeys ==
  ASSUME NEW s, NEW c \in Elements(s)
  PROVE  Key(c) \in Keys(s)
BY DEF Elements, Keys

LEMMA ElementsOf ==
  ASSUME NEW S, NEW s \in Seq(S)
  PROVE  /\ Elements(s) \subseteq S
         /\ s # <<>> => Elements(s) = {Head(s)} \cup Elements(Tail(s))
         /\ \A c \in S : Elements(Append(s, c)) = Elements(s) \cup {c}
<1>1. Elements(s) \subseteq S
  BY ElementOfSeq, LenProperties DEF Elements
<1>2. ASSUME s # <<>> PROVE Elements(s) = {Head(s)} \cup Elements(Tail(s))
  <2>1. /\ Len(s) \in Nat /\ Len(s) >= 1 /\ DOMAIN s = 1..Len(s)
        /\ Head(s) = s[1] /\ DOMAIN Tail(s) = 1..(Len(s) - 1)
        /\ \A i \in 1..(Len(s) - 1) : Tail(s)[i] = s[i + 1]
    BY <1>2, HeadTailProperties, LenProperties, EmptySeq
  <2>2. ASSUME NEW i \in DOMAIN s PROVE s[i] \in {Head(s)} \cup Elements(Tail(s))
    <3>1. CASE i = 1
      BY <2>1, <3>1
    <3>2. CASE i # 1
      <4>1. i - 1 \in DOMAIN Tail(s) /\ Tail(s)[i - 1] = s[i]
        BY <2>1, <3>2
      <4> QED BY <4>1 DEF Elements
    <3> QED BY <3>1, <3>2
  <2>3. ASSUME NEW i \in DOMAIN Tail(s) PROVE Tail(s)[i] \in Elements(s)
    <3>1. i + 1 \in DOMAIN s /\ Tail(s)[i] = s[i + 1]
      BY <2>1
    <3> QED BY <3>1 DEF Elements
  <2>4. Head(s) \in Elements(s)
    <3>1. 1 \in DOMAIN s
      BY <2>1
    <3> QED BY <3>1, <2>1 DEF Elements
  <2> QED BY <2>2, <2>3, <2>4 DEF Elements
<1>3. ASSUME NEW c \in S PROVE Elements(Append(s, c)) = Elements(s) \cup {c}
  <2> DEFINE t == Append(s, c)
  <2>1. /\ Len(s) \in Nat /\ DOMAIN s = 1..Len(s) /\ DOMAIN t = 1..(Len(s) + 1)
        /\ \A i \in 1..Len(s) : t[i] = s[i]
        /\ t[Len(s) + 1] = c
    BY AppendProperties, LenProperties
  <2> HIDE DEF t
  <2>2. DOMAIN t = DOMAIN s \cup {Len(s) + 1} /\ Len(s) + 1 \notin DOMAIN s
    BY <2>1
  <2>3. Elements(t) \subseteq Elements(s) \cup {c}
    BY <2>1, <2>2 DEF Elements
  <2>4. Elements(s) \subseteq Elements(t)
    BY <2>1, <2>2 DEF Elements
  <2>5. c \in Elements(t)
    BY <2>1, <2>2 DEF Elements
  <2> QED BY <2>3, <2>4, <2>5 DEF t
<1> QED BY <1>1, <1>2, <1>3

(* A turn of a loop replaces its own candidate, and all others stay.       *)
LEMMA NamedTurn ==
  ASSUME NEW S, NEW T, queue \in Seq(S), enriched \in Seq(T), queue # <<>>, Shared,
         NEW d \in T, Take(d), Key(d) = Key(Head(queue))
  PROVE  /\ Named(Key(d)) = {Head(queue)}
         /\ \A k : Named(k)' = IF k = Key(d) THEN {d} ELSE Named(k)
<1> DEFINE h == Head(queue)
           others == Elements(Tail(queue)) \cup Elements(enriched)
<1>1. /\ Tail(queue) \in Seq(S) /\ Key(d) \notin Keys(Tail(queue))
      /\ Key(d) \notin Keys(enriched)
  BY TailKeys DEF Shared
<1>2. ASSUME NEW c \in others PROVE Key(c) # Key(d)
  <2>1. CASE c \in Elements(Tail(queue))
    BY <1>1, <2>1, ElementKeys
  <2>2. CASE c \in Elements(enriched)
    BY <1>1, <2>2, ElementKeys
  <2> QED BY <2>1, <2>2
<1>3. Elements(queue) \cup Elements(enriched) = others \cup {h}
  BY ElementsOf
<1>4. Elements(queue)' \cup Elements(enriched)' = others \cup {d}
  <2>1. queue' = Tail(queue) /\ enriched' = Append(enriched, d)
    BY DEF Take
  <2>2. Elements(Append(enriched, d)) = Elements(enriched) \cup {d}
    BY ElementsOf
  <2>3. Elements(queue)' = Elements(Tail(queue))
    BY <2>1 DEF Elements
  <2>4. Elements(enriched)' = Elements(Append(enriched, d))
    BY <2>1 DEF Elements
  <2> QED BY <2>2, <2>3, <2>4
<1> HIDE DEF others
<1>5. Named(Key(d)) = {h}
  BY <1>2, <1>3 DEF Named
<1>6. ASSUME NEW k PROVE Named(k)' = IF k = Key(d) THEN {d} ELSE Named(k)
  <2>1. Named(k)' = {c \in others \cup {d} : Key(c) = k}
    BY <1>4 DEF Named
  <2>2. Named(k) = {c \in others \cup {h} : Key(c) = k}
    BY <1>3 DEF Named
  <2>3. CASE k = Key(d)
    BY <1>2, <2>1, <2>3
  <2>4. CASE k # Key(d)
    BY <2>1, <2>2, <2>4
  <2> QED BY <2>3, <2>4
<1> QED BY <1>5, <1>6

(* The end of a loop and what stops it leave every candidate as it is.     *)
LEMMA NamedKept ==
  ASSUME \/ queue = <<>> /\ queue' = enriched /\ enriched' = <<>>
         \/ UNCHANGED <<queue, enriched>>
  PROVE  \A k : Named(k)' = Named(k)
<1>1. Elements(<<>>) = {}
  BY DEF Elements
<1>2. CASE queue = <<>> /\ queue' = enriched /\ enriched' = <<>>
  <2>1. Elements(queue)' = Elements(enriched) /\ Elements(enriched)' = {}
    BY <1>1, <1>2 DEF Elements
  <2> QED BY <1>1, <1>2, <2>1 DEF Named
<1>3. CASE UNCHANGED <<queue, enriched>>
  BY <1>3 DEF Named, Elements
<1> QED BY <1>2, <1>3

LEMMA BareConcat ==
  ASSUME NEW S, NEW s \in Seq(S), NEW t \in Seq(S), Bare(s), Bare(t)
  PROVE  Bare(s \o t)
<1> DEFINE u == s \o t
<1>1. /\ Len(s) \in Nat /\ Len(t) \in Nat /\ DOMAIN s = 1..Len(s)
      /\ DOMAIN t = 1..Len(t) /\ DOMAIN u = 1..(Len(s) + Len(t))
      /\ \A i \in 1..(Len(s) + Len(t)) :
           u[i] = IF i <= Len(s) THEN s[i] ELSE t[i - Len(s)]
  BY ConcatProperties, LenProperties
<1> HIDE DEF u
<1>2. ASSUME NEW i \in DOMAIN u PROVE u[i] \in Elements(s) \cup Elements(t)
  <2>1. CASE i <= Len(s)
    <3>1. i \in DOMAIN s /\ u[i] = s[i]
      BY <1>1, <2>1
    <3> QED BY <3>1 DEF Elements
  <2>2. CASE ~(i <= Len(s))
    <3>1. i - Len(s) \in DOMAIN t /\ u[i] = t[i - Len(s)]
      BY <1>1, <2>2
    <3> QED BY <3>1 DEF Elements
  <2> QED BY <2>1, <2>2
<1>3. Elements(u) \subseteq Elements(s) \cup Elements(t)
  BY <1>2 DEF Elements
<1> QED BY <1>3 DEF Bare, u

(* The tools find candidates that no phase has seen.                       *)
LEMMA FindsAreBare ==
  ASSUME TypeOK, Bare(found), Recon \/ Collect
  PROVE  Bare(found')
<1>1. \A tool, title : Fresh(tool, title).validation = "none"
  BY DEF Fresh
<1>2. ASSUME NEW n \in Nat, NEW t \in [1..n -> Titles],
             NEW tool \in {"crawler", "nuclei", "deterministic_recon"}
      PROVE  Bare([i \in 1..n |-> Fresh(tool, t[i])])
  BY <1>1 DEF Bare, Elements
<1>3. CASE WebProbe \/ NetworkScan \/ RobotsTxt \/ CommonEndpoints
  BY <1>3 DEF WebProbe, NetworkScan, RobotsTxt, CommonEndpoints
<1>4. CASE Crawl
  <2>1. ASSUME NEW n \in 0..MaxFinds, NEW page \in [1..n -> Surface \cup Disclosures]
        PROVE  Bare([i \in 1..n |-> Fresh("crawler", page[i])])
    <3>1. n \in Nat /\ page \in [1..n -> Titles]
      BY BoundsAssumption DEF Titles
    <3> QED BY <1>2, <3>1
  <2>2. \/ UNCHANGED found
        \/ \E n \in 0..MaxFinds : \E page \in [1..n -> Surface \cup Disclosures] :
             found' = [i \in 1..n |-> Fresh("crawler", page[i])]
    BY <1>4 DEF Crawl
  <2> HIDE DEF Bare
  <2> QED BY <2>1, <2>2
<1>5. CASE Nuclei
  <2>1. ASSUME NEW n \in 0..(MaxFinds - Len(found)), NEW match \in [1..n -> Matches]
        PROVE  Bare(found \o [i \in 1..n |-> Fresh("nuclei", match[i])])
    <3>1. n \in Nat /\ match \in [1..n -> Titles]
      BY DEF Titles
    <3>2. [i \in 1..n |-> Fresh("nuclei", match[i])] \in Seq(FindingCandidates)
      BY <3>1, FreshSequence, StagesAreCandidates, SeqMonotonic
    <3>3. Bare([i \in 1..n |-> Fresh("nuclei", match[i])])
      BY <1>2, <3>1
    <3> QED BY <3>2, <3>3, BareConcat DEF TypeOK
  <2>2. \/ UNCHANGED found
        \/ \E n \in 0..(MaxFinds - Len(found)) : \E match \in [1..n -> Matches] :
             found' = found \o [i \in 1..n |-> Fresh("nuclei", match[i])]
    BY <1>5 DEF Nuclei
  <2> HIDE DEF Bare
  <2> QED BY <2>1, <2>2
<1>6. CASE Collect
  <2> DEFINE a == IF probe # NoProbe /\ probe.ok /\ ~probe.csp
                    THEN <<Fresh("deterministic_recon", Csp)>> ELSE <<>>
             b == IF exposed THEN <<Fresh("deterministic_recon", Admin)>> ELSE <<>>
  <2>1. \A title : Bare(<<Fresh("deterministic_recon", title)>>)
    BY <1>1 DEF Bare, Elements
  <2>2. Bare(<<>>)
    BY DEF Bare, Elements
  <2>3. /\ Fresh("deterministic_recon", Csp) \in FindingCandidates
        /\ Fresh("deterministic_recon", Admin) \in FindingCandidates
    BY FreshIsRaw, StagesAreCandidates DEF Titles
  <2>4. \A c \in FindingCandidates : <<c>> \in Seq(FindingCandidates)
    OBVIOUS
  <2>5. <<>> \in Seq(FindingCandidates)
    BY EmptySeq
  <2>6. /\ a \in Seq(FindingCandidates) /\ b \in Seq(FindingCandidates)
        /\ Bare(a) /\ Bare(b)
    <3> HIDE DEF Bare, FindingCandidates
    <3> QED BY <2>1, <2>2, <2>3, <2>4, <2>5, Zenon
  <2> HIDE DEF a, b
  <2>7. a \o b \in Seq(FindingCandidates) /\ Bare(a \o b)
    BY <2>6, BareConcat, ConcatProperties
  <2>8. Bare(found \o (a \o b))
    BY <2>7, BareConcat DEF TypeOK
  <2>9. found' = found \o (a \o b)
    BY <1>6, Zenon DEF Collect, Synthesized, a, b
  <2> QED BY <2>8, <2>9
<1> QED BY <1>3, <1>4, <1>5, <1>6 DEF Recon

LEMMA BareTake ==
  ASSUME NEW S, NEW T, queue \in Seq(S), enriched \in Seq(T), queue # <<>>,
         NEW d \in T, Take(d), Bare(queue)
  PROVE  /\ Bare(queue') /\ Head(queue) \in S /\ Head(queue).validation = "none"
         /\ Elements(enriched') = Elements(enriched) \cup {d}
<1>1. Elements(queue) = {Head(queue)} \cup Elements(Tail(queue)) /\ Head(queue) \in S
  BY ElementsOf, TailKeys
<1>2. Elements(Append(enriched, d)) = Elements(enriched) \cup {d}
  BY ElementsOf
<1> QED BY <1>1, <1>2 DEF Take, Bare

(* What a turn of the two loops makes of its candidate.                    *)
LEMMA AnalysisMakes ==
  ASSUME Stages, AnalysisTurn
  PROVE  LET h == Head(queue)
         IN  /\ h \in Read /\ queue # <<>>
             /\ \/ PassedOver(h) /\ Take(h)
                \/ /\ ~PassedOver(h)
                   /\ \E a \in Verdicts \cup {"insufficient_evidence", "lost"} :
                        /\ [h EXCEPT !.analysis = a] \in Asked
                        /\ Take([h EXCEPT !.analysis = a])
<1> DEFINE h == Head(queue)
<1>1. h \in Read /\ queue # <<>>
  BY TailKeys DEF AnalysisTurn, Stages
<1>2. \A a \in AnalysisStatuses \cup {"lost"} :
        ~PassedOver(h) => [h EXCEPT !.analysis = a] \in Asked
  BY <1>1, AnalysisStage
<1>3. Verdicts \cup {"insufficient_evidence", "lost"} \subseteq AnalysisStatuses \cup {"lost"}
  BY BoundsAssumption DEF AnalysisStatuses
<1>4. \/ PassedOver(h) /\ Take(h)
      \/ /\ ~PassedOver(h)
         /\ \E a \in Verdicts \cup {"insufficient_evidence", "lost"} :
              Take([h EXCEPT !.analysis = a])
  BY DEF AnalysisTurn
<1> HIDE DEF h
<1>5. CASE PassedOver(h) /\ Take(h)
  BY <1>1, <1>5 DEF h
<1>6. CASE ~PassedOver(h) /\ \E a \in Verdicts \cup {"insufficient_evidence", "lost"} :
                               Take([h EXCEPT !.analysis = a])
  BY <1>1, <1>2, <1>3, <1>6 DEF h
<1> QED BY <1>4, <1>5, <1>6

LEMMA PendingStep ==
  ASSUME TypeOK, Stages, Pending, [Next]_vars
  PROVE  Pending'
<1> USE DEF recon, lists, files, Phases
<1>1. CASE UNCHANGED vars
  BY <1>1 DEF Pending, Bare, Elements, PassedOver, vars
<1>2. Bare(<<>>) /\ Elements(<<>>) = {}
  BY DEF Bare, Elements
<1>3. CASE Recon
  <2>1. place' \notin Phases /\ Bare(found')
    BY <1>3, ReconStage, FindsAreBare DEF Before, Pending
  <2> QED BY <2>1 DEF Pending, Bare, Elements
<1>4. CASE Collect
  <2>1. Bare(found')
    BY <1>4, FindsAreBare DEF Pending
  <2>2. place' = "dedupe" /\ queue' = found' /\ enriched' = <<>>
    BY <1>4 DEF Collect, Stages, Before
  <2> QED BY <1>2, <2>1, <2>2 DEF Pending, Bare, Elements
<1>5. CASE DedupeTurn
  <2>1. /\ place = "dedupe" /\ place' = "dedupe" /\ UNCHANGED found /\ queue # <<>>
        /\ queue \in Seq(Raw) /\ enriched \in Seq(Raw) /\ Bare(queue) /\ Bare(enriched)
    BY <1>5 DEF DedupeTurn, Stages, Pending
  <2>2. CASE queue' = Tail(queue) /\ UNCHANGED enriched
    <3>1. Elements(Tail(queue)) \subseteq Elements(queue)
      BY <2>1, ElementsOf
    <3>2. Bare(queue') /\ Bare(enriched')
      BY <2>1, <2>2, <3>1 DEF Bare
    <3> QED BY <2>1, <3>2 DEF Pending, Bare, Elements
  <2>3. CASE Take(Head(queue))
    <3>1. Head(queue) \in Raw
      BY <2>1, TailKeys
    <3>2. Bare(queue') /\ Bare(enriched')
      BY <2>1, <2>3, <3>1, BareTake DEF Bare
    <3> QED BY <2>1, <3>2 DEF Pending, Bare, Elements
  <2> QED BY <1>5, <2>2, <2>3 DEF DedupeTurn
<1>6. CASE RagTurn
  <2>1. /\ place = "rag" /\ place' = "rag" /\ UNCHANGED found /\ queue # <<>>
        /\ queue \in Seq(Raw) /\ enriched \in Seq(Read) /\ Bare(queue) /\ Bare(enriched)
    BY <1>6 DEF RagTurn, Stages, Pending
  <2>2. PICK knowledge \in BOOLEAN :
          /\ knowledge => Query(Head(queue))
          /\ Take([Head(queue) EXCEPT !.knowledge = knowledge])
    BY <1>6 DEF RagTurn
  <2>3. Head(queue) \in Raw
    BY <2>1, TailKeys
  <2>4. [Head(queue) EXCEPT !.knowledge = knowledge] \in Read
    BY <2>2, <2>3, RagStage
  <2> DEFINE d == [Head(queue) EXCEPT !.knowledge = knowledge]
  <2>5. d \in Read /\ Take(d) /\ d.validation = Head(queue).validation
    BY <2>2, <2>3, <2>4 DEF Raw, FindingCandidates
  <2> HIDE DEF d
  <2>6. /\ Bare(queue') /\ Head(queue).validation = "none"
        /\ Elements(enriched') = Elements(enriched) \cup {d}
    BY <2>1, <2>5, BareTake
  <2>7. Bare(enriched')
    BY <2>1, <2>5, <2>6 DEF Bare
  <2> QED BY <2>1, <2>6, <2>7 DEF Pending, Bare, Elements
<1>7. CASE AnalysisTurn
  <2> DEFINE h == Head(queue)
  <2>1. /\ place = "analysis" /\ place' = "analysis" /\ UNCHANGED found
        /\ queue \in Seq(Read) /\ enriched \in Seq(Asked) /\ Bare(queue) /\ Bare(enriched)
        /\ \A c \in Elements(enriched) : c.analysis = "none" <=> PassedOver(c)
    BY <1>7 DEF AnalysisTurn, Stages, Pending
  <2>2. h \in Read /\ queue # <<>>
    BY <1>7, AnalysisMakes
  <2>3. PICK d \in Asked :
          /\ Take(d) /\ d.validation = h.validation
          /\ d.analysis = "none" <=> PassedOver(d)
    <3>1. CASE PassedOver(h) /\ Take(h)
      <4>1. h \in Asked /\ h.analysis = "none"
        BY <2>2, <3>1, AnalysisStage DEF Read
      <4> QED BY <3>1, <4>1
    <3>2. CASE ~PassedOver(h) /\ \E a \in Verdicts \cup {"insufficient_evidence", "lost"} :
                 [h EXCEPT !.analysis = a] \in Asked /\ Take([h EXCEPT !.analysis = a])
      <4>1. PICK a \in Verdicts \cup {"insufficient_evidence", "lost"} :
              [h EXCEPT !.analysis = a] \in Asked /\ Take([h EXCEPT !.analysis = a])
        BY <3>2
      <4> DEFINE d == [h EXCEPT !.analysis = a]
      <4>2. /\ d.validation = h.validation /\ d.analysis = a
            /\ d.tool = h.tool /\ d.knowledge = h.knowledge
        BY <2>2 DEF Read, FindingCandidates
      <4>3. a # "none"
        BY BoundsAssumption DEF AnalysisStatuses
      <4>4. d \in Asked /\ Take(d)
        BY <4>1
      <4> HIDE DEF d, h
      <4> QED BY <3>2, <4>2, <4>3, <4>4 DEF PassedOver
    <3> QED BY <1>7, <3>1, <3>2, AnalysisMakes
  <2>4. /\ Bare(queue') /\ h.validation = "none"
        /\ Elements(enriched') = Elements(enriched) \cup {d}
    BY <2>1, <2>2, <2>3, BareTake
  <2>5. Bare(enriched')
    BY <2>1, <2>3, <2>4 DEF Bare
  <2>6. \A c \in Elements(enriched') : c.analysis = "none" <=> PassedOver(c)
    BY <2>1, <2>3, <2>4
  <2> HIDE DEF h
  <2> QED BY <2>1, <2>4, <2>5, <2>6 DEF Pending, Bare, Elements, PassedOver
<1>8. CASE ValidationTurn
  <2>1. /\ place = "validation" /\ place' = "validation" /\ UNCHANGED found
        /\ queue \in Seq(Asked) /\ enriched \in Seq(Judged) /\ queue # <<>> /\ Bare(queue)
    BY <1>8 DEF ValidationTurn, Stages, Pending
  <2>2. Bare(queue')
    BY <1>8, <2>1, ValidationTake, BareTake
  <2> QED BY <2>1, <2>2 DEF Pending, Bare, Elements
<1>9. CASE PhaseEnd
  <2>1. CASE RagOff
    <3>1. /\ UNCHANGED <<found, queue, enriched>> /\ place = "rag" /\ place' = "analysis"
          /\ enriched = <<>>
      BY <2>1 DEF RagOff, Stages
    <3> QED BY <1>2, <3>1 DEF Pending, Bare, Elements
  <2>2. CASE Deduped \/ Retrieved \/ Analysed
    <3>1. /\ UNCHANGED found /\ queue' = enriched /\ enriched' = <<>>
          /\ place \in Phases \ {"validation"}
      BY <2>2 DEF Deduped, Retrieved, Analysed, Finish
    <3> QED BY <1>2, <3>1 DEF Pending, Bare, Elements
  <2>3. CASE Validated
    BY <2>3 DEF Validated, Finish, Pending, Bare, Elements
  <2> QED BY <1>9, <2>1, <2>2, <2>3 DEF PhaseEnd
<1>10. CASE Refuse \/ Accept \/ Report \/ Write \/ Abort \/ Kill
  <2>1. place' \notin Phases /\ UNCHANGED found
    BY <1>10 DEF Refuse, Accept, Report, Write, OpenTemp, FillTemp, Replace, Abort,
         Kill, Writes
  <2> QED BY <2>1 DEF Pending, Bare, Elements
<1> QED BY <1>1, <1>3, <1>4, <1>5, <1>6, <1>7, <1>8, <1>9, <1>10 DEF Next, Step, Turn

LEMMA PendingInvariant == Spec => []Pending
<1>1. Init => Pending
  BY DEF Init, Pending, Bare, Elements, Phases
<1>2. IInv /\ Pending /\ [Next]_vars => Pending'
  BY PendingStep DEF IInv
<1> QED BY <1>1, <1>2, Inductive, PTL DEF Spec
-----------------------------------------------------------------------------
(* A key is one of Pairs, and a phase has the scan's state.                *)
LEMMA KeysArePairs ==
  ASSUME NEW c \in FindingCandidates
  PROVE  Key(c) \in Pairs
BY DEF Key, FindingCandidates, Pairs

(* What the mapping makes of a turn that leaves the candidate as d.        *)
LEMMA QuestionsStay ==
  ASSUME NEW k0 \in Pairs, NEW h, NEW d, Named(k0) = {h},
         \A k : Named(k)' = IF k = k0 THEN {d} ELSE Named(k)
  PROVE  /\ Unanalysed(d) = Unanalysed(h) => UNCHANGED AnalysisQuestions
         /\ Unjudged(d) = Unjudged(h) => UNCHANGED ValidationQuestions
         /\ AnalysisQuestions["scan"][k0] = {Unanalysed(h)}
         /\ ValidationQuestions["scan"][k0] = {Unjudged(h)}
<1>1. ASSUME Unanalysed(d) = Unanalysed(h), NEW k \in Pairs
      PROVE  {Unanalysed(c) : c \in Named(k)'} = {Unanalysed(c) : c \in Named(k)}
  BY <1>1
<1>2. ASSUME Unjudged(d) = Unjudged(h), NEW k \in Pairs
      PROVE  {Unjudged(c) : c \in Named(k)'} = {Unjudged(c) : c \in Named(k)}
  BY <1>2
<1>3. {Unanalysed(c) : c \in Named(k0)} = {Unanalysed(h)}
  OBVIOUS
<1>4. {Unjudged(c) : c \in Named(k0)} = {Unjudged(h)}
  OBVIOUS
<1> HIDE DEF Unanalysed, Unjudged, Named
<1> QED BY <1>1, <1>2, <1>3, <1>4 DEF AnalysisQuestions, ValidationQuestions

LEMMA OutcomesTurn ==
  ASSUME NEW k0 \in Pairs, NEW h, NEW d, Named(k0) = {h},
         \A k : Named(k)' = IF k = k0 THEN {d} ELSE Named(k)
  PROVE  /\ AnalysisOutcomes["scan"][k0] = {h.analysis} \ {"none"}
         /\ ValidationOutcomes["scan"][k0] = {h.validation} \ {"none"}
         /\ AnalysisOutcomes' =
              [AnalysisOutcomes EXCEPT !["scan"][k0] = {d.analysis} \ {"none"}]
         /\ ValidationOutcomes' =
              [ValidationOutcomes EXCEPT !["scan"][k0] = {d.validation} \ {"none"}]
<1>1. \A k \in Pairs :
        {c.analysis : c \in Named(k)'} = IF k = k0 THEN {d.analysis}
                                         ELSE {c.analysis : c \in Named(k)}
  OBVIOUS
<1>2. \A k \in Pairs :
        {c.validation : c \in Named(k)'} = IF k = k0 THEN {d.validation}
                                           ELSE {c.validation : c \in Named(k)}
  OBVIOUS
<1>3. /\ {c.analysis : c \in Named(k0)} = {h.analysis}
      /\ {c.validation : c \in Named(k0)} = {h.validation}
  OBVIOUS
<1> HIDE DEF Named
<1>4. AnalysisOutcomes' =
        [AnalysisOutcomes EXCEPT !["scan"][k0] = {d.analysis} \ {"none"}]
  BY <1>1 DEF AnalysisOutcomes
<1>5. ValidationOutcomes' =
        [ValidationOutcomes EXCEPT !["scan"][k0] = {d.validation} \ {"none"}]
  BY <1>2 DEF ValidationOutcomes
<1> QED BY <1>3, <1>4, <1>5 DEF AnalysisOutcomes, ValidationOutcomes

LEMMA MappingKept ==
  ASSUME \A k : Named(k)' = Named(k)
  PROVE  /\ UNCHANGED <<AnalysisQuestions, AnalysisOutcomes, Spent>>
         /\ UNCHANGED <<ValidationQuestions, ValidationOutcomes>>
<1> HIDE DEF Named
<1> QED
  BY DEF AnalysisQuestions, AnalysisOutcomes, Spent, ValidationQuestions,
         ValidationOutcomes

(* A turn of _attach_analyses.                                             *)
LEMMA AnalysisSettles ==
  ASSUME IInv, Pending, AnalysisTurn
  PROVE  Analysis!Next \/ UNCHANGED Analysis!vars
<1> DEFINE h == Head(queue)
           k0 == Key(h)
<1>1. /\ place = "analysis" /\ UNCHANGED place /\ Shared
      /\ queue \in Seq(Read) /\ enriched \in Seq(Asked)
  BY DEF AnalysisTurn, IInv, Stages, Coverage
<1>2. h \in Read /\ h \in FindingCandidates /\ queue # <<>> /\ h.analysis = "none"
  BY AnalysisMakes, StagesAreCandidates DEF IInv, Read
<1>3. k0 \in Pairs
  BY <1>2, KeysArePairs
<1>4. UNCHANGED Spent /\ UNCHANGED AnalysisState /\ AnalysisState["scan"] = "open"
  BY <1>1 DEF Spent, AnalysisState, StateOf
<1>5. CASE PassedOver(h) /\ Take(h)
  <2>1. h \in Asked
    BY <1>2, <1>5, AnalysisStage
  <2>2. Named(k0) = {h} /\ \A k : Named(k)' = IF k = k0 THEN {h} ELSE Named(k)
    BY <1>1, <1>2, <1>5, <2>1, NamedTurn
  <2>3. \A k : Named(k)' = Named(k)
    BY <2>2
  <2> QED BY <1>4, <2>3, MappingKept DEF Analysis!vars
<1>6. CASE ~PassedOver(h) /\ \E a \in Verdicts \cup {"insufficient_evidence", "lost"} :
             [h EXCEPT !.analysis = a] \in Asked /\ Take([h EXCEPT !.analysis = a])
  <2>1. PICK a \in Verdicts \cup {"insufficient_evidence", "lost"} :
          [h EXCEPT !.analysis = a] \in Asked /\ Take([h EXCEPT !.analysis = a])
    BY <1>6
  <2> DEFINE d == [h EXCEPT !.analysis = a]
  <2>2. Key(d) = k0 /\ d.analysis = a /\ Unanalysed(d) = Unanalysed(h)
    BY <1>2 DEF Key, FindingCandidates, Unanalysed
  <2>3. PassedOver(Unanalysed(h)) = PassedOver(h)
    BY <1>2 DEF PassedOver, FindingCandidates, Unanalysed
  <2>4. a # "none"
    BY BoundsAssumption DEF AnalysisStatuses
  <2>5. d \in Asked /\ Take(d)
    BY <2>1
  <2> HIDE DEF d, h, k0
  <2>6. Named(k0) = {h} /\ \A k : Named(k)' = IF k = k0 THEN {d} ELSE Named(k)
    BY <1>1, <1>2, <2>2, <2>5, NamedTurn DEF h, k0
  <2>7. UNCHANGED AnalysisQuestions /\ AnalysisQuestions["scan"][k0] = {Unanalysed(h)}
    BY <1>3, <2>2, <2>6, QuestionsStay
  <2>8. /\ AnalysisOutcomes["scan"][k0] = {}
        /\ AnalysisOutcomes' = [AnalysisOutcomes EXCEPT !["scan"][k0] = {a}]
    <3>1. {h.analysis} \ {"none"} = {} /\ {d.analysis} \ {"none"} = {a}
      BY <1>2, <2>2, <2>4
    <3> QED BY <1>3, <2>6, <3>1, OutcomesTurn
  <2>9. AnalysisOutcomes'["scan"][k0] = {a}
    BY <1>3, <2>8 DEF AnalysisOutcomes
  <2>10. OwedAnalysis(AnalysisQuestions["scan"][k0])
    BY <1>6, <2>3, <2>7 DEF OwedAnalysis
  <2>11. FitsCandidate(AnalysisQuestions["scan"][k0], AnalysisOutcomes'["scan"][k0])
    BY <2>7, <2>9 DEF FitsCandidate
  <2>12. Analysis!Settle("scan", k0)
    BY <1>4, <2>7, <2>8, <2>9, <2>10, <2>11 DEF Analysis!Settle
  <2> QED BY <1>3, <2>12 DEF Analysis!Next
<1> QED BY <1>5, <1>6, AnalysisMakes DEF IInv

(* A turn of _attach_validations.                                          *)
LEMMA ValidationSettles ==
  ASSUME IInv, Pending, ValidationTurn
  PROVE  Validation!Next
<1> DEFINE h == Head(queue)
           k0 == Key(h)
<1>1. /\ place = "validation" /\ UNCHANGED place /\ Shared /\ queue # <<>>
      /\ queue \in Seq(Asked) /\ enriched \in Seq(Judged) /\ Bare(queue)
  BY DEF ValidationTurn, IInv, Stages, Coverage, Pending, Phases
<1>2. h \in Asked /\ h \in FindingCandidates /\ h.validation = "none"
  BY <1>1, TailKeys, ElementsOf, StagesAreCandidates DEF Bare
<1>3. k0 \in Pairs
  BY <1>2, KeysArePairs
<1>4. UNCHANGED Spent /\ UNCHANGED ValidationState /\ ValidationState["scan"] = "open"
  BY <1>1 DEF Spent, ValidationState, StateOf
<1>5. PICK v \in Verdict(h) :
        Take([h EXCEPT !.validation = v, !.final_status = FinalStatus(h, v)])
  BY DEF ValidationTurn
<1> DEFINE d == [h EXCEPT !.validation = v, !.final_status = FinalStatus(h, v)]
<1>6. v \in ValidationStatuses /\ v # "none"
  BY DEF Verdict, ValidationStatuses
<1>7. d \in Judged
  BY <1>2, <1>6, ValidationStage
<1>8. Key(d) = k0 /\ d.validation = v /\ Unjudged(d) = Unjudged(h)
  BY <1>2 DEF Key, FindingCandidates, Unjudged
<1>9. Verdict(Unjudged(h)) = Verdict(h)
  BY <1>2 DEF Verdict, Severe, FindingCandidates, Unjudged
<1>10. Take(d)
  BY <1>5
<1> HIDE DEF d, h, k0
<1>11. Named(k0) = {h} /\ \A k : Named(k)' = IF k = k0 THEN {d} ELSE Named(k)
  BY <1>1, <1>7, <1>8, <1>10, NamedTurn DEF h, k0
<1>12. UNCHANGED ValidationQuestions /\ ValidationQuestions["scan"][k0] = {Unjudged(h)}
  BY <1>3, <1>8, <1>11, QuestionsStay
<1>13. /\ ValidationOutcomes["scan"][k0] = {}
       /\ ValidationOutcomes' = [ValidationOutcomes EXCEPT !["scan"][k0] = {v}]
  <2>1. {h.validation} \ {"none"} = {} /\ {d.validation} \ {"none"} = {v}
    BY <1>2, <1>6, <1>8
  <2> QED BY <1>3, <1>11, <2>1, OutcomesTurn
<1>14. ValidationOutcomes'["scan"][k0] = {v}
  BY <1>3, <1>13 DEF ValidationOutcomes
<1>15. OwedVerdict(ValidationQuestions["scan"][k0])
  BY <1>12 DEF OwedVerdict
<1>16. FitsAnalysis(ValidationQuestions["scan"][k0], ValidationOutcomes'["scan"][k0])
  BY <1>9, <1>12, <1>14 DEF FitsAnalysis
<1>17. Validation!Settle("scan", k0)
  BY <1>4, <1>12, <1>13, <1>14, <1>15, <1>16 DEF Validation!Settle
<1> QED BY <1>3, <1>17 DEF Validation!Next

(* The loops return when nothing is owed any more.                         *)
LEMMA AnalysisCloses ==
  ASSUME IInv, Pending, Analysed
  PROVE  Analysis!Next
<1>1. /\ place = "analysis" /\ place' = "validation" /\ queue = <<>>
      /\ queue' = enriched /\ enriched' = <<>> /\ enriched \in Seq(Asked)
      /\ \A c \in Elements(enriched) : c.analysis = "none" <=> PassedOver(c)
  BY DEF Analysed, Finish, IInv, Stages, Pending
<1>2. UNCHANGED <<AnalysisQuestions, AnalysisOutcomes, Spent>>
  BY <1>1, NamedKept, MappingKept
<1>3. /\ AnalysisState["scan"] = "open"
      /\ AnalysisState' = [AnalysisState EXCEPT !["scan"] = "closed"]
  BY <1>1 DEF AnalysisState, StateOf
<1>4. ASSUME NEW c \in Elements(enriched)
      PROVE  c.analysis # "none" <=> ~PassedOver(Unanalysed(c))
  <2>1. c \in FindingCandidates
    BY <1>1, ElementsOf, StagesAreCandidates
  <2>2. PassedOver(Unanalysed(c)) <=> PassedOver(c)
    BY <2>1 DEF PassedOver, Unanalysed, FindingCandidates
  <2> QED BY <1>1, <2>2
<1>5. ASSUME NEW k \in Pairs
      PROVE  AnalysisOutcomes["scan"][k] # {} <=> OwedAnalysis(AnalysisQuestions["scan"][k])
  <2>1. Named(k) \subseteq Elements(enriched)
    BY <1>1 DEF Named, Elements
  <2>2. AnalysisOutcomes["scan"][k] # {} <=> \E c \in Named(k) : c.analysis # "none"
    BY DEF AnalysisOutcomes
  <2>3. OwedAnalysis(AnalysisQuestions["scan"][k])
          <=> \E c \in Named(k) : ~PassedOver(Unanalysed(c))
    BY DEF AnalysisQuestions, OwedAnalysis
  <2> QED BY <1>4, <2>1, <2>2, <2>3
<1>6. Analysis!Close("scan")
  BY <1>2, <1>3, <1>5 DEF Analysis!Close, OwedAnalysis
<1> QED BY <1>6 DEF Analysis!Next

LEMMA ValidationCloses ==
  ASSUME IInv, Validated
  PROVE  Validation!Next
<1>1. /\ place = "validation" /\ place' = "report" /\ queue = <<>>
      /\ queue' = enriched /\ enriched' = <<>> /\ enriched \in Seq(Judged)
  BY DEF Validated, Finish, IInv, Stages
<1>2. UNCHANGED <<ValidationQuestions, ValidationOutcomes, Spent>>
  BY <1>1, NamedKept, MappingKept
<1>3. /\ ValidationState["scan"] = "open"
      /\ ValidationState' = [ValidationState EXCEPT !["scan"] = "closed"]
  BY <1>1 DEF ValidationState, StateOf
<1>4. \A c \in Elements(enriched) : c.validation # "none"
  BY <1>1, ElementsOf DEF Judged, ValidationStatuses
<1>5. ASSUME NEW k \in Pairs
      PROVE  ValidationOutcomes["scan"][k] # {}
               <=> OwedVerdict(ValidationQuestions["scan"][k])
  <2>1. Named(k) \subseteq Elements(enriched)
    BY <1>1 DEF Named, Elements
  <2>2. ValidationOutcomes["scan"][k] # {} <=> \E c \in Named(k) : c.validation # "none"
    BY DEF ValidationOutcomes
  <2>3. OwedVerdict(ValidationQuestions["scan"][k]) <=> \E c \in Named(k) : TRUE
    BY DEF ValidationQuestions, OwedVerdict
  <2> QED BY <1>4, <2>1, <2>2, <2>3
<1>6. Validation!Close("scan")
  BY <1>2, <1>3, <1>5 DEF Validation!Close, OwedVerdict
<1> QED BY <1>6 DEF Validation!Next

LEMMA LoopsStop ==
  ASSUME Abort \/ Kill
  PROVE  /\ place = "analysis" => Analysis!Next
         /\ place = "validation" => Validation!Next
<1>1. place' \in {"failed", "killed"} /\ UNCHANGED <<queue, enriched>>
  BY DEF Abort, Kill, lists
<1>2. /\ UNCHANGED <<AnalysisQuestions, AnalysisOutcomes, Spent>>
      /\ UNCHANGED <<ValidationQuestions, ValidationOutcomes>>
  BY <1>1, NamedKept, MappingKept
<1>3. ASSUME place = "analysis" PROVE Analysis!Next
  <2>1. /\ AnalysisState["scan"] = "open"
        /\ AnalysisState' = [AnalysisState EXCEPT !["scan"] = "stopped"]
    BY <1>1, <1>3 DEF AnalysisState, StateOf
  <2>2. Analysis!Stop("scan")
    BY <1>2, <2>1 DEF Analysis!Stop
  <2> QED BY <2>2 DEF Analysis!Next
<1>4. ASSUME place = "validation" PROVE Validation!Next
  <2>1. /\ ValidationState["scan"] = "open"
        /\ ValidationState' = [ValidationState EXCEPT !["scan"] = "stopped"]
    BY <1>1, <1>4 DEF ValidationState, StateOf
  <2>2. Validation!Stop("scan")
    BY <1>2, <2>1 DEF Validation!Stop
  <2> QED BY <2>2 DEF Validation!Next
<1> QED BY <1>3, <1>4

LEMMA LoopStep ==
  ASSUME IInv, Pending, [Next]_vars
  PROVE  /\ place = "analysis" => [Analysis!Next]_(Analysis!vars)
         /\ place = "validation" => [Validation!Next]_(Validation!vars)
<1>1. CASE UNCHANGED vars
  <2>1. UNCHANGED <<queue, enriched>> /\ UNCHANGED place
    BY <1>1 DEF vars
  <2>2. UNCHANGED AnalysisState /\ UNCHANGED ValidationState
    BY <2>1 DEF AnalysisState, ValidationState, StateOf
  <2> QED
    BY <2>1, <2>2, NamedKept, MappingKept DEF Analysis!vars, Validation!vars
<1>2. CASE AnalysisTurn
  <2>1. place = "analysis"
    BY <1>2 DEF AnalysisTurn
  <2> QED BY <1>2, <2>1, AnalysisSettles
<1>3. CASE ValidationTurn
  <2>1. place = "validation"
    BY <1>3 DEF ValidationTurn
  <2> QED BY <1>3, <2>1, ValidationSettles
<1>4. CASE Analysed
  <2>1. place = "analysis"
    BY <1>4 DEF Analysed, Finish
  <2> QED BY <1>4, <2>1, AnalysisCloses
<1>5. CASE Validated
  <2>1. place = "validation"
    BY <1>5 DEF Validated, Finish
  <2> QED BY <1>5, <2>1, ValidationCloses
<1>6. CASE Abort \/ Kill
  BY <1>6, LoopsStop
<1>7. CASE \/ Refuse \/ Accept \/ Recon \/ Collect \/ DedupeTurn \/ RagTurn
           \/ Deduped \/ RagOff \/ Retrieved \/ Report \/ Write
  <2>1. place \notin {"analysis", "validation"}
    BY <1>7 DEF Refuse, Accept, Recon, WebProbe, NetworkScan, RobotsTxt,
         CommonEndpoints, Crawl, Nuclei, Collect, DedupeTurn, RagTurn, Deduped,
         RagOff, Retrieved, Finish, Report, Write, OpenTemp, FillTemp, Replace, Writes
  <2> QED BY <2>1
<1> QED BY <1>1, <1>2, <1>3, <1>4, <1>5, <1>6, <1>7 DEF Next, Step, Turn, PhaseEnd

(* The two loops of a scan are phases as PhaseContract has them, of which  *)
(* ContractKept says the same for AnalysisAgent and ValidationEngine: the  *)
(* scan takes no more from a phase than what these promise.                *)
THEOREM LoopsArePhases == Spec => LoopsKeepContract
<1>1. IInv /\ Pending /\ [Next]_vars =>
        [/\ place = "analysis" => [Analysis!Next]_(Analysis!vars)
         /\ place = "validation" => [Validation!Next]_(Validation!vars)]_vars
  BY LoopStep
<1> QED BY <1>1, Inductive, PendingInvariant, PTL DEF Spec, LoopsKeepContract
=============================================================================
