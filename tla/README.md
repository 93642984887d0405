# Specifications of RedAgent

RedAgent (`src/app`, "PentestFlow" in its reports) runs a reconnaissance and
validation pipeline against one target: it probes the target, crawls it, turns
what it saw into finding candidates, lets a language model analyse them, repeats
single requests to validate them, and writes a report. These modules model the
parts of it that keep state across steps or are shared by concurrent scans.
`tlc -config <cfg> <MC module>` checks a run of the table below, `tlapm` checks
the `*Proofs` modules.

## The system

| Part | Source (under `src/app`) | State | Operations | What makes it correct |
|---|---|---|---|---|
| scan workflow | `orchestrator/workflow.py`, `orchestrator/supervisor.py` | lists of tool executions and candidates of one scan | `run_initial_recon` and its phases, `_run_tool`, `_attach_*` | a phase handles every candidate; a failing tool costs its own results and nothing else |
| validation engine | `validation/router.py`, `agents/validation_agent.py` | requests made for a finding, requests used by the scan | `validate_candidate`, `ValidationContext.request`, five validators | the budgets hold on the network; a verdict rests on complete evidence for the question asked |
| result cache | `storage/cache.py` | SQLite rows with an expiry time, shared by all scans | `get`, `set`, `delete` | only results that may be repeated are reused, under the key they were made for |
| crawler | `tools/crawler.py` | the queue, the visited URLs, the pages | `crawl_web`, `_discover_links_from_scripts` | no page twice, limits on pages, depth and requests, breadth first, nothing missed below the limits |
| knowledge base | `rag/knowledge_base.py` | index and manifest files, a SQLite result cache | `rebuild`, `search`, `status` | an answer is of the version it was asked of; the files are whole and agree |
| retrieval documents | `rag/loader.py`, `rag/chunker.py`, `rag/embeddings.py`, `rag/retriever.py` | none | load, split, embed | every passage ends up in a chunk of limited length, and splitting ends |
| analysis agent | `agents/analysis_agent.py`, `llm/` | a result cache | `analyze` with one retry | a result that failed is never cached; a verdict is gated by its confidence |
| reports | `reports/generator.py` | two files per scan | `write_scan_reports`, `resolve_final_status` | a reader never finds half a file; one status per finding |
| reconnaissance tools | `tools/` | none | one request or subprocess each | partial results survive a failure |
| HTTP layer, scope guard | `tools/http_utils.py`, `core/scope.py`, `security/guardrails.py` | none | `perform_request`, `validate` | no request leaves the scope |
| evaluation | `eval/` | one result file per benchmark and profile | match, measure, compare | a finding answers for at most one truth, and for the one it fits; the numbers of a result add up; a comparison that passes hides no loss |
| API and command line | `main.py` | none | endpoints and commands | see below |

How they interact: a scan is one thread from `run_initial_recon` to the report,
and calls everything else. The API's endpoints are synchronous functions, which
FastAPI runs in a thread pool, and the command line is a process of its own; so
scans, rebuilds and searches run at the same time. They share no memory but the
files: the validation, analysis and retrieval caches (SQLite), the index, the
manifest and the reports. No lock is held across two operations on any of them.

The behaviours that are hard to test follow from that: a step of another scan
between the read and the purge of a cache row, a rebuild between the steps of a
search, a call killed between two files, a budget that runs out in the middle
of a validator, a cached result that brings the cost of another scan along, a
crawl whose web is a tangle of cycles, a text cut just where a passage is, a
greedy matching whose order decides. `PROJECT.json` lists them at their lines,
with the properties that cover each.

## The modules

| Module | Models | Used by |
|---|---|---|
| `ValidationEngine` | the validation phase of any number of concurrent scans over one result cache | `MCValidationEngine`, `ValidationEngineProofs` |
| `Crawler` | the crawl of one target | `MCCrawler`, `CrawlerProofs` |
| `KnowledgeBase` | concurrent rebuilds and searches over the shared files | `MCKnowledgeBase`, `KnowledgeBaseProofs` |
| `AnalysisAgent` | the analysis phase of any number of concurrent scans over one result cache | `MCAnalysisAgent`, `AnalysisAgentProofs` |
| `PhaseContract` | abstract: what a phase owes its scan, whatever it does to get there | `ValidationEngine`, `AnalysisAgent` (as `Contract`), `ScanPipelineProofs` (as `Analysis` and `Validation`) |
| `ScanPipeline` | one scan from the request to its two report files | `MCScanPipeline`, `ScanPipelineProofs` |
| `Chunker` | the splitting of a list of documents | `MCChunker`, `ChunkerProofs` |
| `Evaluator` | evaluations of a benchmark, their result files and comparisons | `MCEvaluator`, `EvaluatorProofs` |

Each module has one action for every stretch of code between two points where
another thread, process or the target can make a difference, and a comment on
every definition that says which. The `MC` modules only give the constants their
small values. Definitions marked "Mutant" are plausible bugs; no specification
uses them, they stand beside the definition they would replace and show that a
property is able to fail.

### ValidationEngine

`now`, `cache` are the clock and the table `validation_cache`; everything else
is indexed by scan. `todo`, `cand` are the position in the loop of
`_attach_validations`; `used` is `scan_requests_used`; `made` is
`ValidationContext.requests_made`; `seen` holds the responses of the validator
at work, `pend` its result before it is stored, `results` what is attached to
the candidates. `sent` counts what really went out on the network and is read by
no action. `analysis` is the input of the phase: any analysis with a recommended
type and a reason, or none.

`Skip` is an early return of `validate_candidate` in the code's order
(`SkipReason`), `Admit` goes on to the cache: `CacheHit`, `CacheMiss` and
`CacheDelete` are `SQLiteJSONCache.get`, whose delete is a transaction of its
own. `Decline` is a validator that returns before its first request,
`RequestRefused`, `RequestFails` and `RequestAnswered` are one call of
`ValidationContext.request`, `Settle` stores and records. `Abort` is an SQLite
error, which nothing catches. `Record` is everything the loop does with a
result.

A response is reduced to what the validators tell apart: how access went and
whether the header asked for is there. Candidates are taken in any order, where
the code has a list. Confidences, evidence texts and durations are left out. A
failure of the network is any of the reasons `map_exception_to_reason` makes of
one; one with no reason of its own ("unexpected_response") is stored for the time
to live like a verdict, which the model shows and does not judge. The reason of a
recommendation is half of the key, but no result depends on it, so the runs have
one; candidates of severity INFO are in `validation_ends` only.

### Crawler

`queue`, `visited`, `pages`, `discovered`, `total` and `deepest` are the
variables of `crawl_web`; `cur`, `links`, `found` and `scripts` the page at
hand, its own links, those its scripts added, and the scripts still to fetch.
The web is not a constant: a page carries any set of links, chosen when it is
fetched. `FetchPage` takes a URL from the queue and fetches it, `FetchFails` is
the `except RuntimeError` of the same lines; `FetchScript` and `ScriptFails` are
one turn of the loop of `_discover_links_from_scripts`; `AddPage`, `Follow` and
`NextPage` are the end of the page; `Abort` is the errors that loop does not
catch, which lose the crawl in `_run_tool`.

Links come after `_normalize_links`: canonical, of the origin and in scope. The
test `if url in visited: continue` after the pop never finds anything; the
invariant `NoUrlTwice` is why, and the branch is left out.

### KnowledgeBase

`docs` is what the knowledge directory holds, `index` and `manifest` what is in
the two files, `cache` the table `rag_cache`. A worker is one call of `rebuild`
or `search`. `write_text` truncates and then writes, so a file passes through
`Empty`, and two writes of different contents may leave `Garbage`; a call that is
killed while it writes may leave `Garbage` too. A search that finds no index
rebuilds it first. `Edit` is a person editing documents. `alone` remembers which
rebuilds overlapped and is read by no action.

A version stands for its documents: that `_compute_version` (the first 16 digits
of a SHA-256) does not collide is assumed. The ranking is left out, so an answer
is its query, its version and how many results it may hold; an index with fewer
chunks than that is not modelled.

### AnalysisAgent

`todo`, `cand`, `pc` are a scan's place in the loop of `_attach_analyses`;
`context` is what `_attach_rag_contexts` left for it, chosen at the start. A
candidate is a profile (`Profiles`): whose it is, whether it is a simple finding,
what its text makes the agent infer, its scanner confidence and its evidence.
`Route` picks one of two models; `PassOver` and `Unavailable` settle a candidate
without one. `CacheHit`, `CacheMiss` and `CacheDelete` are the cache's `get`;
`Call` and its outcomes `Answered`, `AnswerRejected`, `AnswerNotJson` (which
retries once) and `ProviderFails` are the model; `Store` is `set` when
`Cacheable`. `CacheError` is an SQLite error, which the loop turns into a lost
analysis. `misses` and
`recorded` are the scan's metrics, `calls` what was really called.

Confidences are whole thirds of a hundredth of a percent, in which the weights
and evidence steps of `ConfidenceEvaluator` are exact. Prompts, texts and the
screening of evidence are left out.

### PhaseContract

The abstract phase. A scan spends requests or calls one at a time (`Spend`) up to
a `Limit`, gives a candidate that is owed an outcome one that `Fits` its question,
and never a second one (`Settle`), and closes when nothing is owed (`Close`) or
stops at an exception (`Stop`). There is no cache, no other scan, no clock and no
retry in it: that those cannot be seen from outside is what the refinement says.

`ValidationEngine` maps it with its analyses as questions, the limit of requests
of a scan as `Limit`, `sent` as what is spent and "a grounded result of the
validator asked for" as `Fits`; a result from the cache is a `Settle` like any
other, which nobody spent anything for. `AnalysisAgent` maps its inputs with the
model they are routed to as questions, two calls for each candidate as `Limit`,
and "gated for this input, by this model, or lost" as `Fits`; candidates passed
over are owed nothing, and `CacheError` is an outcome here (the loop catches it)
where `Abort` is a `Stop` there. Steps between two such points stutter.

`ScanPipeline` has both phases as loops over a list, whose outcomes it takes as
given. `ScanPipelineProofs` maps each loop to the same contract, with the
candidates as the loop found them as questions, so that a scan takes no more from
a phase than the phase's own module promises.

### ScanPipeline

`place` is the statement of `run_initial_recon`, of `run_scan` or of
`write_scan_reports` the scan is at. Each tool is one action that appends its
execution and may fail, as `_run_tool` has it; `Collect` adds the synthesized
candidates. The four loops (`DedupeTurn`, `RagTurn`, `AnalysisTurn`,
`ValidationTurn`) take a candidate from `queue` and append it to `enriched`, one
per step, and a phase's end hands the list on. `Report` builds the report;
`OpenTemp`, `FillTemp` and `Replace` are `_atomic_write_text`, once for each
file. `Abort` is any exception that leaves the scan, `Kill` the end of the
process, possible at every step.

How an analysis or a validation of one candidate comes about is the business of
`AnalysisAgent` and `ValidationEngine`; here it is any outcome they may have.
What a tool reads in a response is likewise given: any pages, any matches, any
probe. A title stands for its candidate's endpoint and id. The texts of a
finding, which the report sanitizes, and the order of the findings are left out.
The `except` of `build_final_findings`, which would drop a candidate, is left
out: whatever the phases attach is well-formed where `_build_final_finding`
reads it.

### Chunker

`rest`, `current`, `paragraph` and `parts` are `text` from the next paragraph on
and the variables of `_split_content`; `at`, `index` and `chunks` are the two
loops of `chunk_documents`. A text is a sequence of characters; `Strip` and
`Piece` are `str.strip` and the list comprehension over `split("\n\n")`, one
paragraph at a time. `Join` is the `continue` after `current = candidate`,
`Overlap` the one after a part with the end of the last one in front, `Cut` what
falls through to the `while`, `Slice` a turn of it, `KeepRest` its end. The
`if not paragraphs` of the code is left out: a text that is not blank has one.
The two settings are any natural numbers, as `config.py` takes them (negative ones
are left out); with an overlap of the size or more, `SliceStep` is 0 and a long
paragraph is sliced without end, which `MaxParts` bounds.

### Evaluator

`Begin` is `EvaluationBenchmarkRunner.run` up to the end of the scan, whose
findings and cost are inputs; `MatchTruth` and `MissTruth` are one turn of the
loop of `match_findings`, `match` records it; `Save` writes the profile's result,
`EvaluationFails` is the `KeyError` of `build_severity_metrics`, which leaves the
older file. `Compare` is `eval compare` on two of the files. What of a result no
comparison reads (the status and severity metrics, the attribution) is written as
operators of the last matching.

Scores are exact in hundredths; the floating-point sums of the code put the same
lists in the same order and on the same side of 0.7 (there are 32). Percentages of
a comparison are pairs, compared by multiplication; exactly at a limit the
rounding of the code decides, so the model allows both answers. Texts are members
of a small set, with `_normalize_text`, `_normalize_endpoint`, `in` and `endswith`
as the functions and relations `Normal`, `NormalEndpoint`, `Within` and
`EndsWith`; `MCEvaluator` takes them from the fixture `juice-shop-safe-v1.json`.
Findings are as `ScanPipeline`'s report leaves them, with unique ids; the
duration of a scan is whole seconds.

## The runs

| Run | Question | Instance |
|---|---|---|
| `validation_shared` | what may be reused, what it costs, does the phase keep its contract | 2 scans, 2 candidates, 2 validators, limits 2 and 3, rows that expire once |
| `validation_ends` | does each phase end, whatever another scan does to the cache (hits, expiry, purges) and wherever a validator is stopped by its budget; threads, counters and rows keep their states | 2 scans, 2 candidates (one INFO), the validators `validation_shared` leaves out and a type without one, limits 2 and 3, rows that expire once, fairness |
| `counted_requests` (violation) | are counted requests made | 2 scans, 2 candidates |
| `crawler_web` | the limits, nothing missed below them, no URL twice, shortest depths, does every crawl end | 5 URLs, page limit 4, depth 2, 1 script, 7 sets of links, fairness |
| `knowledge_safe` | answers, rows and files under rebuilds, edits and kills | 3 workers, 2 versions, 2 queries |
| `knowledge_top_k` (violation) | is `top_k` respected | 2 workers, `top_k` 1 and 3, no kills |
| `chunking` | no chunk too long, no passage torn, does the cutting end where it should and only there | texts of up to 3 paragraphs of 7 forms, alone or, up to 6 characters, in pairs, sizes 1, 3, 4, 6 with overlaps 0, 2, 4 up to one above the size |
| `analysis_shared` | what is stored, what it costs, does the phase keep its contract | 2 scans, 2 candidates, each with or without knowledge, 2 answers |
| `analysis_profiles` | whose analysis a candidate gets, does every phase end | 3 scans of different settings over one cache, 1 candidate, 3 answers, rows that expire, fairness |
| `pipeline_reports` | what the report holds and what is on disk, wherever a scan ends, and that it ends | up to 2 finds of 3 titles, 2 deterministic candidates, fairness |
| `evaluation` | is every truth matched with what fits it best, do the numbers add up, what does a passed comparison promise | 5 fixtures of up to 3 truths, reports of up to 3 of 6 findings (two alike), 3 costs, 2 evaluations |
| `evaluation_severity` (violation) | is a false positive counted under its severity | the same |

The bounds. Two scans and one expiry are enough for every order of read, purge
and store of one row. Limits
below the sum of what the validators want make both budgets run out at every
position of a run. Four URLs are the least with two paths of different lengths
to one page, a fifth is left over at the page limit of four. `LinkSets` names what
a page or a script may link to: sets that overlap, one back to the target and one
larger than the room left; the proofs hold for any. Three workers are two overlapping rebuilds and a
search. Three
paragraphs with sizes up to 6 reach every way a paragraph can meet the part before
it: it fits, it fits behind the overlap, it does not, it is cut, and what is left
of it meets the next one; letters differ by their place, so a passage found
elsewhere by chance does not count. A greedy choice loses a truth when an earlier
one takes the finding a later one needs although another would have done for it:
`<<Header, AnyHeader, AdminPage>>` with the third and the fourth finding is that
case (one found where two could be, as few as `HalfOfBest` allows), and
`<<AnyHeader, Header>>` is the order in which both are found. Two files
are what a comparison needs. Two finds
beside the two deterministic candidates are a match printed twice, a crawled
page with and one without retrieval, or one of each; every other candidate
would go through the loops as these do, one at a time. `MaxFinds` bounds them in
`Crawl` and `Nuclei`, `Verdicts` the statuses of an analysis, of which only
"likely" is treated differently. `MaxTime` bounds the clock in `Tick`, `MaxRuns` the evaluations in `Begin`,
`MaxParts` the parts of a text in `Slice`: it is 24, which no text reaches whose
cutting ends, and keeps the endless ones finite. No other counter needs a bound,
since every other scan, crawl, call and text is finite. Deadlock is not checked: every run
ends with all threads done.

Symmetry is used over scans, workers, versions and queries, in runs without
liveness.

Fairness. A scan's thread is a loop without waiting: weak fairness of `Step`
says it is scheduled, and that every request ends, which its timeout in
`perform_request`, in `OllamaProvider._request_json` and in the two
`subprocess.run` makes it do. A step of `ScanPipeline` that stands for a whole
crawl or a whole analysis ends because those modules' runs say so. The clock,
`Abort`, `Crash`, `Kill` and `Edit` have no fairness: nothing makes them happen.
`ScansEnd` is checked for two scans over one cache, where rows are served, expire
and are purged by either (the one candidate that is validated has the same rows in
both); an `Abort` counts as an end there and in `CrawlEnds`, so
neither says anything of the work that is lost with one. The calls of `KnowledgeBase` are straight lines without
a loop or a wait, for which no liveness is stated, and so are those of `Evaluator`;
that `Chunker` ends, or does not, is stated by what each turn uses up
(`CuttingEndsAsSet`, `CuttingAdvances`) instead.

## The proofs

For any number of scans, candidates, URLs and calls, and any limits:

- `ValidationEngineProofs`. `TypeOK` says what a thread holds at each place.
  `Settlement` (a candidate is waiting, at hand or settled) makes
  `DoneIsComplete` inductive. `RunInv` carries the evidence of a run from its
  requests to the pending result and the cache, which gives
  `CacheHoldsReusableRuns`, and from there `VerdictsAreGrounded` also for
  results of other scans. `AccountInv` relates what was sent to what is on the
  account: `sent <= used + made`, and a run that is making requests still fits
  the remaining budget; `TrafficWithinBudget` follows although `used` itself may
  pass the limit, and `OverrunOnlyByReuse` says how far. `ContractKept` is the
  refinement: under these invariants `Skip`, `CacheHit` and `Settle` are
  `Contract!Settle`, a request is `Contract!Spend` or, when the guard stops it, a
  stutter, `Finish` is `Contract!Close` by `DoneIsComplete`, `Abort` is
  `Contract!Stop`, and every other step stutters. `ScansSpendSteps`: a scan takes
  at most seven steps for a candidate and each reduces what it has left, while no
  step of another scan touches its state; it needs `AnswersAwaited`, that a
  validator with a request to send has sent two at most.
- `CrawlerProofs`. `IInv` is the conjunction of the invariants with `Counted`
  (each request belongs to a visited URL, and scripts only to pages that left
  room), `Levels` (the queue holds at most two consecutive depths, in order),
  `AtHand` and `Explored` (every link of a page is accounted for unless the
  frontier is full). All six safety properties follow from it. `WorkShrinks` adds
  up what a crawl may still do: the pages it may still visit, by
  `FrontierBounded`, each with the most that a turn can cost, and the rest of the
  turn at hand. Each step reduces that number, however the pages link.
- `KnowledgeBaseProofs`. Answers and rows keep to their version, and `FilesAreWhole`
  by what each rebuild that ran alone has written so far.
- `AnalysisAgentProofs`. An analysis carries the key it was made for from the
  call through the cache to the candidate, which gives `AnalysesAreTheirOwn` and
  `CacheHoldsAnswers`; `LikelyNeedsTheScanner` bounds the score of an analysis
  from the weights alone; a candidate is waiting, at hand or settled, and its
  calls are counted by the place of the scan. `ContractKept` is the refinement,
  by the same kind of argument, where `CallsBounded` with a count of the
  candidates taken gives the limit. `ScansSpendSteps` is as for validation, with
  six steps for a candidate: an answer that is no JSON is asked for once more.
- `ScanPipelineProofs`. `Stages` says of every list what its candidates have been
  through (`Raw`, `Read`, `Asked`, `Judged`), which carries a fact from the crawl
  to the report: `ModelIsSparedForPages` and `VerdictsAgree`. `Coverage` says that
  the two lists of a loop share out the keys that were found; it makes
  `ReportCoversFinds` inductive, which names only the report and the finds.
  `Files` ties the two files to the place of the scan. `Tallied` says of the
  metrics what they count among the candidates validated so far, by a bijection
  that adds one to a set of indexes, and gives `SummaryMatches` when the report is
  built; `Ledger` says which tools have run at each place of a scan, which gives
  `ExecutionsComplete`, with the two agents in the list just when something was
  found, as `Coverage` knows. `StagesEnd`: each step enters a later stage or takes
  a candidate, or a step of a write, out of what the stage has left.
  `LoopsKeepContract`: while the scan is in its analysis or validation loop, each
  step is one of `PhaseContract` with the scan's candidates in it (by their keys,
  whose uniqueness `Coverage` gives): a turn settles its own candidate and touches
  no other, the loop returns once nothing is owed (`Pending`), an error stops it.
- `EvaluatorProofs`. A truth's match was the best of the findings then unmatched,
  and the unmatched ones only become fewer: `NoBetterLeft` is inductive as it
  stands. `ResultAddsUp` counts: the matched findings are a bijective image of the
  truths found, and the severities and statuses are parts of the two lists. `HalfOfBest`
  is an exchange argument: a truth missed that another matching serves wanted a
  finding that went to an earlier truth (else it was unmatched and good enough
  when the truth had its turn), so the truths that matching serves and the code
  misses are at most as many as the truths found.
  `ComparisonCorrect` reduces the four checks to inequalities between products of
  natural numbers; `FilesInv` says that the files of one benchmark have as many
  truths.
- `ChunkerProofs`. No part, no current text and no chunk is longer than the size
  (`TypeOK`). `CuttingAdvances`: each step leaves less, in the order of documents,
  stages, the text ahead and the paragraph in hand, except a slice where the overlap
  is the size or more. `CuttingEndsAsSet` has two halves. `CountInv` makes
  `PartsBounded` inductive, for an overlap below the size: a part is paid for by a
  paragraph taken, of which a text has one more than breaks, or by a slice, which
  takes a step off the text. `LongInv` makes `LongParagraphsStay` inductive, for the
  others: a paragraph longer than the size is in the text ahead or being sliced, and
  a slice leaves it as it is, so its document is never behind.
  `WholeInv` makes `PassagesStayWhole` inductive: until a chunk holds it, a passage
  of the document at hand is in the text ahead, in the paragraph or the current
  part, or in a part already made. Stripping cannot tear a passage, which begins
  and ends with ink; a break is not inside one; and two neighbouring slices share
  what a passage up to one character longer than the overlap needs. A part that
  is dropped was seen, and is then the content of an earlier chunk.

They assume what the modules' named assumptions state: finite sets of scans,
candidates and URLs, natural limits, null values distinct from the real ones.
`Chunker` assumes natural numbers for its two settings and nothing of how they
compare.

Only model-checked is liveness (`ScansEnd`, `CrawlEnds`, `PhasesEnd`, `ScanEnds`):
fairness speaks of ENABLED, which this prover does not reach. What is proved of it
is the part that could go wrong in the code: every step of a scan, a crawl, a phase
or the splitting uses something up that is finite for all values of the constants
(but for those slices).
That such a thread always has a step until it is done is what TLC adds on the
instances. Every other property that a passing run checks is stated by a theorem.
The refinements are proved for the safety part of `Spec`.

## What the runs found

Three statements of the tests and the models are not what the code does; the
runs marked "violation" each end in a trace, and `PROJECT.json` gives the lines.

1. A cached validation result brings the request count of the run that made it.
   The scan's `Requests:` figure and its budget then count requests never made
   (`workflow.py:443`); by `OverrunOnlyByReuse` the account passes the limit by
   less than one finding's limit.
2. The retrieval cache key leaves `top_k` out (`knowledge_base.py:89`).
3. False positives are counted under the severity "info" whatever the report says
   (`eval/metrics.py:155`).

What the models show of the code besides, where no document says otherwise:

- The purge of an expired cache row deletes by key in a second transaction and
  takes a row with it that another scan stored in between
  (`storage/cache.py:40`); the next scan asks again, and by `KeepsContract`
  nothing else comes of it.
- Overlapping rebuilds can leave the index of one and the manifest of the other
  (`knowledge_base.py:64`), which is why `LoneRebuildsLeaveWholeFiles` speaks of
  rebuilds that run alone; `status()` reads the manifest only.
- With an overlap of the chunk size or more, or a size of 0, the slices of a long
  paragraph never end (`chunker.py:67`), so that a rebuild never returns
  (`LongParagraphsStay`, checked and proved); `config.py:92-93` takes both settings
  from the environment and compares them nowhere.
- The overlap is glued to the paragraph after it without a separator
  (`chunker.py:61`), so a chunk may hold a word that is in no document. A part
  that is also in an earlier document is dropped together with its source.
- A truth without a CWE and a method scores at most 65 and can never be found; the
  matching is greedy in the order of the fixture and may find half of what is
  there (`HalfOfBest` is tight).
- `_candidate_for_truth` compares texts that are lower case but not normalized, so
  the attribution of a truth may say "fn" where the matching says "tp"; only
  truths found by their CWE are sure to agree (`ResultAddsUp`). The
  assisted precision may be below the strict one, which the example of
  `test_eval.py:221` does not show.
- `eval compare` does not look whether its two files are of one benchmark;
  `PassIsNoRegression` is about files that are.

## Not modelled, and the plan

Next would be the reading back of reports by the API while a scan writes them.

Left out, and why:

- The scope guard (`core/scope.py`, `security/guardrails.py`) decides on one
  address without state; its refusal is an outcome of every request here.
- The loader, the hashing embeddings, the ranking, the sums over tools, phases,
  cache and cost: functions of texts or floating-point numbers, without a step in
  which something could come between.
- Configuration and prompt screening: constants and text matching; the limits are
  CONSTANTS of the modules.
- HTML, JSON and report rendering, prompts and text matching, the subprocess
  tools' output formats, vendored templates (`nuclei-templates`), knowledge
  documents, shell scripts: pure text processing or data.
