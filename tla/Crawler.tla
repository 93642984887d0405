------------------------------ MODULE Crawler ------------------------------
(***************************************************************************)
(* The breadth-first crawl of one target: tools/crawler.py (crawl_web and  *)
(* the helpers it calls), as workflow.py runs it for every scan.           *)
(*                                                                         *)
(* The web is not known in advance: a fetched page or script may carry any *)
(* set of links, already normalized, in scope and of the target's origin   *)
(* (_normalize_links leaves no other).  The order of the links inside one  *)
(* page is any order: they are taken from a set, the page's own before the *)
(* ones its scripts add.  A step is one request, or one turn of the loop   *)
(* over a page's links.                                                    *)
(***************************************************************************)
EXTENDS Integers, Sequences, FiniteSets

CONSTANTS
  Urls,         \* canonical in-scope URLs of the target's origin
  Root,         \* the target
  MaxPages,     \* max_crawl_pages
  MaxDepth,     \* max_crawl_depth
  ScriptLimit,  \* SCRIPT_DISCOVERY_LIMIT
  LinkSets      \* what a page or a script may link to, a bound

ASSUME UrlsAssumption == IsFiniteSet(Urls) /\ Root \in Urls
ASSUME BoundsAssumption ==
  MaxPages \in Nat /\ MaxDepth \in Nat /\ ScriptLimit \in Nat
ASSUME LinkSetsAssumption == LinkSets \subseteq SUBSET Urls

VARIABLES
  pc,          \* where the crawl is
  queue,       \* URLs to visit, each with its depth
  visited,     \* URLs taken from the queue
  pages,       \* the pages fetched, in order
  discovered,  \* discovered_urls
  total,       \* total_requests
  deepest,     \* max_depth_reached
  cur,         \* the URL at hand and its depth
  links,       \* links of the page at hand not yet looked at
  found,       \* links of its scripts not yet looked at
  scripts      \* its scripts still to fetch

vars == <<pc, queue, visited, pages, discovered, total, deepest, cur, links,
          found, scripts>>

Items == [url : Urls, depth : Nat]
Pages == [url : Urls, depth : Nat, links : SUBSET Urls]

Places == {"loop", "scripts", "follow", "done", "aborted"}

Queued == {queue[i].url : i \in DOMAIN queue}

Init ==
  /\ pc = "loop"
  /\ queue = <<[url |-> Root, depth |-> 0]>>
  /\ visited = {} /\ pages = <<>> /\ discovered = {}
  /\ total = 0 /\ deepest = 0
  /\ cur = [url |-> Root, depth |-> 0]
  /\ links = {} /\ found = {} /\ scripts = 0
-----------------------------------------------------------------------------
(* The condition of the while loop.                                        *)
Running == pc = "loop" /\ queue # <<>> /\ Len(pages) < MaxPages

(* popleft and the two lines after it.  The test "url in visited" before   *)
(* them finds nothing (NoUrlTwice) and is left out.                        *)
Pop ==
  /\ cur' = Head(queue)
  /\ queue' = Tail(queue)
  /\ visited' = visited \cup {Head(queue).url}
  /\ deepest' = IF Head(queue).depth > deepest THEN Head(queue).depth
                ELSE deepest

(* URLs the crawl has room for beside those visited or queued.             *)
Room == MaxPages - Cardinality(visited) - Len(queue)

(* A page that cannot be fetched keeps its place among the visited ones.   *)
FetchFails ==
  /\ Running /\ Pop
  /\ total' = total + 1
  /\ UNCHANGED <<pc, pages, discovered, links, found, scripts>>

(* Mutant: the scripts of a page are fetched with no room for their links. *)
ScriptsWithoutRoom == TRUE

ScriptsWanted == Room' > 0

(* A page is fetched; it carries the links ls and n scripts of its origin  *)
(* among the first ScriptLimit.  The script phase is only entered with     *)
(* room for what the scripts may add.                                      *)
FetchPage(ls, n) ==
  /\ Running /\ Pop
  /\ total' = total + 1
  /\ links' = ls
  /\ found' = {}
  /\ scripts' = IF ScriptsWanted THEN n ELSE 0
  /\ pc' = "scripts"
  /\ UNCHANGED <<pages, discovered>>

(* min(budget, number of links): what normalized[:budget] keeps.           *)
Kept(ls) == IF Room < Cardinality(ls) THEN Room ELSE Cardinality(ls)

(* A script is fetched and names the links ls, of which the first budget   *)
(* ones are kept; enough links end the phase.                              *)
FetchScript(ls) ==
  /\ pc = "scripts" /\ scripts > 0
  /\ total' = total + 1
  /\ \E kept \in SUBSET ls :
       /\ Cardinality(kept) = Kept(ls)
       /\ found' = found \cup kept
  /\ scripts' = IF Cardinality(found') >= Room THEN 0 ELSE scripts - 1
  /\ UNCHANGED <<pc, queue, visited, pages, discovered, deepest, cur, links>>

ScriptFails ==
  /\ pc = "scripts" /\ scripts > 0
  /\ total' = total + 1
  /\ scripts' = scripts - 1
  /\ UNCHANGED <<pc, queue, visited, pages, discovered, deepest, cur, links,
                 found>>

(* _combine_links, and the page joins the result.                          *)
AddPage ==
  /\ pc = "scripts" /\ scripts = 0
  /\ pages' = Append(pages, [url |-> cur.url, depth |-> cur.depth,
                             links |-> links \cup found])
  /\ found' = found \ links
  /\ pc' = "follow"
  /\ UNCHANGED <<queue, visited, discovered, total, deepest, cur, links,
                 scripts>>

(* Mutant: only the visited URLs are compared.                             *)
KnownIfVisited(url) == url \in visited

Known(url) == url \in visited \cup Queued

(* Mutants: the queue left out of the count; one URL too early.            *)
FullByVisited == Cardinality(visited) >= MaxPages
FullEarly == Room <= 1

Full == Room <= 0

(* Mutant: a stack.                                                        *)
Push(url) == queue' = <<[url |-> url, depth |-> cur.depth + 1]>> \o queue

Enqueue(url) == queue' = Append(queue, [url |-> url, depth |-> cur.depth + 1])

(* Mutant: a link that is passed over comes up again.                      *)
StayOn(url) == UNCHANGED <<links, found>>

PassOver(url) == links' = links \ {url} /\ found' = found \ {url}

Follow(url) ==
  /\ pc = "follow"
  /\ url \in IF links # {} THEN links ELSE found
  /\ PassOver(url)
  /\ \/ /\ cur.depth < MaxDepth /\ ~Known(url) /\ ~Full
        /\ discovered' = discovered \cup {url}
        /\ Enqueue(url)
     \/ /\ cur.depth >= MaxDepth \/ Known(url) \/ Full
        /\ UNCHANGED <<discovered, queue>>
  /\ UNCHANGED <<pc, visited, pages, total, deepest, cur, scripts>>

NextPage ==
  /\ pc = "follow" /\ links = {} /\ found = {}
  /\ pc' = "loop"
  /\ UNCHANGED <<queue, visited, pages, discovered, total, deepest, cur, links,
                 found, scripts>>

Finish ==
  /\ pc = "loop" /\ ~Running
  /\ pc' = "done"
  /\ UNCHANGED <<queue, visited, pages, discovered, total, deepest, cur, links,
                 found, scripts>>

(* A read that times out, or a refusal of the scope guard, is no           *)
(* RuntimeError: it leaves crawl_web, and _run_tool drops the whole crawl. *)
Abort ==
  /\ Running \/ (pc = "scripts" /\ scripts > 0)
  /\ pc' = "aborted"
  /\ UNCHANGED <<queue, visited, pages, discovered, total, deepest, cur, links,
                 found, scripts>>

Next ==
  \/ FetchFails
  \/ \E ls \in LinkSets, n \in 0..ScriptLimit : FetchPage(ls, n)
  \/ \E ls \in LinkSets : FetchScript(ls)
  \/ ScriptFails \/ AddPage
  \/ \E url \in Urls : Follow(url)
  \/ NextPage \/ Finish \/ Abort

Spec == Init /\ [][Next]_vars

(* The crawl is one thread and every request ends by its timeout.          *)
FairSpec == Spec /\ WF_vars(Next)
-----------------------------------------------------------------------------
(* Every variable stays in its type; scripts wait to be fetched only while *)
(* there is room for their links, and no link outlives its page's turn.    *)
TypeOK ==
  /\ pc \in Places
  /\ queue \in Seq(Items)
  /\ visited \in SUBSET Urls
  /\ pages \in Seq(Pages)
  /\ discovered \in SUBSET Urls
  /\ total \in Nat /\ deepest \in Nat
  /\ cur \in Items
  /\ links \in SUBSET Urls /\ found \in SUBSET Urls
  /\ scripts \in 0..ScriptLimit
  /\ scripts > 0 => pc \in {"scripts", "aborted"} /\ Room > 0
  /\ pc \in {"loop", "done"} => links = {} /\ found = {}

(* No URL is queued twice, queued again after its visit, or left out of    *)
(* discovered_urls; so no page is fetched twice, however often other pages *)
(* and scripts name it.                                                    *)
NoUrlTwice ==
  /\ \A i, j \in DOMAIN queue : queue[i].url = queue[j].url => i = j
  /\ Queued \cap visited = {}
  /\ visited \cup Queued = discovered \cup {Root}
  /\ \A i, j \in DOMAIN pages : pages[i].url = pages[j].url => i = j
  /\ \A i \in DOMAIN pages : pages[i].url \in visited

(* max_crawl_pages bounds the URLs that are visited or waiting, failed     *)
(* fetches included (the target itself is always queued).                  *)
FrontierBounded ==
  Cardinality(visited) + Len(queue) <= IF MaxPages = 0 THEN 1 ELSE MaxPages

(* The requests of a whole crawl, scripts included: the page that fills    *)
(* the frontier asks for no script, and neither does a later one.          *)
RequestsBounded ==
  total <= IF MaxPages = 0 THEN 0
           ELSE MaxPages + ScriptLimit * (MaxPages - 1)

(* The depth of a page is its distance from the target over the pages the  *)
(* crawl fetched: a page one nearer names it, and none nearer than that;   *)
(* and the pages come in the order of their depths.                        *)
ShortestDepth ==
  \A i \in DOMAIN pages :
    LET p == pages[i]
    IN  /\ p.depth <= MaxDepth
        /\ \A j \in 1..(i - 1) : pages[j].depth <= p.depth
        /\ p.depth = 0 <=> p.url = Root
        /\ p.depth > 0 =>
             \E j \in 1..(i - 1) : /\ pages[j].depth = p.depth - 1
                                   /\ p.url \in pages[j].links
        /\ \A j \in DOMAIN pages :
             p.url \in pages[j].links => p.depth <= pages[j].depth + 1

(* A crawl that ends below the page limit has visited every link of every  *)
(* page above the depth limit.                                             *)
CompleteBelowLimit ==
  pc = "done" /\ Cardinality(visited) < MaxPages =>
    \A i \in DOMAIN pages :
      pages[i].depth < MaxDepth => pages[i].links \subseteq visited

(* Every crawl ends, also on a target whose pages all name each other.     *)
CrawlEnds == <>(pc \in {"done", "aborted"})
=============================================================================
