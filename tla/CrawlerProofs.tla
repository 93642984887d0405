--------------------------- MODULE CrawlerProofs ---------------------------
(***************************************************************************)
(* What holds of every crawl, for every set of URLs and all limits: the    *)
(* invariants of Crawler, from one inductive invariant.                    *)
(*                                                                         *)
(* The invariants are not inductive by themselves.  ShortestDepth needs    *)
(* the queue's items to be as near the target as the pages will be, in     *)
(* two adjacent levels, and needs what CompleteBelowLimit says at the end  *)
(* to hold on the way (Explored): while there is room, a link of a page    *)
(* looked at earlier is already visited or queued, so it cannot come up    *)
(* again from a deeper page.  Room never grows, so what was passed over    *)
(* for want of room is never taken up later.                               *)
(*                                                                         *)
(* From the same invariant each step uses up some of a finite Work: that   *)
(* is why a crawl ends.                                                    *)
(***************************************************************************)
EXTENDS Crawler, FiniteSetTheorems, SequenceTheorems, TLAPS

(* A URL with its depth as ShortestDepth wants it for a page.              *)
Reached(x) ==
  /\ x.depth <= MaxDepth
  /\ x.depth = 0 <=> x.url = Root
  /\ x.depth > 0 =>
       \E j \in DOMAIN pages : /\ pages[j].depth = x.depth - 1
                               /\ x.url \in pages[j].links
  /\ \A j \in DOMAIN pages :
       x.url \in pages[j].links => x.depth <= pages[j].depth + 1

(* The queue holds two adjacent levels, the nearer first, and both no      *)
(* nearer than any page.                                                   *)
Levels ==
  /\ \A i \in DOMAIN queue : Reached(queue[i])
  /\ \A i, j \in DOMAIN queue :
       i < j => /\ queue[i].depth <= queue[j].depth
                /\ queue[j].depth <= queue[i].depth + 1
  /\ \A i \in DOMAIN pages, j \in DOMAIN queue :
       pages[i].depth <= queue[j].depth

(* The page at hand lies between the pages and the queue.                  *)
AtHand ==
  /\ pc = "scripts" =>
       /\ Reached(cur) /\ cur.url \in visited
       /\ \A i \in DOMAIN pages : pages[i].url # cur.url
  /\ pc = "follow" =>
       /\ pages # <<>>
       /\ pages[Len(pages)].depth = cur.depth
       /\ links \cup found \subseteq pages[Len(pages)].links
  /\ pc \in {"scripts", "follow"} =>
       /\ \A i \in DOMAIN pages : pages[i].depth <= cur.depth
       /\ \A j \in DOMAIN queue : /\ cur.depth <= queue[j].depth
                                  /\ queue[j].depth <= cur.depth + 1

(* The links of page i that the loop over its links has not come to.       *)
Pending(i) == IF pc = "follow" /\ i = Len(pages) THEN links \cup found ELSE {}

Explored ==
  \A i \in DOMAIN pages :
    Room > 0 /\ pages[i].depth < MaxDepth =>
      pages[i].links \subseteq visited \cup Queued \cup Pending(i)

(* Pages whose scripts may have been fetched: those visited with room left *)
Charged ==
  IF Cardinality(visited) < MaxPages THEN Cardinality(visited)
  ELSE MaxPages - 1

Counted ==
  /\ Len(pages) + (IF pc = "scripts" THEN 1 ELSE 0) <= Cardinality(visited)
  /\ MaxPages = 0 => total + scripts = 0
  /\ MaxPages > 0 =>
       total + scripts <= Cardinality(visited) + ScriptLimit * Charged
  /\ pc = "done" /\ Cardinality(visited) < MaxPages => queue = <<>>

IInv ==
  /\ TypeOK /\ NoUrlTwice /\ FrontierBounded /\ Counted
  /\ ShortestDepth /\ Levels /\ AtHand /\ Explored
-----------------------------------------------------------------------------
(* The counts of the invariants are numbers.                               *)
LEMMA Counts ==
  ASSUME TypeOK
  PROVE  /\ IsFiniteSet(visited) /\ Cardinality(visited) \in Nat
         /\ Len(queue) \in Nat /\ DOMAIN queue = 1..Len(queue)
         /\ Len(pages) \in Nat /\ DOMAIN pages = 1..Len(pages)
         /\ \A i \in DOMAIN queue : queue[i] \in Items
         /\ \A i \in DOMAIN pages : pages[i] \in Pages
         /\ Room \in Int
<1>1. IsFiniteSet(visited) /\ Cardinality(visited) \in Nat
  BY FS_Subset, FS_CardinalityType, UrlsAssumption DEF TypeOK
<1>2. Len(queue) \in Nat /\ DOMAIN queue = 1..Len(queue)
  BY LenProperties DEF TypeOK
<1>3. Len(pages) \in Nat /\ DOMAIN pages = 1..Len(pages)
  BY LenProperties DEF TypeOK
<1>4. \A i \in DOMAIN queue : queue[i] \in Items
  BY <1>2, ElementOfSeq DEF TypeOK
<1>5. \A i \in DOMAIN pages : pages[i] \in Pages
  BY <1>3, ElementOfSeq DEF TypeOK
<1>6. QED
  BY <1>1, <1>2, <1>3, <1>4, <1>5, BoundsAssumption DEF Room

(* popleft takes the first URL out of the queue and into the visited ones; *)
(* the URLs known and the room left stay what they were.                   *)
LEMMA PopEffect ==
  ASSUME TypeOK, NoUrlTwice, Running, Pop
  PROVE  /\ cur' = queue[1] /\ cur' \in Items /\ 1 \in DOMAIN queue
         /\ queue' \in Seq(Items) /\ Len(queue') = Len(queue) - 1
         /\ DOMAIN queue' = 1..(Len(queue) - 1)
         /\ \A i \in DOMAIN queue' : /\ i + 1 \in DOMAIN queue
                                     /\ queue'[i] = queue[i + 1]
         /\ cur'.url \notin visited /\ cur'.url \notin Queued'
         /\ visited' = visited \cup {cur'.url}
         /\ visited' \subseteq Urls
         /\ visited' \cup Queued' = visited \cup Queued
         /\ Cardinality(visited') = Cardinality(visited) + 1
         /\ Cardinality(visited') \in Nat
         /\ Room' = Room
<1>1. queue \in Seq(Items) /\ queue # <<>>
  BY DEF TypeOK, Running
<1>2. /\ Len(queue) \in Nat \ {0} /\ 1 \in DOMAIN queue
      /\ DOMAIN queue = 1..Len(queue)
  BY <1>1, EmptySeq, LenProperties
<1>3. /\ cur' = queue[1] /\ cur' \in Items
  BY <1>1, <1>2, HeadTailProperties, ElementOfSeq DEF Pop
<1>4. /\ queue' \in Seq(Items) /\ Len(queue') = Len(queue) - 1
      /\ \A i \in 1..Len(queue') : queue'[i] = queue[i + 1]
  BY <1>1, HeadTailProperties DEF Pop
<1>5. DOMAIN queue' = 1..(Len(queue) - 1)
  BY <1>4, LenProperties
<1>6. \A i \in DOMAIN queue' : i + 1 \in DOMAIN queue /\ queue'[i] = queue[i + 1]
  BY <1>2, <1>4, <1>5
<1>7. visited' = visited \cup {cur'.url} /\ visited' \subseteq Urls
  BY <1>3 DEF Pop, TypeOK, Items
<1>8. cur'.url \notin visited
  BY <1>2, <1>3 DEF NoUrlTwice, Queued
<1>9. cur'.url \notin Queued'
  <2>1. SUFFICES ASSUME NEW i \in DOMAIN queue', queue'[i].url = queue[1].url
                 PROVE  FALSE
    BY <1>3 DEF Queued
  <2>2. i + 1 = 1
    BY <1>2, <1>6, <2>1 DEF NoUrlTwice
  <2>3. QED
    BY <1>2, <1>5, <2>2
<1>10. Queued = Queued' \cup {cur'.url}
  <2>1. Queued' \cup {cur'.url} \subseteq Queued
    BY <1>2, <1>3, <1>6 DEF Queued
  <2>2. ASSUME NEW i \in DOMAIN queue
        PROVE  queue[i].url \in Queued' \cup {cur'.url}
    <3>1. CASE i = 1
      BY <1>3, <3>1
    <3>2. CASE i # 1
      <4>1. i - 1 \in DOMAIN queue' /\ (i - 1) + 1 = i
        BY <1>2, <1>5, <3>2
      <4>2. queue'[i - 1] = queue[i]
        BY <1>6, <4>1
      <4>3. QED
        BY <4>1, <4>2 DEF Queued
    <3>3. QED
      BY <3>1, <3>2
  <2>3. QED
    BY <2>1, <2>2 DEF Queued
<1>11. /\ Cardinality(visited') = Cardinality(visited) + 1
       /\ Cardinality(visited) \in Nat
  BY <1>7, <1>8, FS_AddElement, Counts
<1>12. Room' = Room
  BY <1>2, <1>4, <1>11, BoundsAssumption DEF Room
<1>13. QED
  BY <1>2, <1>3, <1>4, <1>5, <1>6, <1>7, <1>8, <1>9, <1>10, <1>11, <1>12

(* A link that is queued comes last, one level below the page at hand.     *)
LEMMA EnqueueEffect ==
  ASSUME TypeOK, NEW url \in Urls, Enqueue(url)
  PROVE  LET n == Len(queue) + 1
         IN  /\ queue' \in Seq(Items) /\ Len(queue') = n
             /\ DOMAIN queue' = 1..n
             /\ \A i \in DOMAIN queue : queue'[i] = queue[i]
             /\ queue'[n] = [url |-> url, depth |-> cur.depth + 1]
             /\ Queued' = Queued \cup {url}
<1> DEFINE n == Len(queue) + 1
           item == [url |-> url, depth |-> cur.depth + 1]
<1>1. queue \in Seq(Items) /\ item \in Items
  BY DEF TypeOK, Items
<1>2. /\ queue' \in Seq(Items) /\ Len(queue') = n
      /\ \A i \in 1..Len(queue) : queue'[i] = queue[i]
      /\ queue'[n] = item
  BY <1>1 DEF Enqueue
<1>3. /\ DOMAIN queue = 1..Len(queue) /\ DOMAIN queue' = 1..n
      /\ Len(queue) \in Nat
  BY <1>1, <1>2, LenProperties
<1>4. DOMAIN queue' = DOMAIN queue \cup {n}
  BY <1>3
<1>5. Queued' = Queued \cup {url}
  BY <1>2, <1>3, <1>4 DEF Queued
<1>6. QED
  BY <1>2, <1>3, <1>5

(* The number of charged pages grows with the number of visited ones.      *)
LEMMA ChargeGrows ==
  ASSUME NEW a \in Nat, NEW b \in Nat, a <= b
  PROVE  ScriptLimit * a <= ScriptLimit * b
<1>1. PICK d \in Nat : b = a + d
  BY SMT
<1>2. ScriptLimit * b = ScriptLimit * a + ScriptLimit * d
  BY <1>1, BoundsAssumption
<1>3. ScriptLimit * d \in Nat /\ ScriptLimit * a \in Nat
  BY BoundsAssumption
<1>4. QED
  BY <1>2, <1>3, BoundsAssumption
(* One more charged page costs one more turn of the scripts.               *)
LEMMA ChargeStep ==
  ASSUME NEW a \in Nat
  PROVE  /\ ScriptLimit * a \in Nat
         /\ ScriptLimit * (a + 1) = ScriptLimit * a + ScriptLimit
  BY BoundsAssumption

(* A request for a script that was still to fetch adds nothing to the sum. *)
LEMMA RequestSpent ==
  ASSUME NEW t \in Nat, NEW m \in Nat, NEW n \in Nat, m < n
  PROVE  (t + 1) + m <= t + n
  OBVIOUS
-----------------------------------------------------------------------------
(* The invariant holds initially.                                          *)
LEMMA InitInv == Init => IInv
<1> SUFFICES ASSUME Init PROVE IInv
  OBVIOUS
<1> DEFINE item == [url |-> Root, depth |-> 0]
<1>1. /\ item \in Items /\ queue = <<item>> /\ Len(queue) = 1
      /\ queue \in Seq(Items) /\ DOMAIN queue = 1..1 /\ queue[1] = item
  BY UrlsAssumption DEF Init, Items
<1>2. pages = <<>> /\ pages \in Seq(Pages) /\ Len(pages) = 0 /\ DOMAIN pages = {}
  BY DEF Init
<1>3. visited = {} /\ Cardinality(visited) = 0
  BY FS_EmptySet DEF Init
<1>4. Queued = {Root}
  BY <1>1 DEF Queued
<1>5. TypeOK
  BY <1>1, <1>2, BoundsAssumption DEF Init, TypeOK, Places
<1>6. NoUrlTwice
  BY <1>1, <1>2, <1>3, <1>4 DEF Init, NoUrlTwice
<1>7. FrontierBounded
  BY <1>1, <1>3, BoundsAssumption DEF FrontierBounded
<1>8. Counted
  <2>1. Charged = 0 \/ MaxPages = 0
    BY <1>3, BoundsAssumption DEF Charged
  <2>2. QED
    BY <1>2, <1>3, <2>1, BoundsAssumption DEF Init, Counted
<1>9. ShortestDepth /\ Explored
  BY <1>2 DEF ShortestDepth, Explored
<1>10. Levels
  BY <1>1, <1>2, BoundsAssumption DEF Levels, Reached
<1>11. AtHand
  BY DEF Init, AtHand
<1>12. QED
  BY <1>5, <1>6, <1>7, <1>8, <1>9, <1>10, <1>11 DEF IInv

(* A turn of the while loop that fetches nothing or a page, up to its      *)
(* scripts: what the two have in common.                                   *)
LEMMA FetchStep ==
  ASSUME IInv, Running, Pop, total' = total + 1,
         UNCHANGED <<pages, discovered>>,
         links' \in SUBSET Urls, found' \in SUBSET Urls,
         \/ pc' = "loop" /\ scripts' = 0 /\ links' = {} /\ found' = {}
         \/ /\ pc' = "scripts" /\ scripts' \in 0..ScriptLimit
            /\ scripts' > 0 => Room' > 0
  PROVE  IInv'
<1> USE DEF IInv
<1> DEFINE E == /\ cur' = queue[1] /\ cur' \in Items /\ 1 \in DOMAIN queue
                /\ queue' \in Seq(Items) /\ Len(queue') = Len(queue) - 1
                /\ DOMAIN queue' = 1..(Len(queue) - 1)
                /\ \A i \in DOMAIN queue' : /\ i + 1 \in DOMAIN queue
                                            /\ queue'[i] = queue[i + 1]
                /\ cur'.url \notin visited /\ cur'.url \notin Queued'
                /\ visited' = visited \cup {cur'.url}
                /\ visited' \subseteq Urls
                /\ visited' \cup Queued' = visited \cup Queued
                /\ Cardinality(visited') = Cardinality(visited) + 1
                /\ Cardinality(visited') \in Nat
                /\ Room' = Room
<1>1. E
  BY PopEffect
<1>2. /\ Cardinality(visited) \in Nat /\ Len(queue) \in Nat
      /\ DOMAIN queue = 1..Len(queue)
      /\ Len(pages) \in Nat /\ DOMAIN pages = 1..Len(pages)
      /\ \A i \in DOMAIN queue : queue[i] \in Items
      /\ \A i \in DOMAIN pages : pages[i] \in Pages
      /\ Room \in Int
  BY Counts
<1>3. Len(queue') \in Nat
  BY <1>1, <1>2
<1>4. pc = "loop" /\ queue # <<>> /\ Len(pages) < MaxPages /\ scripts = 0
  BY BoundsAssumption DEF Running, TypeOK
<1>5. MaxPages \in Nat \ {0} /\ ScriptLimit \in Nat
  BY <1>2, <1>4, BoundsAssumption
<1>6. TypeOK'
  <2>1. deepest' \in Nat
    <3>1. Head(queue).depth \in Nat
      BY <1>1, <1>2 DEF Pop, Items
    <3>2. QED
      BY <3>1 DEF Pop, TypeOK
  <2>2. scripts' \in 0..ScriptLimit
    BY <1>5
  <2>3. scripts' > 0 => pc' \in {"scripts", "aborted"} /\ Room' > 0
    BY <1>5
  <2>4. QED
    BY <1>1, <2>1, <2>2, <2>3 DEF TypeOK, Places
<1>7. NoUrlTwice'
  <2>1. \A i, j \in DOMAIN queue' : queue'[i].url = queue'[j].url => i = j
    <3>1. SUFFICES ASSUME NEW i \in DOMAIN queue', NEW j \in DOMAIN queue',
                          queue'[i].url = queue'[j].url
                   PROVE  i = j
      OBVIOUS
    <3>2. i + 1 = j + 1
      BY <1>1, <3>1 DEF NoUrlTwice
    <3>3. QED
      BY <1>1, <1>2, <3>2
  <2>2. Queued' \cap visited' = {}
    <3>1. Queued' \subseteq Queued
      BY <1>1 DEF Queued
    <3>2. QED
      BY <1>1, <3>1 DEF NoUrlTwice
  <2>3. visited' \cup Queued' = discovered' \cup {Root}
    BY <1>1 DEF NoUrlTwice
  <2>4. \A i \in DOMAIN pages' : pages'[i].url \in visited'
    BY <1>1 DEF NoUrlTwice
  <2>5. QED
    BY <2>1, <2>2, <2>3, <2>4 DEF NoUrlTwice
<1>8. FrontierBounded'
  BY <1>1, <1>2 DEF FrontierBounded
<1>9. Counted'
  <2>1. Charged \in Nat /\ Charged' \in Nat /\ Charged <= Charged'
    BY <1>1, <1>2, <1>5 DEF Charged
  <2>2. Room' > 0 => Charged' = Charged + 1
    BY <1>1, <1>2, <1>3, <1>5 DEF Charged, Room
  <2>3. total + 0 <= Cardinality(visited) + ScriptLimit * Charged
    BY <1>4, <1>5 DEF Counted, TypeOK
  <2>4. total' + scripts' <= Cardinality(visited') + ScriptLimit * Charged'
    <3>1. CASE scripts' > 0
      <4>1. ScriptLimit * Charged' = ScriptLimit * Charged + ScriptLimit
        BY <2>1, <2>2, <3>1, ChargeStep
      <4>2. scripts' <= ScriptLimit /\ scripts' \in Nat
        BY <1>5
      <4>3. ScriptLimit * Charged \in Nat
        BY <2>1, ChargeStep
      <4>4. QED
        BY SMTT(30), <1>1, <1>2, <1>5, <2>3, <4>1, <4>2, <4>3 DEF TypeOK
    <3>2. CASE ~(scripts' > 0)
      <4>1. scripts' = 0
        BY <1>5, <3>2
      <4>2. ScriptLimit * Charged <= ScriptLimit * Charged'
        BY <2>1, ChargeGrows
      <4>3. ScriptLimit * Charged \in Nat /\ ScriptLimit * Charged' \in Nat
        BY <2>1, ChargeStep
      <4>4. QED
        BY SMTT(30), <1>1, <1>2, <2>3, <4>1, <4>2, <4>3 DEF TypeOK
    <3>3. QED
      BY <3>1, <3>2
  <2>5. Len(pages') + (IF pc' = "scripts" THEN 1 ELSE 0) <= Cardinality(visited')
    BY <1>1, <1>2, <1>4 DEF Counted
  <2>6. QED
    BY <1>5, <2>4, <2>5 DEF Counted
<1>10. ShortestDepth'
  BY DEF ShortestDepth
<1>11. Levels'
  <2>1. (\A i \in DOMAIN queue : Reached(queue[i]))'
    BY <1>1 DEF Levels, Reached
  <2>2. \A i, j \in DOMAIN queue' :
          i < j => /\ queue'[i].depth <= queue'[j].depth
                   /\ queue'[j].depth <= queue'[i].depth + 1
    <3>1. SUFFICES ASSUME NEW i \in DOMAIN queue', NEW j \in DOMAIN queue', i < j
                   PROVE  /\ queue[i + 1].depth <= queue[j + 1].depth
                          /\ queue[j + 1].depth <= queue[i + 1].depth + 1
      BY <1>1
    <3>2. i + 1 < j + 1 /\ i + 1 \in DOMAIN queue /\ j + 1 \in DOMAIN queue
      BY <1>1, <1>2, <3>1
    <3>3. QED
      BY <3>2 DEF Levels
  <2>3. QED
    BY <1>1, <2>1, <2>2 DEF Levels
<1>12. AtHand'
  <2>1. Reached(cur)'
    BY <1>1 DEF Levels, Reached
  <2>2. \A i \in DOMAIN pages' : pages'[i].url # cur'.url
    BY <1>1 DEF NoUrlTwice
  <2>3. \A i \in DOMAIN pages' : pages'[i].depth <= cur'.depth
    BY <1>1 DEF Levels
  <2>4. ASSUME NEW j \in DOMAIN queue'
        PROVE  cur'.depth <= queue'[j].depth /\ queue'[j].depth <= cur'.depth + 1
    <3>1. 1 < j + 1 /\ j + 1 \in DOMAIN queue
      BY <1>1, <1>2
    <3>2. QED
      BY <1>1, <3>1 DEF Levels
  <2>5. QED
    BY <1>1, <2>1, <2>2, <2>3, <2>4 DEF AtHand
<1>13. Explored'
  BY <1>1, <1>4 DEF Explored, Pending
<1>14. QED
  BY <1>6, <1>7, <1>8, <1>9, <1>10, <1>11, <1>12, <1>13

(* A script is fetched, or fails: one request for one script less to go.   *)
LEMMA ScriptStep ==
  ASSUME IInv, pc = "scripts", scripts > 0, total' = total + 1,
         scripts' \in 0..(scripts - 1), found' \in SUBSET Urls,
         UNCHANGED <<pc, queue, visited, pages, discovered, deepest, cur,
                     links>>
  PROVE  IInv'
<1> USE DEF IInv
<1>1. /\ scripts \in Nat /\ scripts' \in Nat /\ scripts' < scripts
      /\ scripts <= ScriptLimit /\ total \in Nat
  BY BoundsAssumption DEF TypeOK
<1>2. UNCHANGED Room /\ UNCHANGED Charged /\ UNCHANGED Queued
  BY DEF Room, Charged, Queued
<1>3. TypeOK'
  <2>1. scripts' \in 0..ScriptLimit
    BY <1>1, BoundsAssumption
  <2>2. QED
    BY <1>1, <1>2, <2>1 DEF TypeOK
<1>4. NoUrlTwice' /\ FrontierBounded' /\ ShortestDepth'
  BY <1>2 DEF NoUrlTwice, FrontierBounded, ShortestDepth
<1>5. Counted'
  <2>1. total' + scripts' <= total + scripts
    BY <1>1, RequestSpent
  <2>2. MaxPages > 0
    <3>1. MaxPages # 0
      BY <1>1 DEF Counted
    <3>2. QED
      BY <3>1, BoundsAssumption
  <2>3. /\ Cardinality(visited) \in Nat
        /\ Charged \in Nat /\ ScriptLimit * Charged \in Nat
    <3>1. Charged \in Nat /\ Cardinality(visited) \in Nat
      BY <2>2, Counts, BoundsAssumption DEF Charged
    <3>2. QED
      BY <3>1, ChargeStep
  <2>4. total' + scripts' <= Cardinality(visited') + ScriptLimit * Charged'
    <3>1. total + scripts <= Cardinality(visited) + ScriptLimit * Charged
      BY <2>2 DEF Counted
    <3>2. QED
      BY <1>1, <1>2, <2>1, <2>3, <3>1
  <2>5. QED
    BY <2>2, <2>4, BoundsAssumption DEF Counted
<1>6. Levels'
  BY DEF Levels, Reached
<1>7. AtHand'
  BY DEF AtHand, Reached
<1>8. Explored'
  BY <1>2 DEF Explored, Pending
<1>9. QED
  BY <1>3, <1>4, <1>5, <1>6, <1>7, <1>8

(* The page at hand joins the result, as far from the target as its URL    *)
(* was on the queue and with all its links still to be looked at.          *)
LEMMA AddPageStep ==
  ASSUME IInv, AddPage
  PROVE  IInv'
<1> USE DEF IInv
<1> DEFINE page == [url |-> cur.url, depth |-> cur.depth,
                    links |-> links \cup found]
           n == Len(pages) + 1
<1>1. page \in Pages /\ cur \in Items /\ cur.depth \in Nat
  BY DEF TypeOK, Pages, Items
<1>2. /\ pages \in Seq(Pages) /\ Len(pages) \in Nat
      /\ DOMAIN pages = 1..Len(pages)
      /\ \A i \in DOMAIN pages : pages[i] \in Pages
      /\ Cardinality(visited) \in Nat
      /\ \A i \in DOMAIN queue : queue[i] \in Items
  BY Counts DEF TypeOK
<1>3. /\ pages' \in Seq(Pages) /\ Len(pages') = n
      /\ \A i \in 1..Len(pages) : pages'[i] = pages[i]
      /\ pages'[n] = page
  BY <1>1, <1>2 DEF AddPage
<1>4. DOMAIN pages' = 1..n /\ DOMAIN pages' = DOMAIN pages \cup {n}
  BY <1>2, <1>3, LenProperties
<1>5. /\ pc = "scripts" /\ pc' = "follow" /\ scripts = 0
      /\ links' \cup found' = links \cup found
      /\ UNCHANGED <<queue, visited, discovered, total, deepest, cur, links,
                     scripts>>
  BY DEF AddPage
<1> HIDE DEF page, n
<1>6. page.url = cur.url /\ page.depth = cur.depth /\ page.links = links \cup found
  BY DEF page
<1>7. UNCHANGED Room /\ UNCHANGED Charged /\ UNCHANGED Queued
  BY <1>5 DEF Room, Charged, Queued
<1>8. \A i \in DOMAIN pages : i < n /\ i # n /\ i \in Nat
  BY <1>2 DEF n
<1>9. TypeOK'
  BY <1>3, <1>5, <1>7 DEF TypeOK, Places, AddPage
<1>10. NoUrlTwice'
  <2>1. \A i, j \in DOMAIN pages' : pages'[i].url = pages'[j].url => i = j
    BY ZenonT(60), <1>2, <1>3, <1>4, <1>5, <1>6 DEF NoUrlTwice, AtHand
  <2>2. \A i \in DOMAIN pages' : pages'[i].url \in visited'
    BY <1>2, <1>3, <1>4, <1>5, <1>6 DEF NoUrlTwice, AtHand
  <2>3. QED
    BY <1>5, <1>7, <2>1, <2>2 DEF NoUrlTwice
<1>11. FrontierBounded'
  BY <1>5 DEF FrontierBounded
<1>12. Counted'
  <2>1. Len(pages') + (IF pc' = "scripts" THEN 1 ELSE 0) <= Cardinality(visited')
    BY <1>2, <1>3, <1>5 DEF Counted, n
  <2>2. QED
    BY <1>5, <1>7, <2>1 DEF Counted
<1>13. ShortestDepth'
  <2> DEFINE P(i) ==
        /\ pages'[i].depth <= MaxDepth
        /\ \A j \in 1..(i - 1) : pages'[j].depth <= pages'[i].depth
        /\ pages'[i].depth = 0 <=> pages'[i].url = Root
        /\ pages'[i].depth > 0 =>
             \E j \in 1..(i - 1) : /\ pages'[j].depth = pages'[i].depth - 1
                                   /\ pages'[i].url \in pages'[j].links
        /\ \A j \in DOMAIN pages' :
             pages'[i].url \in pages'[j].links =>
               pages'[i].depth <= pages'[j].depth + 1
  <2>1. ASSUME NEW i \in DOMAIN pages PROVE P(i)
    <3>1. pages'[i] = pages[i] /\ pages[i] \in Pages /\ pages[i].depth \in Nat
      BY <1>2, <1>3 DEF Pages
    <3>2. \A j \in 1..(i - 1) : j \in DOMAIN pages /\ pages'[j] = pages[j]
      BY <1>2, <1>3
    <3>3. pages[i].depth <= cur.depth
      BY <1>5 DEF AtHand
    <3>4. \A j \in DOMAIN pages' :
            pages'[i].url \in pages'[j].links =>
              pages'[i].depth <= pages'[j].depth + 1
      <4>1. SUFFICES ASSUME NEW j \in DOMAIN pages',
                            pages'[i].url \in pages'[j].links
                     PROVE  pages'[i].depth <= pages'[j].depth + 1
        OBVIOUS
      <4>2. CASE j \in DOMAIN pages
        BY <1>2, <1>3, <3>1, <4>1, <4>2 DEF ShortestDepth
      <4>3. CASE j = n
        BY <1>1, <1>3, <1>6, <3>1, <3>3, <4>3
      <4>4. QED
        BY <1>4, <4>2, <4>3
    <3>5. QED
      BY <3>1, <3>2, <3>4 DEF ShortestDepth
  <2>2. P(n)
    <3>1. n - 1 = Len(pages) /\ 1..(n - 1) = DOMAIN pages
      BY <1>2 DEF n
    <3>2. \A j \in DOMAIN pages' :
            cur.url \in pages'[j].links => cur.depth <= pages'[j].depth + 1
      <4>1. SUFFICES ASSUME NEW j \in DOMAIN pages', cur.url \in pages'[j].links
                     PROVE  cur.depth <= pages'[j].depth + 1
        OBVIOUS
      <4>2. CASE j \in DOMAIN pages
        BY <1>2, <1>3, <1>5, <4>1, <4>2 DEF AtHand, Reached
      <4>3. CASE j = n
        BY <1>1, <1>3, <1>6, <4>3
      <4>4. QED
        BY <1>4, <4>2, <4>3
    <3>3. \A j \in DOMAIN pages : pages'[j].depth <= cur.depth
      BY <1>2, <1>3, <1>5 DEF AtHand
    <3>4. cur.depth > 0 =>
            \E j \in DOMAIN pages : /\ pages'[j].depth = cur.depth - 1
                                    /\ cur.url \in pages'[j].links
      BY <1>2, <1>3, <1>5 DEF AtHand, Reached
    <3>5. cur.depth <= MaxDepth /\ (cur.depth = 0 <=> cur.url = Root)
      BY <1>5 DEF AtHand, Reached
    <3>6. QED
      BY <1>3, <1>6, <3>1, <3>2, <3>3, <3>4, <3>5
  <2>3. \A i \in DOMAIN pages' : P(i)
    BY <1>4, <2>1, <2>2
  <2>4. QED
    BY <2>3 DEF ShortestDepth
<1>14. Levels'
  <2>1. ASSUME NEW i \in DOMAIN queue
        PROVE  Reached(queue[i])'
    <3>1. queue'[i] = queue[i] /\ queue[i] \in Items /\ Reached(queue[i])
      BY <1>2, <1>5 DEF Levels
    <3>2. queue[i].depth <= cur.depth + 1
      BY <1>5 DEF AtHand
    <3>3. \A j \in DOMAIN pages' :
            queue[i].url \in pages'[j].links => queue[i].depth <= pages'[j].depth + 1
      BY <1>2, <1>3, <1>4, <1>6, <3>1, <3>2 DEF Reached
    <3>4. queue[i].depth > 0 =>
            \E j \in DOMAIN pages' : /\ pages'[j].depth = queue[i].depth - 1
                                     /\ queue[i].url \in pages'[j].links
      BY <1>2, <1>3, <1>4, <3>1 DEF Reached
    <3>5. QED
      BY <3>1, <3>3, <3>4 DEF Reached
  <2>2. \A i \in DOMAIN pages', j \in DOMAIN queue' :
          pages'[i].depth <= queue'[j].depth
    BY <1>2, <1>3, <1>4, <1>5, <1>6 DEF Levels, AtHand
  <2>3. QED
    BY <1>5, <2>1, <2>2 DEF Levels
<1>15. AtHand'
  <2>1. pages' # <<>> /\ pages'[Len(pages')] = page
    BY <1>2, <1>3 DEF n
  <2>2. \A i \in DOMAIN pages' : pages'[i].depth <= cur'.depth
    BY SMTT(30), <1>1, <1>2, <1>3, <1>4, <1>5, <1>6 DEF AtHand
  <2>3. QED
    BY <1>5, <1>6, <2>1, <2>2 DEF AtHand
<1>16. Explored'
  <2>1. ASSUME NEW i \in DOMAIN pages', Room' > 0, pages'[i].depth < MaxDepth
        PROVE  pages'[i].links \subseteq visited' \cup Queued' \cup Pending(i)'
    <3>1. CASE i \in DOMAIN pages
      BY <1>2, <1>3, <1>5, <1>7, <2>1, <3>1 DEF Explored, Pending
    <3>2. CASE i = n
      BY <1>3, <1>5, <1>6, <3>2 DEF Pending
    <3>3. QED
      BY <1>4, <3>1, <3>2
  <2>2. QED
    BY <2>1 DEF Explored
<1>17. QED
  BY <1>9, <1>10, <1>11, <1>12, <1>13, <1>14, <1>15, <1>16

(* A link is passed over, or queued one level below the page at hand.  It  *)
(* is queued only when no nearer page names it: that page's links were all *)
(* looked at while there was room, so the URL would be known.              *)
LEMMA FollowStep ==
  ASSUME IInv, NEW url \in Urls, Follow(url)
  PROVE  IInv'
<1> USE DEF IInv
<1> DEFINE last == Len(pages)
           n == Len(queue) + 1
<1>1. /\ pc = "follow" /\ pc' = "follow" /\ url \in links \cup found
      /\ UNCHANGED <<visited, pages, total, deepest, cur, scripts>>
      /\ links' \in SUBSET Urls /\ found' \in SUBSET Urls
      /\ links' \cup found' = (links \cup found) \ {url}
  BY DEF Follow, PassOver, TypeOK
<1>2. /\ Len(pages) \in Nat /\ DOMAIN pages = 1..Len(pages) /\ pages # <<>>
      /\ \A i \in DOMAIN pages : pages[i] \in Pages
      /\ \A i \in DOMAIN queue : queue[i] \in Items
      /\ Len(queue) \in Nat /\ DOMAIN queue = 1..Len(queue)
      /\ Cardinality(visited) \in Nat /\ Room \in Int
      /\ cur.depth \in Nat /\ scripts = 0 /\ pages \in Seq(Pages)
  BY <1>1, Counts, BoundsAssumption DEF AtHand, TypeOK, Items
<1>3. last \in DOMAIN pages /\ pages[last].depth = cur.depth
      /\ links \cup found \subseteq pages[last].links
  <2>1. Len(pages) # 0
    BY <1>2, EmptySeq
  <2>2. QED
    BY <1>1, <1>2, <2>1 DEF AtHand
<1>4. UNCHANGED Charged /\ ShortestDepth'
  BY <1>1 DEF Charged, ShortestDepth
<1>5. Counted'
  BY <1>1, <1>2, <1>4 DEF Counted
<1>6. ASSUME cur.depth >= MaxDepth \/ Known(url) \/ Full,
             UNCHANGED <<discovered, queue>>
      PROVE  IInv'
  <2>1. UNCHANGED Room /\ UNCHANGED Queued
    BY <1>1, <1>6 DEF Room, Queued
  <2>2. TypeOK' /\ NoUrlTwice' /\ FrontierBounded'
    BY <1>1, <1>2, <1>6, <2>1 DEF TypeOK, NoUrlTwice, FrontierBounded
  <2>3. Levels'
    BY <1>1, <1>6 DEF Levels, Reached
  <2>4. AtHand'
    BY <1>1, <1>6 DEF AtHand
  <2>5. ASSUME NEW i \in DOMAIN pages, Room > 0, pages[i].depth < MaxDepth
        PROVE  pages[i].links \subseteq visited \cup Queued \cup Pending(i)'
    <3>1. pages[i].links \subseteq visited \cup Queued \cup Pending(i)
      BY <2>5 DEF Explored
    <3>2. CASE i = last
      <4>1. ~(cur.depth >= MaxDepth)
        BY <1>2, <1>3, <2>5, <3>2, BoundsAssumption
      <4>2. ~Full
        BY <1>2, <2>5 DEF Full
      <4>3. url \in visited \cup Queued
        BY <1>6, <4>1, <4>2 DEF Known
      <4>4. QED
        BY <1>1, <3>1, <3>2, <4>3 DEF Pending
    <3>3. CASE i # last
      BY <1>1, <3>1, <3>3 DEF Pending
    <3>4. QED
      BY <3>2, <3>3
  <2>6. Explored'
    BY <1>1, <2>1, <2>5 DEF Explored
  <2>7. QED
    BY <1>4, <1>5, <2>2, <2>3, <2>4, <2>6
<1>7. ASSUME cur.depth < MaxDepth, ~Known(url), ~Full,
             discovered' = discovered \cup {url}, Enqueue(url)
      PROVE  IInv'
  <2>1. /\ queue' \in Seq(Items) /\ Len(queue') = n /\ DOMAIN queue' = 1..n
        /\ \A i \in DOMAIN queue : queue'[i] = queue[i]
        /\ queue'[n] = [url |-> url, depth |-> cur.depth + 1]
        /\ Queued' = Queued \cup {url}
    BY <1>7, EnqueueEffect
  <2>2. DOMAIN queue' = DOMAIN queue \cup {n} /\ n \in Nat
        /\ \A i \in DOMAIN queue : i \in Nat /\ i < n
    BY <1>2, <2>1
  <2>3. url \notin visited /\ url \notin Queued /\ Room > 0
    BY <1>2, <1>7 DEF Known, Full
  <2>4. Room' = Room - 1
    BY <1>1, <1>2, <2>1, BoundsAssumption DEF Room
  <2> HIDE DEF n, last
  <2>5. queue'[n].url = url /\ queue'[n].depth = cur.depth + 1
    BY <2>1
  <2>6. TypeOK'
    BY <1>1, <1>2, <1>7, <2>1 DEF TypeOK
  <2>7. NoUrlTwice'
    <3>1. \A i \in DOMAIN queue : queue[i].url # url
      BY <2>3 DEF Queued
    <3>2. \A i, j \in DOMAIN queue' : queue'[i].url = queue'[j].url => i = j
      BY ZenonT(60), <2>1, <2>2, <2>5, <3>1 DEF NoUrlTwice
    <3>3. Queued' \cap visited' = {}
      BY <1>1, <2>1, <2>3 DEF NoUrlTwice
    <3>4. visited' \cup Queued' = discovered' \cup {Root}
      BY <1>1, <1>7, <2>1 DEF NoUrlTwice
    <3>5. QED
      BY <1>1, <3>2, <3>3, <3>4 DEF NoUrlTwice
  <2>8. FrontierBounded'
    <3>1. Cardinality(visited) + Len(queue) < MaxPages
      BY <1>2, <2>3, BoundsAssumption DEF Room
    <3>2. QED
      BY <1>1, <1>2, <2>1, <3>1, BoundsAssumption DEF FrontierBounded, n
  <2>9. Levels'
    <3>1. ASSUME NEW i \in DOMAIN queue
          PROVE  Reached(queue[i])'
      BY <1>1, <2>1 DEF Levels, Reached
    <3>2. Reached(queue'[n])
      <4>1. cur.depth + 1 <= MaxDepth /\ cur.depth + 1 > 0
            /\ (cur.depth + 1) - 1 = cur.depth
        BY <1>2, <1>7, BoundsAssumption
      <4>2. url # Root
        BY <2>3 DEF NoUrlTwice
      <4>3. url \in pages[last].links
        BY <1>1, <1>3
      <4>4. ASSUME NEW j \in DOMAIN pages, url \in pages[j].links
            PROVE  cur.depth + 1 <= pages[j].depth + 1
        <5>1. pages[j].depth \in Nat
          BY <1>2 DEF Pages
        <5>2. SUFFICES ASSUME pages[j].depth < cur.depth PROVE FALSE
          BY <1>2, <5>1
        <5>3. j # last /\ pages[j].depth < MaxDepth
          BY <1>2, <1>3, <1>7, <5>1, <5>2, BoundsAssumption
        <5>4. pages[j].links \subseteq visited \cup Queued
          BY <2>3, <5>3 DEF Explored, Pending, last
        <5>5. QED
          BY <2>3, <4>4, <5>4
      <4>5. QED
        BY <1>3, <2>5, <4>1, <4>2, <4>3, <4>4 DEF Reached
    <3>3. \A i \in DOMAIN queue' : Reached(queue'[i])
      BY <1>1, <2>1, <2>2, <3>1, <3>2 DEF Reached
    <3>4. (\A i \in DOMAIN queue : Reached(queue[i]))'
      BY <1>1, <3>3 DEF Reached
    <3>5. \A i \in DOMAIN queue :
            cur.depth <= queue[i].depth /\ queue[i].depth <= cur.depth + 1
      BY <1>1 DEF AtHand
    <3>6. \A i, j \in DOMAIN queue' :
            i < j => /\ queue'[i].depth <= queue'[j].depth
                     /\ queue'[j].depth <= queue'[i].depth + 1
      <4>1. SUFFICES ASSUME NEW i \in DOMAIN queue', NEW j \in DOMAIN queue', i < j
                     PROVE  /\ queue'[i].depth <= queue'[j].depth
                            /\ queue'[j].depth <= queue'[i].depth + 1
        OBVIOUS
      <4>2. i \in DOMAIN queue /\ queue'[i] = queue[i] /\ queue[i].depth \in Nat
        <5>1. i # n
          BY <2>2, <4>1
        <5>2. i \in DOMAIN queue
          BY <2>2, <5>1
        <5>3. QED
          BY <1>2, <2>1, <5>2 DEF Items
      <4>3. CASE j \in DOMAIN queue
        BY <2>1, <4>1, <4>2, <4>3 DEF Levels
      <4>4. CASE j = n
        BY <1>2, <2>5, <3>5, <4>2, <4>4
      <4>5. QED
        BY <2>2, <4>3, <4>4
    <3>7. \A i \in DOMAIN pages', j \in DOMAIN queue' :
            pages'[i].depth <= queue'[j].depth
      <4>1. SUFFICES ASSUME NEW i \in DOMAIN pages, NEW j \in DOMAIN queue'
                     PROVE  pages[i].depth <= queue'[j].depth
        BY <1>1
      <4>2. pages[i].depth \in Nat /\ pages[i].depth <= cur.depth
        BY <1>1, <1>2 DEF AtHand, Pages
      <4>3. CASE j \in DOMAIN queue
        BY <2>1, <4>3 DEF Levels
      <4>4. CASE j = n
        BY <1>2, <2>5, <4>2, <4>4
      <4>5. QED
        BY <2>2, <4>3, <4>4
    <3>8. QED
      BY <3>4, <3>6, <3>7 DEF Levels
  <2>10. AtHand'
    <3>1. \A j \in DOMAIN queue' : /\ cur.depth <= queue'[j].depth
                                   /\ queue'[j].depth <= cur.depth + 1
      <4>1. ASSUME NEW j \in DOMAIN queue
            PROVE  /\ cur.depth <= queue'[j].depth
                   /\ queue'[j].depth <= cur.depth + 1
        BY <1>1, <2>1 DEF AtHand
      <4>2. /\ cur.depth <= queue'[n].depth
            /\ queue'[n].depth <= cur.depth + 1
        BY <1>2, <2>5
      <4>3. QED
        BY <2>2, <4>1, <4>2
    <3>2. QED
      BY <1>1, <3>1 DEF AtHand
  <2>11. ASSUME NEW i \in DOMAIN pages, Room' > 0, pages[i].depth < MaxDepth
         PROVE  pages[i].links \subseteq visited \cup Queued' \cup Pending(i)'
    <3>1. pages[i].links \subseteq visited \cup Queued \cup Pending(i)
      BY <2>3, <2>11 DEF Explored
    <3>2. QED
      BY <1>1, <2>1, <3>1 DEF Pending
  <2>12. Explored'
    BY <1>1, <2>11 DEF Explored
  <2>13. QED
    BY <1>4, <1>5, <2>6, <2>7, <2>8, <2>9, <2>10, <2>12
<1>8. QED
  BY <1>6, <1>7 DEF Follow

(* The steps that only change the place of the crawl.                      *)
LEMMA PlaceStep ==
  ASSUME IInv, NextPage \/ Finish \/ Abort
  PROVE  IInv'
<1> USE DEF IInv
<1>1. UNCHANGED <<queue, visited, pages, discovered, total, deepest, cur,
                  links, found, scripts>>
  BY DEF NextPage, Finish, Abort
<1>2. UNCHANGED Room /\ UNCHANGED Charged /\ UNCHANGED Queued
  BY <1>1 DEF Room, Charged, Queued
<1>3. NoUrlTwice' /\ FrontierBounded' /\ ShortestDepth' /\ Levels'
  BY <1>1, <1>2 DEF NoUrlTwice, FrontierBounded, ShortestDepth, Levels, Reached
<1>4. pc' \in {"loop", "done", "aborted"} /\ pc' # "scripts" /\ pc' # "follow"
  BY DEF NextPage, Finish, Abort
<1>5. AtHand'
  BY <1>4 DEF AtHand
<1>6. TypeOK'
  <2>1. CASE NextPage \/ Finish
    <3>1. scripts = 0
      BY <2>1, BoundsAssumption DEF TypeOK, NextPage, Finish
    <3>2. links = {} /\ found = {}
      BY <2>1 DEF TypeOK, NextPage, Finish
    <3>3. QED
      BY <1>1, <1>2, <1>4, <3>1, <3>2, BoundsAssumption DEF TypeOK, Places
  <2>2. CASE Abort
    BY <1>1, <1>2, <2>2 DEF TypeOK, Places, Abort
  <2>3. QED
    BY <2>1, <2>2
<1>7. Counted'
  <2>1. Len(pages) + 0 <= Cardinality(visited) /\ Cardinality(visited) \in Nat
        /\ Len(pages) \in Nat
    BY Counts DEF Counted
  <2>2. ASSUME pc' = "done", Cardinality(visited) < MaxPages
        PROVE  queue = <<>>
    <3>1. ~Running /\ pc = "loop"
      BY <2>2 DEF NextPage, Finish, Abort
    <3>2. Len(pages) < MaxPages
      BY <2>1, <2>2, BoundsAssumption
    <3>3. QED
      BY <3>1, <3>2 DEF Running
  <2>3. QED
    BY <1>1, <1>2, <1>4, <2>1, <2>2 DEF Counted
<1>8. Explored'
  <2>1. ASSUME NEW i \in DOMAIN pages PROVE Pending(i) = {}
    BY DEF Pending, NextPage, Finish, Abort, Running
  <2>2. QED
    BY <1>1, <1>2, <2>1 DEF Explored
<1>9. QED
  BY <1>3, <1>5, <1>6, <1>7, <1>8

(* Every step preserves the invariant.                                     *)
LEMMA StepInv == IInv /\ [Next]_vars => IInv'
<1> SUFFICES ASSUME IInv, [Next]_vars PROVE IInv'
  OBVIOUS
<1>1. CASE FetchFails
  <2>1. pc = "loop" /\ pc' = "loop" /\ scripts' = scripts
        /\ links' = links /\ found' = found
    BY <1>1 DEF FetchFails, Running
  <2>2. scripts = 0 /\ links = {} /\ found = {}
    BY <2>1, BoundsAssumption DEF IInv, TypeOK
  <2>3. QED
    BY <1>1, <2>1, <2>2, FetchStep DEF FetchFails
<1>2. ASSUME NEW ls \in LinkSets, NEW k \in 0..ScriptLimit, FetchPage(ls, k)
      PROVE  IInv'
  <2>1. scripts' \in 0..ScriptLimit /\ (scripts' > 0 => Room' > 0)
    BY <1>2, BoundsAssumption DEF FetchPage, ScriptsWanted
  <2>2. ls \in SUBSET Urls
    BY <1>2, LinkSetsAssumption
  <2>3. QED
    BY <1>2, <2>1, <2>2, FetchStep DEF FetchPage
<1>3. ASSUME NEW ls \in LinkSets, FetchScript(ls)
      PROVE  IInv'
  <2>1. scripts \in Nat /\ scripts > 0
    BY <1>3, BoundsAssumption DEF FetchScript, IInv, TypeOK
  <2>2. scripts' \in 0..(scripts - 1)
    BY <1>3, <2>1 DEF FetchScript
  <2>3. found' \in SUBSET Urls
    BY <1>3, LinkSetsAssumption DEF FetchScript, IInv, TypeOK
  <2>4. QED
    BY <1>3, <2>2, <2>3, ScriptStep DEF FetchScript
<1>4. CASE ScriptFails
  <2>1. scripts \in Nat /\ scripts > 0
    BY <1>4, BoundsAssumption DEF ScriptFails, IInv, TypeOK
  <2>2. scripts' \in 0..(scripts - 1)
    BY <1>4, <2>1 DEF ScriptFails
  <2>3. found' \in SUBSET Urls
    BY <1>4 DEF ScriptFails, IInv, TypeOK
  <2>4. QED
    BY <1>4, <2>2, <2>3, ScriptStep DEF ScriptFails
<1>5. CASE AddPage
  BY <1>5, AddPageStep
<1>6. ASSUME NEW url \in Urls, Follow(url)
      PROVE  IInv'
  BY <1>6, FollowStep
<1>7. CASE NextPage \/ Finish \/ Abort
  BY <1>7, PlaceStep
<1>8. CASE UNCHANGED vars
  <2>1. UNCHANGED <<pc, queue, visited, pages, discovered, total, deepest, cur,
                    links, found, scripts>>
    BY <1>8 DEF vars
  <2>2. TypeOK' /\ NoUrlTwice' /\ FrontierBounded' /\ Counted'
    BY <2>1 DEF IInv, TypeOK, NoUrlTwice, FrontierBounded, Counted, Room,
                Charged, Queued
  <2>3. ShortestDepth' /\ Levels' /\ AtHand' /\ Explored'
    BY <2>1 DEF IInv, ShortestDepth, Levels, AtHand, Explored, Reached, Room,
                Queued, Pending
  <2>4. QED
    BY <2>2, <2>3 DEF IInv
<1>9. QED
  BY <1>1, <1>2, <1>3, <1>4, <1>5, <1>6, <1>7, <1>8 DEF Next

(* The invariant holds throughout every crawl.                             *)
THEOREM Invariance == Spec => []IInv
  BY InitInv, StepInv, PTL DEF Spec
-----------------------------------------------------------------------------
(* crawl_web keeps its variables in their types, fetches scripts only      *)
(* while there is room, and carries no link over to the next page.         *)
THEOREM TypeCorrect == Spec => []TypeOK
<1>1. IInv => TypeOK
  BY DEF IInv
<1>2. QED
  BY <1>1, Invariance, PTL

(* No URL is queued or fetched twice, whatever pages and scripts name.     *)
THEOREM NoUrlIsFetchedTwice == Spec => []NoUrlTwice
<1>1. IInv => NoUrlTwice
  BY DEF IInv
<1>2. QED
  BY <1>1, Invariance, PTL

(* Visited and waiting URLs together stay within max_crawl_pages.          *)
THEOREM FrontierIsBounded == Spec => []FrontierBounded
<1>1. IInv => FrontierBounded
  BY DEF IInv
<1>2. QED
  BY <1>1, Invariance, PTL

(* Every depth crawl_web reports is the page's distance from the target.   *)
THEOREM DepthsAreShortest == Spec => []ShortestDepth
<1>1. IInv => ShortestDepth
  BY DEF IInv
<1>2. QED
  BY <1>1, Invariance, PTL

(* A crawl that ends below max_crawl_pages missed no link it could follow. *)
THEOREM CrawlIsComplete == Spec => []CompleteBelowLimit
<1>1. IInv => CompleteBelowLimit
  <2> SUFFICES ASSUME IInv, pc = "done", Cardinality(visited) < MaxPages,
                      NEW i \in DOMAIN pages, pages[i].depth < MaxDepth
               PROVE  pages[i].links \subseteq visited
    BY DEF CompleteBelowLimit
  <2>1. queue = <<>>
    BY DEF IInv, Counted
  <2>2. Queued = {} /\ Len(queue) = 0
    BY <2>1 DEF Queued
  <2>3. Room > 0
    BY <2>2, Counts, BoundsAssumption DEF Room, IInv
  <2>4. Pending(i) = {}
    BY DEF Pending
  <2>5. QED
    BY <2>2, <2>3, <2>4 DEF IInv, Explored
<1>2. QED
  BY <1>1, Invariance, PTL

(* The requests of a crawl stay within what its three limits allow.        *)
THEOREM RequestsAreBounded == Spec => []RequestsBounded
<1>1. IInv => RequestsBounded
  <2> SUFFICES ASSUME IInv PROVE RequestsBounded
    OBVIOUS
  <2>1. /\ total \in Nat /\ scripts \in Nat
        /\ Cardinality(visited) \in Nat /\ Len(queue) \in Nat
    BY Counts, BoundsAssumption DEF IInv, TypeOK
  <2>2. CASE MaxPages = 0
    BY <2>1, <2>2 DEF IInv, Counted, RequestsBounded
  <2>3. CASE MaxPages # 0
    <3>1. MaxPages \in Nat \ {0}
      BY <2>3, BoundsAssumption
    <3>2. Cardinality(visited) <= MaxPages
      BY <2>1, <2>3, <3>1 DEF IInv, FrontierBounded
    <3>3. Charged \in Nat /\ MaxPages - 1 \in Nat /\ Charged <= MaxPages - 1
      BY <2>1, <3>1 DEF Charged
    <3>4. ScriptLimit * Charged <= ScriptLimit * (MaxPages - 1)
      BY <3>3, ChargeGrows
    <3>5. ScriptLimit * Charged \in Nat /\ ScriptLimit * (MaxPages - 1) \in Nat
      BY <3>3, ChargeStep
    <3>6. total + scripts <= Cardinality(visited) + ScriptLimit * Charged
      BY <3>1 DEF IInv, Counted
    <3>7. total <= MaxPages + ScriptLimit * (MaxPages - 1)
      BY <2>1, <3>1, <3>2, <3>4, <3>5, <3>6
    <3>8. QED
      BY <2>3, <3>7 DEF RequestsBounded
  <2>4. QED
    BY <2>2, <2>3
<1>2. QED
  BY <1>1, Invariance, PTL
-----------------------------------------------------------------------------
(* What a crawl still has to do: a turn of the loop for each place left in *)
(* the frontier, and what the turn at hand has left.                       *)
Turn == ScriptLimit + Cardinality(Urls) + 4

TurnsLeft == (IF MaxPages = 0 THEN 1 ELSE MaxPages) - Cardinality(visited)

StepsLeft ==
  CASE pc = "loop"    -> 1
    [] pc = "scripts" -> 3 + scripts + Cardinality(Urls)
    [] pc = "follow"  -> 2 + Cardinality(links \cup found)
    [] OTHER          -> 0

Work == Turn * TurnsLeft + StepsLeft

(* No step of crawl_web is for nothing, however the pages of the target    *)
(* name each other: each leaves less to do.                                *)
WorkShrinks == [][/\ Work \in Nat /\ Work' < Work]_vars

(* One turn fewer is that much less work.                                  *)
LEMMA TurnSpent ==
  ASSUME NEW n \in Int
  PROVE  /\ Turn \in Nat
         /\ Turn * n \in Int
         /\ Turn * (n - 1) = Turn * n - Turn
         /\ n \in Nat => Turn * n \in Nat
<1>1. Turn \in Nat
  BY UrlsAssumption, BoundsAssumption, FS_CardinalityType DEF Turn
<1>2. \A m \in Nat, k \in Int :
        /\ m * k \in Int /\ m * (k - 1) = m * k - m
        /\ k \in Nat => m * k \in Nat
  OBVIOUS
<1> QED BY <1>1, <1>2

(* The links at hand are some of the URLs.                                 *)
LEMMA LinksCounted ==
  ASSUME TypeOK
  PROVE  /\ IsFiniteSet(links \cup found)
         /\ Cardinality(links \cup found) \in Nat
         /\ Cardinality(Urls) \in Nat
         /\ Cardinality(links \cup found) <= Cardinality(Urls)
<1>1. links \cup found \subseteq Urls
  BY DEF TypeOK
<1> QED BY <1>1, UrlsAssumption, FS_Subset, FS_CardinalityType

(* The work is a number.                                                   *)
LEMMA WorkCounts ==
  ASSUME IInv
  PROVE  /\ TurnsLeft \in Nat /\ StepsLeft \in Nat
         /\ Turn * TurnsLeft \in Nat /\ Work \in Nat
<1>1. Cardinality(visited) \in Nat /\ Len(queue) \in Nat
  BY Counts DEF IInv
<1>2. TurnsLeft \in Nat
  BY <1>1, BoundsAssumption DEF TurnsLeft, IInv, FrontierBounded
<1>3. scripts \in 0..ScriptLimit /\ pc \in Places
  BY DEF IInv, TypeOK
<1>4. Cardinality(links \cup found) \in Nat /\ Cardinality(Urls) \in Nat
  BY LinksCounted DEF IInv
<1>5. StepsLeft \in Nat
  BY <1>3, <1>4, BoundsAssumption DEF StepsLeft, Places
<1>6. Turn * TurnsLeft \in Nat
  BY <1>2, TurnSpent
<1> QED BY <1>2, <1>5, <1>6 DEF Work

(* A page taken from the queue costs a turn; what it may give the turn to  *)
(* do is less than one.                                                    *)
LEMMA PopSpends ==
  ASSUME IInv, Running, Pop,
         \/ pc' = "loop"
         \/ pc' = "scripts" /\ scripts' \in 0..ScriptLimit
  PROVE  Work' < Work
<1>1. /\ Cardinality(visited') = Cardinality(visited) + 1
      /\ Cardinality(visited) \in Nat
  BY PopEffect, Counts DEF IInv
<1>2. TurnsLeft' = TurnsLeft - 1
  BY <1>1, BoundsAssumption DEF TurnsLeft
<1>3. StepsLeft = 1
  BY DEF Running, StepsLeft
<1>4. StepsLeft' \in Nat /\ StepsLeft' < Turn
  <2>1. Cardinality(Urls) \in Nat
    BY UrlsAssumption, FS_CardinalityType
  <2> QED BY <2>1, BoundsAssumption DEF StepsLeft, Turn
<1>5. /\ TurnsLeft \in Nat /\ Turn * TurnsLeft \in Nat /\ Turn \in Nat
      /\ Turn * (TurnsLeft - 1) = Turn * TurnsLeft - Turn
  BY WorkCounts, TurnSpent
<1>6. Work' = (Turn * TurnsLeft - Turn) + StepsLeft'
  BY <1>2, <1>5 DEF Work, Turn
<1>7. Work = Turn * TurnsLeft + 1
  BY <1>3 DEF Work
<1>8. \A p, t, n \in Nat : n < t => (p - t) + n < p + 1
  OBVIOUS
<1> QED BY <1>4, <1>5, <1>6, <1>7, <1>8

(* Any other step leaves the turns as they are and the one at hand nearer  *)
(* to its end.                                                             *)
LEMMA TurnGoesOn ==
  ASSUME IInv, UNCHANGED visited, StepsLeft' \in Nat, StepsLeft' < StepsLeft
  PROVE  Work' < Work
<1>1. Turn' = Turn /\ TurnsLeft' = TurnsLeft
  BY DEF Turn, TurnsLeft
<1>2. Turn * TurnsLeft \in Nat /\ StepsLeft \in Nat
  BY WorkCounts
<1>3. Work' = Turn * TurnsLeft + StepsLeft'
  BY <1>1 DEF Work
<1> QED BY <1>2, <1>3 DEF Work

(* Every step uses up work.                                                *)
LEMMA WorkStep ==
  ASSUME IInv, Next
  PROVE  Work' < Work
<1>1. /\ pc \in Places /\ scripts \in 0..ScriptLimit
      /\ Cardinality(Urls) \in Nat
      /\ IsFiniteSet(links \cup found)
      /\ Cardinality(links \cup found) \in Nat
      /\ Cardinality(links \cup found) <= Cardinality(Urls)
  BY LinksCounted DEF IInv, TypeOK
<1>2. CASE FetchFails
  <2>1. pc' = "loop"
    BY <1>2 DEF FetchFails, Running
  <2> QED BY <1>2, <2>1, PopSpends DEF FetchFails
<1>3. ASSUME NEW ls \in LinkSets, NEW n \in 0..ScriptLimit, FetchPage(ls, n)
      PROVE  Work' < Work
  <2>1. scripts' \in 0..ScriptLimit
    BY <1>3, BoundsAssumption DEF FetchPage
  <2> QED BY <1>3, <2>1, PopSpends DEF FetchPage
<1>4. CASE \/ \E ls \in LinkSets : FetchScript(ls)
           \/ ScriptFails
  <2>1. /\ pc = "scripts" /\ pc' = "scripts" /\ UNCHANGED visited
        /\ scripts > 0 /\ scripts' \in {0, scripts - 1}
    BY <1>4 DEF FetchScript, ScriptFails
  <2>2. StepsLeft' \in Nat /\ StepsLeft' < StepsLeft
    BY <1>1, <2>1, BoundsAssumption DEF StepsLeft
  <2> QED BY <2>1, <2>2, TurnGoesOn
<1>5. CASE AddPage
  <2>1. /\ pc = "scripts" /\ scripts = 0 /\ pc' = "follow"
        /\ UNCHANGED <<visited, links>> /\ links' \cup found' = links \cup found
    BY <1>5 DEF AddPage
  <2>2. StepsLeft = 3 + Cardinality(Urls)
    BY <1>1, <2>1 DEF StepsLeft
  <2>3. StepsLeft' = 2 + Cardinality(links \cup found)
    BY <2>1 DEF StepsLeft
  <2> QED BY <1>1, <2>1, <2>2, <2>3, TurnGoesOn
<1>6. ASSUME NEW url \in Urls, Follow(url)
      PROVE  Work' < Work
  <2>1. /\ pc = "follow" /\ pc' = "follow" /\ UNCHANGED visited
        /\ url \in links \cup found
        /\ links' \cup found' = (links \cup found) \ {url}
    BY <1>6 DEF Follow, PassOver
  <2>2. Cardinality((links \cup found) \ {url})
          = Cardinality(links \cup found) - 1
    BY <1>1, <2>1, FS_RemoveElement
  <2>3. Cardinality((links \cup found) \ {url}) \in Nat
    BY <1>1, FS_Subset, FS_CardinalityType
  <2>4. StepsLeft = 2 + Cardinality(links \cup found)
    BY <2>1 DEF StepsLeft
  <2>5. StepsLeft' = 2 + Cardinality((links \cup found) \ {url})
    BY <2>1 DEF StepsLeft
  <2> QED BY <1>1, <2>1, <2>2, <2>3, <2>4, <2>5, TurnGoesOn
<1>7. CASE NextPage
  <2>1. StepsLeft = 2 + Cardinality(links \cup found) /\ StepsLeft' = 1
    BY <1>7 DEF NextPage, StepsLeft
  <2> QED BY <1>1, <1>7, <2>1, TurnGoesOn DEF NextPage
<1>8. CASE Finish
  <2>1. StepsLeft = 1 /\ StepsLeft' = 0
    BY <1>8 DEF Finish, StepsLeft
  <2> QED BY <1>8, <2>1, TurnGoesOn DEF Finish
<1>9. CASE Abort
  <2>1. StepsLeft \in {1, 3 + scripts + Cardinality(Urls)} /\ StepsLeft' = 0
    BY <1>9 DEF Abort, Running, StepsLeft
  <2>2. StepsLeft' \in Nat /\ StepsLeft' < StepsLeft
    BY <1>1, <2>1, BoundsAssumption
  <2> QED BY <1>9, <2>2, TurnGoesOn DEF Abort
<1> QED
  BY <1>2, <1>3, <1>4, <1>5, <1>6, <1>7, <1>8, <1>9 DEF Next

(* A crawl of any target has no more steps than the work it starts with:   *)
(* what CrawlEnds asks, but for a loop that is not scheduled at all.       *)
THEOREM CrawlSpendsWork == Spec => WorkShrinks
<1>1. IInv /\ [Next]_vars => [/\ Work \in Nat /\ Work' < Work]_vars
  BY WorkCounts, WorkStep
<1> QED BY <1>1, Invariance, PTL DEF Spec, WorkShrinks
=============================================================================
