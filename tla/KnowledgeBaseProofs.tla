------------------------ MODULE KnowledgeBaseProofs ------------------------
(***************************************************************************)
(* The safety invariants of KnowledgeBase for any number of rebuilds and   *)
(* searches, versions and queries.                                         *)
(*                                                                         *)
(* AnswersMatchTheIndexRead needs to know that a search that has its       *)
(* answer reads no index any more (AnswersAreLate).                        *)
(* LoneRebuildsLeaveWholeFiles needs what a rebuild without company finds  *)
(* in the files between its own writes (LoneProgress), and that two        *)
(* rebuilds under way know of each other (Company).                        *)
(***************************************************************************)
EXTENDS KnowledgeBase, TLAPS

AnswersAreLate ==
  \A w \in Workers : ans[w] # None => pc[w] \in {"store"} \cup Ended

Company ==
  \A w, u \in Workers :
    pc[w] \in Rebuilding /\ pc[u] \in Rebuilding /\ w # u => ~alone[w]

LoneProgress ==
  \A w \in Workers :
    alone[w] =>
      /\ pc[w] = "write_index" => index = Empty
      /\ pc[w] \in {"open_manifest", "write_manifest", "clear"} =>
           index = ver[w]
      /\ pc[w] = "write_manifest" => manifest = Empty
      /\ pc[w] = "clear" => manifest = ver[w]

Quiet ==
  \A w \in Workers :
    alone[w] /\ pc[w] \notin (Rebuilding \ {"clear"}) \cup {"crashed"}

WholeWhenQuiet == Quiet => manifest = index /\ index \notin {Empty, Garbage}
-----------------------------------------------------------------------------
(* The clamped top_k is the size of a possible answer.                     *)
LEMMA ClampType == \A k \in Nat : Clamp(k) \in 1..5
  BY DEF Clamp

(* A call is a rebuild or a search.                                        *)
LEMMA CallType ==
  \A o \in Ops :
    /\ o.call \in {"rebuild", "search"}
    /\ o.call = "search" => o \in [call : {"search"}, query : Queries, top_k : Asked]
  BY DEF Ops

(* The variables have their types initially.                               *)
LEMMA TypeInit == Init => TypeOK
  BY DEF Init, TypeOK, Files, Places, Rebuilding, Ended

(* Every step keeps the types.                                             *)
LEMMA TypeStep == TypeOK /\ [Next]_vars => TypeOK'
<1> SUFFICES ASSUME TypeOK, [Next]_vars PROVE TypeOK'
  OBVIOUS
<1> USE DEF TypeOK, Goto, Files, Places, Rebuilding, Ended
<1>1. ASSUME NEW w \in Workers, Step(w)
      PROVE  TypeOK'
  <2>1. CASE Start(w)
    <3>1. op[w].call \in {"rebuild", "search"}
      BY CallType
    <3>2. QED
      BY <2>1, <3>1 DEF Start
  <2>2. CASE LoadDocuments(w)
    <3>1. alone' \in [Workers -> BOOLEAN]
      BY <2>2 DEF LoadDocuments
    <3>2. QED
      BY <2>2, <3>1, NullsAssumption DEF LoadDocuments
  <2>3. CASE OpenIndex(w)
    BY <2>3 DEF OpenIndex
  <2>4. CASE WriteIndex(w)
    BY <2>4, NullsAssumption DEF WriteIndex, Written
  <2>5. CASE OpenManifest(w)
    BY <2>5 DEF OpenManifest
  <2>6. CASE WriteManifest(w)
    BY <2>6, NullsAssumption DEF WriteManifest, Written, Status
  <2>7. CASE ClearCache(w)
    <3>1. cache' \in [Queries \X Versions -> Answers \cup {None}]
      BY <2>7 DEF ClearCache
    <3>2. op[w].call \in {"rebuild", "search"}
      BY CallType
    <3>3. QED
      BY <2>7, <3>1, <3>2 DEF ClearCache
  <2>8. CASE ReadIndex(w)
    BY <2>8, NullsAssumption DEF ReadIndex
  <2>9. CASE LookUp(w)
    <3>1. /\ op[w] \in [call : {"search"}, query : Queries, top_k : Asked]
          /\ ver[w] \in Versions
      BY <2>9, CallType DEF LookUp
    <3>2. [query |-> op[w].query, version |-> ver[w],
           size |-> Clamp(op[w].top_k)] \in Answers
      BY <3>1, ClampType, AskedAssumption DEF Answers
    <3>3. Rows(w) \subseteq Answers
      BY <3>1 DEF Rows
    <3>4. /\ ans' \in [Workers -> Answers \cup {None}]
          /\ pc' \in [Workers -> Places]
          /\ UNCHANGED <<docs, index, manifest, cache, op, ver, alone>>
          /\ pc'[w] \in {"done", "store"}
          /\ pc'[w] = "store" => ans'[w] # None
          /\ \A u \in Workers \ {w} : pc'[u] = pc[u] /\ ans'[u] = ans[u]
      <4>1. CASE /\ \E row \in Rows(w) : ans' = [ans EXCEPT ![w] = row]
                 /\ Goto(w, "done")
        BY <2>9, <3>3, <4>1 DEF LookUp
      <4>2. CASE /\ ans' = [ans EXCEPT ![w] =
                              [query |-> op[w].query, version |-> ver[w],
                               size |-> Clamp(op[w].top_k)]]
                 /\ Goto(w, IF CacheEnabled THEN "store" ELSE "done")
        <5>1. [query |-> op[w].query, version |-> ver[w],
               size |-> Clamp(op[w].top_k)] # None
          BY <3>2, NullsAssumption
        <5>2. QED
          BY <2>9, <3>2, <4>2, <5>1 DEF LookUp
      <4>3. QED
        BY <2>9, <4>1, <4>2 DEF LookUp
    <3>5. ASSUME NEW u \in Workers
          PROVE  /\ pc'[u] \in Rebuilding \cup {"lookup", "store"} => ver'[u] # None
                 /\ pc'[u] = "store" => ans'[u] # None
                 /\ pc'[u] \in {"read", "lookup", "store"} => op'[u].call = "search"
      <4>1. CASE u = w
        BY <2>9, <3>1, <3>4, <4>1, NullsAssumption
      <4>2. CASE u # w
        BY <3>4, <4>2
      <4>3. QED
        BY <4>1, <4>2
    <3>6. QED
      BY <3>4, <3>5
  <2>10. CASE StoreCache(w)
    BY <2>10 DEF StoreCache, StoreKey
  <2>11. QED
    BY <1>1, <2>1, <2>2, <2>3, <2>4, <2>5, <2>6, <2>7, <2>8, <2>9, <2>10
       DEF Step
<1>2. ASSUME NEW w \in Workers, Crash(w)
      PROVE  TypeOK'
  BY <1>2 DEF Crash
<1>3. CASE Edit
  BY <1>3 DEF Edit
<1>4. CASE UNCHANGED vars
  BY <1>4 DEF vars
<1>5. QED
  BY <1>1, <1>2, <1>3, <1>4 DEF Next

(* KnowledgeBase keeps its variables in their types.                       *)
THEOREM TypeCorrect == Spec => []TypeOK
  BY TypeInit, TypeStep, PTL DEF Spec
-----------------------------------------------------------------------------
(* Rows answer their own key, and answers come after the last read.        *)
Answering == RowsMatchTheirKeys /\ AnswersMatchTheIndexRead /\ AnswersAreLate

(* A row that a search finds is an answer at the version it has read.      *)
LEMMA RowsFound ==
  ASSUME TypeOK, RowsMatchTheirKeys, NEW w \in Workers, pc[w] = "lookup",
         NEW row \in Rows(w)
  PROVE  row.query = op[w].query /\ row.version = ver[w]
<1>1. op[w].query \in Queries /\ ver[w] \in Versions
  BY CallType DEF TypeOK
<1>2. <<op[w].query, ver[w]>> \in Queries \X Versions
  BY <1>1
<1>3. row = cache[<<op[w].query, ver[w]>>] /\ row # None
  BY DEF Rows
<1>4. QED
  BY <1>2, <1>3 DEF RowsMatchTheirKeys

(* Every step keeps what is known of the answers.                          *)
LEMMA AnswersStep == TypeOK /\ Answering /\ [Next]_vars => Answering'
<1> SUFFICES ASSUME TypeOK, Answering, [Next]_vars PROVE Answering'
  OBVIOUS
<1> USE DEF Answering, Goto
<1>1. ASSUME UNCHANGED <<cache, op, ver, ans>>,
             \A w \in Workers : pc[w] \in {"store"} \cup Ended =>
                                  pc'[w] \in {"store"} \cup Ended
      PROVE  Answering'
  BY <1>1 DEF RowsMatchTheirKeys, AnswersMatchTheIndexRead, AnswersAreLate
<1>2. ASSUME NEW w \in Workers, Step(w)
      PROVE  Answering'
  <2>1. CASE Start(w) \/ OpenIndex(w) \/ WriteIndex(w) \/ OpenManifest(w)
             \/ WriteManifest(w)
    BY <1>1, <2>1 DEF Start, OpenIndex, WriteIndex, OpenManifest,
                      WriteManifest, TypeOK, Ended
  <2>2. CASE LoadDocuments(w) \/ ReadIndex(w)
    <3>1. ans[w] = None
      BY <2>2 DEF LoadDocuments, ReadIndex, AnswersAreLate, Ended
    <3>2. /\ UNCHANGED <<cache, op, ans>>
          /\ \A u \in Workers \ {w} : ver'[u] = ver[u] /\ pc'[u] = pc[u]
      BY <2>2 DEF LoadDocuments, ReadIndex, TypeOK
    <3>3. QED
      BY <3>1, <3>2 DEF RowsMatchTheirKeys, AnswersMatchTheIndexRead,
                        AnswersAreLate
  <2>3. CASE ClearCache(w)
    <3>1. /\ UNCHANGED <<op, ver, ans>>
          /\ \A k \in Queries \X Versions : cache'[k] \in {cache[k], None}
      BY <2>3 DEF ClearCache
    <3>2. \A u \in Workers : pc[u] \in {"store"} \cup Ended => pc'[u] = pc[u]
      BY <2>3 DEF ClearCache, TypeOK, Ended
    <3>3. QED
      BY <3>1, <3>2 DEF RowsMatchTheirKeys, AnswersMatchTheIndexRead,
                        AnswersAreLate
  <2>4. CASE LookUp(w)
    <3>1. /\ UNCHANGED <<cache, op, ver>>
          /\ \A u \in Workers \ {w} : ans'[u] = ans[u] /\ pc'[u] = pc[u]
          /\ pc'[w] \in {"store", "done"}
      BY <2>4 DEF LookUp, TypeOK
    <3>2. ans'[w].query = op[w].query /\ ans'[w].version = ver[w]
      <4>1. ASSUME NEW row \in Rows(w), ans' = [ans EXCEPT ![w] = row]
            PROVE  ans'[w].query = op[w].query /\ ans'[w].version = ver[w]
        <5>1. ans'[w] = row
          BY <4>1 DEF TypeOK
        <5>2. pc[w] = "lookup"
          BY <2>4 DEF LookUp
        <5>3. QED
          BY <5>1, <5>2, RowsFound
      <4>2. ASSUME ans' = [ans EXCEPT ![w] =
                             [query |-> op[w].query, version |-> ver[w],
                              size |-> Clamp(op[w].top_k)]]
            PROVE  ans'[w].query = op[w].query /\ ans'[w].version = ver[w]
        BY <4>2 DEF TypeOK
      <4>3. QED
        BY <2>4, <4>1, <4>2 DEF LookUp
    <3>3. QED
      BY <3>1, <3>2 DEF RowsMatchTheirKeys, AnswersMatchTheIndexRead,
                        AnswersAreLate, Ended
  <2>5. CASE StoreCache(w)
    <3>1. ans[w] # None /\ ans[w].query = op[w].query /\ ans[w].version = ver[w]
      BY <2>5 DEF StoreCache, TypeOK, AnswersMatchTheIndexRead
    <3>2. op[w].query \in Queries /\ ver[w] \in Versions
      BY <2>5, CallType DEF StoreCache, TypeOK
    <3>3. RowsMatchTheirKeys'
      <4>1. SUFFICES ASSUME NEW k \in Queries \X Versions, cache'[k] # None
                     PROVE  cache'[k].query = k[1] /\ cache'[k].version = k[2]
        BY DEF RowsMatchTheirKeys
      <4>2. CASE k = <<op[w].query, ver[w]>>
        <5>1. cache'[k] = ans[w] /\ k[1] = op[w].query /\ k[2] = ver[w]
          BY <2>5, <4>2 DEF StoreCache, StoreKey, TypeOK
        <5>2. QED
          BY <3>1, <5>1
      <4>3. CASE k # <<op[w].query, ver[w]>>
        <5>1. cache'[k] = cache[k]
          BY <2>5, <4>3 DEF StoreCache, StoreKey, TypeOK
        <5>2. QED
          BY <4>1, <5>1 DEF RowsMatchTheirKeys
      <4>4. QED
        BY <4>2, <4>3
    <3>4. QED
      BY <2>5, <3>3 DEF StoreCache, AnswersMatchTheIndexRead, AnswersAreLate,
                        TypeOK, Ended
  <2>6. QED
    BY <1>2, <2>1, <2>2, <2>3, <2>4, <2>5 DEF Step
<1>3. ASSUME NEW w \in Workers, Crash(w)
      PROVE  Answering'
  BY <1>1, <1>3 DEF Crash, TypeOK, Ended
<1>4. CASE Edit
  BY <1>1, <1>4 DEF Edit
<1>5. CASE UNCHANGED vars
  BY <1>1, <1>5 DEF vars
<1>6. QED
  BY <1>2, <1>3, <1>4, <1>5 DEF Next

(* No search ever mixes versions: it answers from the index it has read.   *)
THEOREM AnswersAreOfTheIndexRead == Spec => []AnswersMatchTheIndexRead
<1>1. Init => Answering
  BY DEF Init, Answering, RowsMatchTheirKeys, AnswersMatchTheIndexRead,
         AnswersAreLate
<1>2. Answering => AnswersMatchTheIndexRead
  BY DEF Answering
<1>3. QED
  BY <1>1, <1>2, AnswersStep, TypeCorrect, PTL DEF Spec

(* A cached row is always an answer to its own key.                        *)
THEOREM RowsAreOfTheirKeys == Spec => []RowsMatchTheirKeys
<1>1. Init => Answering
  BY DEF Init, Answering, RowsMatchTheirKeys, AnswersMatchTheIndexRead,
         AnswersAreLate
<1>2. Answering => RowsMatchTheirKeys
  BY DEF Answering
<1>3. QED
  BY <1>1, <1>2, AnswersStep, TypeCorrect, PTL DEF Spec
-----------------------------------------------------------------------------
FileInv == Company /\ LoneProgress /\ WholeWhenQuiet

(* A lone rebuild has the files to itself.                                 *)
LEMMA NobodyElse ==
  ASSUME Company, NEW w \in Workers, NEW u \in Workers,
         pc[w] \in Rebuilding, pc[u] \in Rebuilding, alone[w]
  PROVE  u = w
  BY DEF Company

(* A step of a call that touches neither file and starts no rebuild.       *)
LEMMA BystanderStep ==
  ASSUME TypeOK, FileInv, NEW w \in Workers, pc[w] \notin Ended,
         UNCHANGED <<index, manifest, alone>>,
         \A u \in Workers \ {w} : pc'[u] = pc[u] /\ ver'[u] = ver[u],
         pc'[w] \notin Rebuilding,
         pc[w] \in Rebuilding => pc[w] = "clear"
  PROVE  FileInv'
<1> USE DEF FileInv
<1>1. Company'
  BY DEF Company
<1>2. LoneProgress'
  <2>1. ASSUME NEW u \in Workers, alone[u]
        PROVE  /\ pc'[u] = "write_index" => index = Empty
               /\ pc'[u] \in {"open_manifest", "write_manifest", "clear"}
                    => index = ver'[u]
               /\ pc'[u] = "write_manifest" => manifest = Empty
               /\ pc'[u] = "clear" => manifest = ver'[u]
    <3>1. CASE u = w
      BY <3>1 DEF Rebuilding
    <3>2. CASE u # w
      BY <2>1, <3>2 DEF LoneProgress
    <3>3. QED
      BY <3>1, <3>2
  <2>2. QED
    BY <2>1 DEF LoneProgress
<1>3. WholeWhenQuiet'
  <2>1. ASSUME Quiet' PROVE Quiet
    <3>1. SUFFICES ASSUME NEW u \in Workers
                   PROVE  /\ alone[u]
                          /\ pc[u] \notin (Rebuilding \ {"clear"}) \cup {"crashed"}
      BY DEF Quiet
    <3>2. alone[u]
      BY <2>1 DEF Quiet
    <3>3. CASE u = w
      BY <3>2, <3>3 DEF Ended
    <3>4. CASE u # w
      BY <2>1, <3>2, <3>4 DEF Quiet
    <3>5. QED
      BY <3>2, <3>3, <3>4
  <2>2. QED
    BY <2>1 DEF WholeWhenQuiet
<1>4. QED
  BY <1>1, <1>2, <1>3

(* A step of a rebuild under way, which has the files to itself or is not  *)
(* alone.                                                                  *)
LEMMA WriterStep ==
  ASSUME TypeOK, FileInv, NEW w \in Workers, pc[w] \in Rebuilding,
         UNCHANGED <<ver, alone>>,
         \A u \in Workers \ {w} : pc'[u] = pc[u],
         pc'[w] \in Rebuilding \cup {"crashed"},
         alone[w] =>
           /\ pc'[w] = "write_index" => index' = Empty
           /\ pc'[w] \in {"open_manifest", "write_manifest", "clear"} =>
                index' = ver[w] /\ ver[w] \in Versions
           /\ pc'[w] = "write_manifest" => manifest' = Empty
           /\ pc'[w] = "clear" => manifest' = ver[w]
  PROVE  FileInv'
<1> USE DEF FileInv
<1>1. Company'
  <2>1. SUFFICES ASSUME NEW u \in Workers, NEW v \in Workers,
                        pc'[u] \in Rebuilding, pc'[v] \in Rebuilding, u # v
                 PROVE  ~alone[u]
    BY DEF Company
  <2>2. pc[u] \in Rebuilding /\ pc[v] \in Rebuilding
    BY <2>1
  <2>3. QED
    BY <2>1, <2>2 DEF Company
<1>2. LoneProgress'
  <2>1. ASSUME NEW u \in Workers, alone[u]
        PROVE  /\ pc'[u] = "write_index" => index' = Empty
               /\ pc'[u] \in {"open_manifest", "write_manifest", "clear"}
                    => index' = ver[u]
               /\ pc'[u] = "write_manifest" => manifest' = Empty
               /\ pc'[u] = "clear" => manifest' = ver[u]
    <3>1. CASE u = w
      BY <2>1, <3>1
    <3>2. CASE u # w
      <4>1. pc[u] \notin Rebuilding
        BY <2>1, <3>2, NobodyElse
      <4>2. QED
        BY <3>2, <4>1 DEF Rebuilding
    <3>3. QED
      BY <3>1, <3>2
  <2>2. QED
    BY <2>1 DEF LoneProgress
<1>3. WholeWhenQuiet'
  <2>1. SUFFICES ASSUME Quiet'
                 PROVE  manifest' = index' /\ index' \notin {Empty, Garbage}
    BY DEF WholeWhenQuiet
  <2>2. alone[w] /\ pc'[w] = "clear"
    BY <2>1 DEF Quiet
  <2>3. QED
    BY <2>2, NullsAssumption
<1>4. QED
  BY <1>1, <1>2, <1>3

(* Every step keeps what is known of the files.                            *)
LEMMA FilesStep == TypeOK /\ FileInv /\ [Next]_vars => FileInv'
<1> SUFFICES ASSUME TypeOK, FileInv, [Next]_vars PROVE FileInv'
  OBVIOUS
<1> USE DEF Goto
<1>1. ASSUME NEW w \in Workers, Step(w)
      PROVE  FileInv'
  <2>1. CASE Start(w) \/ LookUp(w) \/ StoreCache(w) \/ ReadIndex(w)
             \/ ClearCache(w)
    <3>1. /\ pc[w] \in {"start", "lookup", "store", "read", "clear"}
          /\ UNCHANGED <<index, manifest, alone>>
          /\ \A u \in Workers \ {w} : pc'[u] = pc[u] /\ ver'[u] = ver[u]
          /\ pc'[w] \in {"load", "read", "done", "store", "lookup", "failed"}
      BY <2>1 DEF Start, LookUp, StoreCache, ReadIndex, ClearCache, TypeOK
    <3>2. QED
      BY <3>1, BystanderStep DEF Rebuilding, Ended
  <2>2. CASE LoadDocuments(w)
    <3> DEFINE others == {u \in Workers \ {w} : pc[u] \in Rebuilding}
    <3>1. /\ pc[w] = "load" /\ pc'[w] = "open_index"
          /\ UNCHANGED <<index, manifest>>
          /\ \A u \in Workers \ {w} : pc'[u] = pc[u] /\ ver'[u] = ver[u]
      BY <2>2 DEF LoadDocuments, TypeOK
    <3>2. \A u \in Workers :
            alone'[u] <=> alone[u] /\ (u \in others \cup {w} => others = {})
      BY <2>2 DEF LoadDocuments
    <3>3. Company'
      <4>1. SUFFICES ASSUME NEW u \in Workers, NEW v \in Workers,
                            pc'[u] \in Rebuilding, pc'[v] \in Rebuilding, u # v
                     PROVE  ~alone'[u]
        BY DEF Company
      <4>2. CASE u # w /\ v # w
        BY <3>1, <3>2, <4>1, <4>2 DEF FileInv, Company
      <4>3. CASE u = w \/ v = w
        <5>1. others # {} /\ u \in others \cup {w}
          BY <3>1, <4>1, <4>3
        <5>2. QED
          BY <3>2, <5>1
      <4>4. QED
        BY <4>2, <4>3
    <3>4. LoneProgress'
      <4>1. ASSUME NEW u \in Workers, alone'[u]
            PROVE  /\ pc'[u] = "write_index" => index = Empty
                   /\ pc'[u] \in {"open_manifest", "write_manifest", "clear"}
                        => index = ver'[u]
                   /\ pc'[u] = "write_manifest" => manifest = Empty
                   /\ pc'[u] = "clear" => manifest = ver'[u]
        <5>1. CASE u = w
          BY <3>1, <5>1
        <5>2. CASE u # w
          <6>1. alone[u]
            BY <3>2, <4>1
          <6>2. QED
            BY <3>1, <5>2, <6>1 DEF FileInv, LoneProgress
        <5>3. QED
          BY <5>1, <5>2
      <4>2. QED
        BY <3>1, <4>1 DEF LoneProgress
    <3>5. ~Quiet'
      BY <3>1 DEF Quiet, Rebuilding
    <3>6. QED
      BY <3>3, <3>4, <3>5 DEF FileInv, WholeWhenQuiet
  <2>3. CASE OpenIndex(w) \/ WriteIndex(w) \/ OpenManifest(w) \/ WriteManifest(w)
    <3>1. /\ pc[w] \in Rebuilding /\ pc'[w] \in Rebuilding
          /\ UNCHANGED <<ver, alone>>
          /\ \A u \in Workers \ {w} : pc'[u] = pc[u]
      BY <2>3 DEF OpenIndex, WriteIndex, OpenManifest, WriteManifest, TypeOK,
                  Rebuilding
    <3>2. ver[w] \in Versions
      BY <3>1 DEF TypeOK
    <3>3. ASSUME alone[w]
          PROVE  /\ pc'[w] = "write_index" => index' = Empty
                 /\ pc'[w] \in {"open_manifest", "write_manifest", "clear"} =>
                      index' = ver[w] /\ ver[w] \in Versions
                 /\ pc'[w] = "write_manifest" => manifest' = Empty
                 /\ pc'[w] = "clear" => manifest' = ver[w]
      <4>1. CASE OpenIndex(w)
        BY <4>1 DEF OpenIndex, TypeOK
      <4>2. CASE WriteIndex(w)
        <5>1. index = Empty
          BY <3>3, <4>2 DEF WriteIndex, FileInv, LoneProgress
        <5>2. QED
          BY <3>2, <4>2, <5>1 DEF WriteIndex, Written, TypeOK
      <4>3. CASE OpenManifest(w)
        <5>1. index = ver[w]
          BY <3>3, <4>3 DEF OpenManifest, FileInv, LoneProgress
        <5>2. QED
          BY <3>2, <4>3, <5>1 DEF OpenManifest, TypeOK
      <4>4. CASE WriteManifest(w)
        <5>1. index = ver[w] /\ manifest = Empty
          BY <3>3, <4>4 DEF WriteManifest, FileInv, LoneProgress
        <5>2. QED
          BY <3>2, <4>4, <5>1 DEF WriteManifest, Written, Status, TypeOK
      <4>5. QED
        BY <2>3, <4>1, <4>2, <4>3, <4>4
    <3>4. QED
      BY <3>1, <3>3, WriterStep
  <2>4. QED
    BY <1>1, <2>1, <2>2, <2>3 DEF Step
<1>2. ASSUME NEW w \in Workers, Crash(w)
      PROVE  FileInv'
  <2>1. /\ pc[w] \notin Ended /\ pc'[w] = "crashed"
        /\ \A u \in Workers \ {w} : pc'[u] = pc[u]
        /\ UNCHANGED <<ver, alone>>
    BY <1>2 DEF Crash, TypeOK
  <2>2. CASE pc[w] \in Rebuilding
    BY <2>1, <2>2, WriterStep
  <2>3. CASE pc[w] \notin Rebuilding
    <3>1. UNCHANGED <<index, manifest>>
      BY <1>2, <2>3 DEF Crash, Rebuilding
    <3>2. QED
      BY <2>1, <2>3, <3>1, BystanderStep DEF Rebuilding
  <2>4. QED
    BY <2>2, <2>3
<1>3. CASE Edit
  BY <1>3 DEF Edit, FileInv, Company, LoneProgress, WholeWhenQuiet, Quiet
<1>4. CASE UNCHANGED vars
  BY <1>4 DEF vars, FileInv, Company, LoneProgress, WholeWhenQuiet, Quiet
<1>5. QED
  BY <1>1, <1>2, <1>3, <1>4 DEF Next

(* A rebuild that runs alone leaves a whole index and its own manifest,    *)
(* and only a killed or an accompanied one leaves anything else.           *)
THEOREM FilesAreWhole == Spec => []LoneRebuildsLeaveWholeFiles
<1>1. Init => FileInv
  BY NullsAssumption DEF Init, FileInv, Company, LoneProgress, WholeWhenQuiet,
                         Rebuilding
<1>2. FileInv => LoneRebuildsLeaveWholeFiles
  BY DEF FileInv, LoneProgress, WholeWhenQuiet, Quiet,
         LoneRebuildsLeaveWholeFiles
<1>3. QED
  BY <1>1, <1>2, FilesStep, TypeCorrect, PTL DEF Spec
=============================================================================
