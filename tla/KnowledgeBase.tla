--------------------------- MODULE KnowledgeBase ---------------------------
(***************************************************************************)
(* The retrieval store: rag/knowledge_base.py (KnowledgeBase).  Rebuilds   *)
(* and searches of any number of processes and threads share two files,    *)
(* the index and its manifest, and the SQLite result cache, without a      *)
(* lock; the documents they are built from are edited meanwhile.           *)
(*                                                                         *)
(* A version stands for the content it is the hash of.  write_text first   *)
(* truncates the file and then writes it: a file is Empty in between, and  *)
(* Garbage when two writes of different contents have run into each other. *)
(***************************************************************************)
EXTENDS Integers

CONSTANTS
  Workers,       \* calls of rebuild and search, one each
  Versions,      \* contents the knowledge directory may have
  Queries,       \* normalized queries, with their filters
  Asked,         \* values of top_k
  CacheEnabled,  \* rag_cache_enabled
  Absent, Empty, Garbage, None

Answers == [query : Queries, version : Versions, size : 1..5]

ASSUME NullsAssumption ==
  /\ Versions \cap {Absent, Empty, Garbage, None} = {}
  /\ Absent \notin {Empty, Garbage} /\ Empty # Garbage /\ None \notin Answers
ASSUME AskedAssumption == Asked \subseteq Nat /\ CacheEnabled \in BOOLEAN

VARIABLES
  docs,      \* what the knowledge directory holds
  index,     \* what the index file holds
  manifest,  \* what the manifest file holds
  cache,     \* rag_cache: <<query, version>> -> answer
  op,        \* per worker: its call
  pc,        \* per worker: where it is
  ver,       \* per worker: the version it built or read
  ans,       \* per worker: what its search returns
  alone      \* ghost, per worker: no other rebuild ran during its own

vars == <<docs, index, manifest, cache, op, pc, ver, ans, alone>>

Files == Versions \cup {Absent, Empty, Garbage}
Ops == [call : {"rebuild"}]
         \cup [call : {"search"}, query : Queries, top_k : Asked]

Rebuilding == {"open_index", "write_index", "open_manifest", "write_manifest",
               "clear"}
Ended == {"done", "failed", "crashed"}
Places == {"start", "read", "load", "lookup", "store"} \cup Rebuilding \cup Ended

Init ==
  /\ docs \in Versions
  /\ index = Absent /\ manifest = Absent
  /\ cache = [k \in Queries \X Versions |-> None]
  /\ op \in [Workers -> Ops]
  /\ pc = [w \in Workers |-> "start"]
  /\ ver = [w \in Workers |-> None]
  /\ ans = [w \in Workers |-> None]
  /\ alone = [w \in Workers |-> TRUE]
-----------------------------------------------------------------------------
Goto(w, place) == pc' = [pc EXCEPT ![w] = place]

(* rebuild, and _load_index of a search: without a file it rebuilds first. *)
Start(w) ==
  /\ pc[w] = "start"
  /\ Goto(w, IF op[w].call = "rebuild" \/ index = Absent THEN "load" ELSE "read")
  /\ UNCHANGED <<docs, index, manifest, cache, op, ver, ans, alone>>

(* The documents are read, chunked and hashed.                             *)
LoadDocuments(w) ==
  /\ pc[w] = "load"
  /\ ver' = [ver EXCEPT ![w] = docs]
  /\ LET others == {u \in Workers \ {w} : pc[u] \in Rebuilding}
     IN  alone' = [u \in Workers |->
                     alone[u] /\ (u \in others \cup {w} => others = {})]
  /\ Goto(w, "open_index")
  /\ UNCHANGED <<docs, index, manifest, cache, op, ans>>

(* What a file may hold after a write of v.                                *)
Written(file, v) == {v} \cup IF file \in {Empty, v} THEN {} ELSE {Garbage}

OpenIndex(w) ==
  /\ pc[w] = "open_index"
  /\ index' = Empty
  /\ Goto(w, "write_index")
  /\ UNCHANGED <<docs, manifest, cache, op, ver, ans, alone>>

WriteIndex(w) ==
  /\ pc[w] = "write_index"
  /\ index' \in Written(index, ver[w])
  /\ Goto(w, "open_manifest")
  /\ UNCHANGED <<docs, manifest, cache, op, ver, ans, alone>>

OpenManifest(w) ==
  /\ pc[w] = "open_manifest"
  /\ manifest' = Empty
  /\ Goto(w, "write_manifest")
  /\ UNCHANGED <<docs, index, cache, op, ver, ans, alone>>

(* Mutant: the documents are read again for the status.                    *)
Reread(w) == docs

Status(w) == ver[w]

WriteManifest(w) ==
  /\ pc[w] = "write_manifest"
  /\ manifest' \in Written(manifest, Status(w))
  /\ Goto(w, "clear")
  /\ UNCHANGED <<docs, index, cache, op, ver, ans, alone>>

(* _clear_cache_for_version; then the call ends, or the search goes on.    *)
ClearCache(w) ==
  /\ pc[w] = "clear"
  /\ cache' = [k \in Queries \X Versions |->
                 IF CacheEnabled /\ k[2] # ver[w] THEN None ELSE cache[k]]
  /\ Goto(w, IF op[w].call = "rebuild" THEN "done" ELSE "read")
  /\ UNCHANGED <<docs, index, manifest, op, ver, ans, alone>>

(* The index is read whole and parsed; a damaged one ends the search.      *)
ReadIndex(w) ==
  /\ pc[w] = "read"
  /\ \/ /\ index \in Versions
        /\ ver' = [ver EXCEPT ![w] = index]
        /\ Goto(w, "lookup")
     \/ /\ index \notin Versions
        /\ Goto(w, "failed")
        /\ UNCHANGED ver
  /\ UNCHANGED <<docs, index, manifest, cache, op, ans, alone>>

(* Mutant: no upper limit.                                                 *)
AtLeastOne(k) == IF k < 1 THEN 1 ELSE k

Clamp(k) == IF k < 1 THEN 1 ELSE IF k > 5 THEN 5 ELSE k

(* Mutant: a row is found under any version.                               *)
AnyRow(w) ==
  {cache[<<op[w].query, v>>] : v \in Versions} \ {None}

(* The row under _cache_key, which names the query and the version, not    *)
(* top_k.                                                                  *)
Rows(w) == {cache[<<op[w].query, ver[w]>>]} \ {None}

LookUp(w) ==
  /\ pc[w] = "lookup"
  /\ \/ /\ CacheEnabled
        /\ \E row \in Rows(w) : ans' = [ans EXCEPT ![w] = row]
        /\ Goto(w, "done")
     \/ /\ CacheEnabled => Rows(w) = {}
        /\ ans' = [ans EXCEPT ![w] =
                     [query |-> op[w].query, version |-> ver[w],
                      size |-> Clamp(op[w].top_k)]]
        /\ Goto(w, IF CacheEnabled THEN "store" ELSE "done")
  /\ UNCHANGED <<docs, index, manifest, cache, op, ver, alone>>

(* Mutant: the row is stored under the version the index has by now.       *)
KeyOfIndex(w) ==
  <<op[w].query, IF index \in Versions THEN index ELSE ver[w]>>

StoreKey(w) == <<op[w].query, ver[w]>>

StoreCache(w) ==
  /\ pc[w] = "store"
  /\ cache' = [cache EXCEPT ![StoreKey(w)] = ans[w]]
  /\ Goto(w, "done")
  /\ UNCHANGED <<docs, index, manifest, op, ver, ans, alone>>

(* A process is killed, or an error of the file system or SQLite ends the  *)
(* call, between two steps or halfway through a write.                     *)
Crash(w) ==
  /\ pc[w] \notin Ended
  /\ Goto(w, "crashed")
  /\ index' \in {index} \cup IF pc[w] = "write_index" THEN {Garbage} ELSE {}
  /\ manifest' \in {manifest}
                      \cup IF pc[w] = "write_manifest" THEN {Garbage} ELSE {}
  /\ UNCHANGED <<docs, cache, op, ver, ans, alone>>

(* Somebody edits the knowledge directory.                                 *)
Edit ==
  /\ docs' \in Versions \ {docs}
  /\ UNCHANGED <<index, manifest, cache, op, pc, ver, ans, alone>>

Step(w) ==
  \/ Start(w) \/ LoadDocuments(w) \/ OpenIndex(w) \/ WriteIndex(w)
  \/ OpenManifest(w) \/ WriteManifest(w) \/ ClearCache(w)
  \/ ReadIndex(w) \/ LookUp(w) \/ StoreCache(w)

Next == Edit \/ \E w \in Workers : Step(w) \/ Crash(w)

Spec == Init /\ [][Next]_vars

(* The files as they are when nothing is killed: what the tests exercise.  *)
UndisturbedSpec == Init /\ [][Edit \/ \E w \in Workers : Step(w)]_vars
-----------------------------------------------------------------------------
(* Every variable stays in its type; a version is at hand from the first   *)
(* read on, and a search's answer is there from the lookup on.             *)
TypeOK ==
  /\ docs \in Versions
  /\ index \in Files /\ manifest \in Files
  /\ cache \in [Queries \X Versions -> Answers \cup {None}]
  /\ op \in [Workers -> Ops]
  /\ pc \in [Workers -> Places]
  /\ ver \in [Workers -> Versions \cup {None}]
  /\ ans \in [Workers -> Answers \cup {None}]
  /\ alone \in [Workers -> BOOLEAN]
  /\ \A w \in Workers :
       /\ pc[w] \in Rebuilding \cup {"lookup", "store"} => ver[w] # None
       /\ pc[w] = "store" => ans[w] # None
       /\ pc[w] \in {"read", "lookup", "store"} => op[w].call = "search"

(* A search answers from the version of the index it has read, whether it  *)
(* ranks the chunks itself or finds the answer of another search, however  *)
(* many rebuilds come between its steps.                                   *)
AnswersMatchTheIndexRead ==
  \A w \in Workers :
    ans[w] # None => /\ ans[w].version = ver[w]
                     /\ ans[w].query = op[w].query

(* A cached row is an answer to its own key's query at its own version, so *)
(* a row that outlives its version's index is right when it comes back.    *)
RowsMatchTheirKeys ==
  \A k \in Queries \X Versions :
    cache[k] # None => cache[k].query = k[1] /\ cache[k].version = k[2]

(* A file is damaged, or the two disagree, only while a rebuild writes or  *)
(* after one was killed or ran together with another; a rebuild that runs  *)
(* alone leaves both files whole, of its own version, whatever it found.   *)
LoneRebuildsLeaveWholeFiles ==
  /\ \A w \in Workers :
       pc[w] = "clear" /\ alone[w] => index = ver[w] /\ manifest = ver[w]
  /\ (\A w \in Workers :
        alone[w] /\ pc[w] \notin (Rebuilding \ {"clear"}) \cup {"crashed"})
     => manifest = index /\ index \notin {Empty, Garbage}

(* "top_k enforcement" (tests/test_rag.py): a search returns no more than  *)
(* the results it was asked for.                                           *)
TopKEnforced ==
  \A w \in Workers :
    pc[w] = "done" /\ ans[w] # None => ans[w].size <= Clamp(op[w].top_k)
=============================================================================
