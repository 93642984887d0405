-------------------------- MODULE MCKnowledgeBase --------------------------
(* Small instances of KnowledgeBase for TLC.                               *)
EXTENDS KnowledgeBase, TLC

Symmetry == Permutations(Workers) \cup Permutations(Versions)
              \cup Permutations(Queries)
=============================================================================
