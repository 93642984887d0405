----------------------------- MODULE MCChunker -----------------------------
(* Small instances of Chunker for TLC.  A letter is the place it stands    *)
(* at, so that the letters of a document differ and those of two documents *)
(* may be the same.                                                        *)
EXTENDS Chunker, SequencesExt

MCLetters == 1..40

(* Pieces of a document: x a letter, b a space, n a line end.              *)
n == 0
b == 99
x == 100

Pieces ==
  {<<x>>, <<b>>, <<x, x, x>>, <<x, n, x>>, <<x, x, b, x, x>>,
   <<x, x, x, b, b, x, x, x, x>>, <<x, b, x, x, x, x, x>>}

Written(text, char) == Append(text, IF char = x THEN Len(text) + 1 ELSE char)

Joined(text, piece) ==
  FoldLeft(Written, text, IF text = <<>> THEN piece ELSE <<n, n>> \o piece)

Contents == {FoldLeft(Joined, <<>>, s) : s \in BoundedSeq(Pieces, 3)}

MCLibraries ==
  {<<text>> : text \in Contents}
    \cup {<<text, other>> : text, other \in {t \in Contents : Len(t) <= 6}}

(* Overlaps below a size, the size itself, and one above it.               *)
MCSettings ==
  {s \in [size : {1, 3, 4, 6}, overlap : {0, 2, 4}] : s.overlap <= s.size + 1}
=============================================================================
