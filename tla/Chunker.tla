------------------------------ MODULE Chunker ------------------------------
(***************************************************************************)
(* The splitting of the knowledge documents into chunks, rag/chunker.py:   *)
(* chunk_documents and its _split_content.  A rebuild of the knowledge     *)
(* base (KnowledgeBase) runs it over all documents.                        *)
(*                                                                         *)
(* A text is a sequence of characters; which letter a letter is matters    *)
(* only where two texts are compared.                                      *)
(***************************************************************************)
EXTENDS Integers, Sequences, FiniteSets

CONSTANTS
  Letters, NewLine,
  OtherWhite,   \* the white space besides the line end
  Libraries,    \* lists of the documents' contents
  Settings,     \* [size, overlap]: rag_chunk_size, rag_chunk_overlap
  MaxParts      \* bound of the parts of a text, for those that never end

White == OtherWhite \cup {NewLine}
Chars == Letters \cup White

ASSUME CharsAssumption == Letters \cap White = {}
ASSUME LibrariesAssumption == Libraries \subseteq Seq(Seq(Chars))

(* The two come from the environment, and nothing compares them.           *)
ASSUME SettingsAssumption ==
  Settings \subseteq [size : Nat, overlap : Nat] /\ MaxParts \in Nat

VARIABLES
  settings,   \* chunk_size and chunk_overlap
  documents,  \* their contents
  at,         \* the document being split
  place,      \* "document", "paragraphs", "slices", "parts", "done"
  rest,       \* the text from the next paragraph on
  current,    \* the part being put together
  paragraph,  \* the paragraph being cut
  parts,      \* _split_content's chunks
  index,      \* of the next part to collect
  chunks      \* chunk_documents' chunks

vars == <<settings, documents, at, place, rest, current, paragraph, parts,
          index, chunks>>

Init ==
  /\ settings \in Settings /\ documents \in Libraries
  /\ at = 1 /\ place = "document"
  /\ rest = <<>> /\ current = <<>> /\ paragraph = <<>> /\ parts = <<>>
  /\ index = 1 /\ chunks = <<>>
-----------------------------------------------------------------------------
The(S) == CHOOSE i \in S : TRUE

(* s[:n], s[n:], and s[-n:], which the code takes for n > 0 only.          *)
UpTo(s, n) == SubSeq(s, 1, IF n < Len(s) THEN n ELSE Len(s))
From(s, n) == SubSeq(s, n + 1, Len(s))
Ending(s, n) == From(s, IF n < Len(s) THEN Len(s) - n ELSE 0)

(* str.strip.                                                              *)
FirstInk(s) ==
  {i \in 1..Len(s) : s[i] \notin White /\ \A k \in 1..(i - 1) : s[k] \in White}
LastInk(s) ==
  {i \in 1..Len(s) : s[i] \notin White /\ \A k \in (i + 1)..Len(s) : s[k] \in White}

Strip(s) ==
  IF FirstInk(s) = {} \/ LastInk(s) = {} THEN <<>>
  ELSE SubSeq(s, The(FirstInk(s)), The(LastInk(s)))

(* Where split("\n\n") cuts first, the paragraph before and the text after.*)
Breaks(s) == {i \in 1..(Len(s) - 1) : s[i] = NewLine /\ s[i + 1] = NewLine}
FirstBreak(s) == {i \in Breaks(s) : \A k \in Breaks(s) : i <= k}

Piece(s) == Strip(IF FirstBreak(s) = {} THEN s ELSE UpTo(s, The(FirstBreak(s)) - 1))
Beyond(s) == IF FirstBreak(s) = {} THEN <<>> ELSE From(s, The(FirstBreak(s)) + 1)

Text == Strip(documents[at])

Candidate ==
  IF current = <<>> THEN Piece(rest)
  ELSE current \o <<NewLine, NewLine>> \o Piece(rest)

(* Mutant: the line ends between the two are not counted.                  *)
FitsWithoutBreak == Len(current) + Len(Piece(rest)) <= settings.size

Fits == Len(Candidate) <= settings.size

Overlapped == Strip(Ending(current, settings.overlap) \o Piece(rest))

Pushed == IF current = <<>> THEN parts ELSE Append(parts, current)
-----------------------------------------------------------------------------
(* A text that fits, or is blank, is not split.                            *)
Whole ==
  /\ place = "document" /\ at <= Len(documents) /\ Len(Text) <= settings.size
  /\ parts' = IF Text = <<>> THEN <<>> ELSE <<Text>>
  /\ place' = "parts" /\ index' = 1
  /\ UNCHANGED <<settings, documents, at, rest, current, paragraph, chunks>>

Split ==
  /\ place = "document" /\ at <= Len(documents) /\ Len(Text) > settings.size
  /\ rest' = Text /\ current' = <<>> /\ parts' = <<>>
  /\ place' = "paragraphs"
  /\ UNCHANGED <<settings, documents, at, paragraph, index, chunks>>

NextParagraph == place = "paragraphs" /\ rest # <<>>

SkipBlank ==
  /\ NextParagraph /\ Piece(rest) = <<>>
  /\ rest' = Beyond(rest)
  /\ UNCHANGED <<settings, documents, at, place, current, paragraph, parts,
                 index, chunks>>

(* The paragraph still fits into the current part.                         *)
Join ==
  /\ NextParagraph /\ Piece(rest) # <<>> /\ Fits
  /\ current' = Candidate
  /\ rest' = Beyond(rest)
  /\ UNCHANGED <<settings, documents, at, place, paragraph, parts, index, chunks>>

(* It begins the next one, after the end of the current one.               *)
Overlap ==
  /\ NextParagraph /\ Piece(rest) # <<>> /\ ~Fits
  /\ current # <<>> /\ Len(Overlapped) <= settings.size
  /\ parts' = Pushed /\ current' = Overlapped
  /\ rest' = Beyond(rest)
  /\ UNCHANGED <<settings, documents, at, place, paragraph, index, chunks>>

(* It is too long, by itself or with the overlap, which is then dropped.   *)
Cut ==
  /\ NextParagraph /\ Piece(rest) # <<>> /\ ~Fits
  /\ current = <<>> \/ Len(Overlapped) > settings.size
  /\ parts' = Pushed /\ current' = <<>>
  /\ paragraph' = Piece(rest) /\ rest' = Beyond(rest)
  /\ place' = "slices"
  /\ UNCHANGED <<settings, documents, at, index, chunks>>

Advancing == settings.overlap < settings.size

(* Mutants: a slice begins where the last one ended; the step between      *)
(* slices is one short.                                                    *)
StepWithoutOverlap == settings.size
StepOneShort == IF Advancing THEN settings.size - settings.overlap - 1 ELSE 0

(* max(0, slice_end - chunk_overlap): how far behind a slice the next one  *)
(* begins, which is where it began when the overlap is the size or more.   *)
SliceStep == IF Advancing THEN settings.size - settings.overlap ELSE 0

RestOfParagraph == Strip(From(paragraph, SliceStep))

Slice ==
  /\ place = "slices" /\ Len(paragraph) > settings.size
  /\ Len(parts) < MaxParts
  /\ parts' = Append(parts, Strip(UpTo(paragraph, settings.size)))
  /\ paragraph' = RestOfParagraph
  /\ UNCHANGED <<settings, documents, at, place, rest, current, index, chunks>>

KeepRest ==
  /\ place = "slices" /\ Len(paragraph) <= settings.size
  /\ current' = paragraph /\ paragraph' = <<>>
  /\ place' = "paragraphs"
  /\ UNCHANGED <<settings, documents, at, rest, parts, index, chunks>>

EndOfText ==
  /\ place = "paragraphs" /\ rest = <<>>
  /\ parts' = Pushed /\ current' = <<>>
  /\ place' = "parts" /\ index' = 1
  /\ UNCHANGED <<settings, documents, at, rest, paragraph, chunks>>

Seen(content) == \E k \in 1..Len(chunks) : chunks[k].content = content

(* A part that is already a chunk, of whatever document, is left out.      *)
Collect ==
  /\ place = "parts" /\ index <= Len(parts)
  /\ LET content == Strip(parts[index])
     IN  chunks' = IF content = <<>> \/ Seen(content) THEN chunks
                   ELSE Append(chunks, [document |-> at, index |-> index,
                                        content |-> content])
  /\ index' = index + 1
  /\ UNCHANGED <<settings, documents, at, place, rest, current, paragraph, parts>>

EndOfDocument ==
  /\ place = "parts" /\ index > Len(parts)
  /\ at' = at + 1
  /\ place' = "document"
  /\ UNCHANGED <<settings, documents, rest, current, paragraph, parts, index, chunks>>

EndOfLibrary ==
  /\ place = "document" /\ at > Len(documents)
  /\ place' = "done"
  /\ UNCHANGED <<settings, documents, at, rest, current, paragraph, parts, index, chunks>>

Next ==
  \/ Whole \/ Split \/ SkipBlank \/ Join \/ Overlap \/ Cut \/ Slice \/ KeepRest
  \/ EndOfText \/ Collect \/ EndOfDocument \/ EndOfLibrary

Spec == Init /\ [][Next]_vars
-----------------------------------------------------------------------------
Parts == {p \in Seq(Chars) : Len(p) <= settings.size}
Chunks == [document : Nat, index : Nat, content : Parts]

(* Every variable stays in its type: no part and no chunk is longer than   *)
(* the chunk size, though parts are joined with the end of the last one    *)
(* and paragraphs are cut.                                                 *)
TypeOK ==
  /\ settings \in Settings /\ documents \in Libraries
  /\ at \in 1..(Len(documents) + 1)
  /\ place \in {"document", "paragraphs", "slices", "parts", "done"}
  /\ place \in {"paragraphs", "slices", "parts"} => at <= Len(documents)
  /\ rest \in Seq(Chars) /\ current \in Parts /\ paragraph \in Seq(Chars)
  /\ parts \in Seq(Parts) /\ chunks \in Seq(Chunks)
  /\ index \in Nat \ {0}

Holds(content, passage) ==
  \E i \in 0..(Len(content) - Len(passage)) :
    SubSeq(content, i + 1, i + Len(passage)) = passage

(* What a search looks for is in a chunk: wherever a text is cut, every    *)
(* passage of a paragraph that is no longer than the overlap and one       *)
(* character more is whole in a chunk.                                     *)
PassagesStayWhole ==
  \A d \in 1..(at - 1) :
    LET text == documents[d]
    IN  \A i \in 1..Len(text) : \A k \in i..Len(text) :
          /\ k - i <= settings.overlap
          /\ text[i] \notin White /\ text[k] \notin White
          /\ Breaks(text) \cap (i..k) = {}
          => \E c \in 1..Len(chunks) :
               Holds(chunks[c].content, SubSeq(text, i, k))

(* With an overlap below the size the cutting comes to an end: a text      *)
(* makes at most a part per paragraph, and one more for each step of the   *)
(* slices that it is long.                                                 *)
PartsBounded ==
  Advancing /\ place \in {"paragraphs", "slices", "parts"} =>
    Len(parts) <= Cardinality(Breaks(Text)) + 1
                    + Len(Text) \div (settings.size - settings.overlap)

(* With an overlap of the size or more it does not: whatever is done with  *)
(* the paragraphs before, no text with a paragraph longer than the size    *)
(* is ever behind it.                                                      *)
LongParagraphsStay ==
  ~Advancing =>
    \A d \in 1..(at - 1) :
      LET text == documents[d]
      IN  \A i \in 1..Len(text) : \A k \in i..Len(text) :
            /\ text[i] \notin White /\ text[k] \notin White
            /\ Breaks(text) \cap (i..k) = {}
            => k - i < settings.size

(* The cutting of a text ends where the two settings let it end, and only  *)
(* there: `while len(paragraph) > chunk_size` has no other way out.        *)
CuttingEndsAsSet == PartsBounded /\ LongParagraphsStay
=============================================================================
