--------------------------- MODULE ChunkerProofs ---------------------------
(***************************************************************************)
(* The splitting of all documents, for all sizes and overlaps.             *)
(*                                                                         *)
(* TypeOK: no part and no chunk is longer than the chunk size.             *)
(* CuttingAdvances: every step leaves less to cut, but for the slices when *)
(* the overlap is the size or more.  PartsBounded is made inductive by     *)
(* CountInv, in which each part is paid for by a paragraph taken or a      *)
(* slice cut off, LongParagraphsStay by LongInv, which says where a        *)
(* passage longer than the size stays for ever, and PassagesStayWhole by   *)
(* WholeInv, which says where a passage is until a chunk has it: ahead, in *)
(* hand or in a part.                                                      *)
(***************************************************************************)
EXTENDS Chunker, SequenceTheorems, FiniteSetTheorems, TLAPS

(* A piece of a text is a text that is no longer.                          *)
LEMMA SubText ==
  ASSUME NEW s \in Seq(Chars), NEW a \in Nat \ {0}, NEW b \in Nat, b <= Len(s)
  PROVE  /\ SubSeq(s, a, b) \in Seq(Chars)
         /\ Len(SubSeq(s, a, b)) = IF a <= b THEN b - a + 1 ELSE 0
<1>1. \A i \in a..b : s[i] \in Chars
  BY ElementOfSeq
<1> QED BY <1>1, SubSeqProperties

(* It has the characters that stood there.                                 *)
LEMMA SubChars ==
  ASSUME NEW s \in Seq(Chars), NEW a \in Nat \ {0}, NEW b \in Nat, b <= Len(s)
  PROVE  \A i \in 1..(b - a + 1) : SubSeq(s, a, b)[i] = s[i + (a - 1)]
<1>1. \A i \in a..b : s[i] \in Chars
  BY ElementOfSeq
<1>2. \A i \in 1..(b - a + 1) : SubSeq(s, a, b)[i] = s[a + i - 1]
  BY <1>1, SubSeqProperties
<1>3. \A i \in 1..(b - a + 1) : a + i - 1 = i + (a - 1)
  OBVIOUS
<1> QED BY <1>2, <1>3

LEMMA SliceTypes ==
  ASSUME NEW s \in Seq(Chars), NEW n \in Nat
  PROVE  /\ UpTo(s, n) \in Seq(Chars) /\ Len(UpTo(s, n)) <= n
         /\ From(s, n) \in Seq(Chars)
         /\ Ending(s, n) \in Seq(Chars)
<1>1. Len(s) \in Nat
  BY LenProperties
<1>2. UpTo(s, n) \in Seq(Chars) /\ Len(UpTo(s, n)) <= n
  <2>1. CASE n < Len(s)
    BY <1>1, <2>1, SubText DEF UpTo
  <2>2. CASE ~ n < Len(s)
    BY <1>1, <2>2, SubText DEF UpTo
  <2> QED BY <2>1, <2>2
<1>3. \A m \in Nat : From(s, m) \in Seq(Chars)
  BY <1>1, SubText DEF From
<1>4. (IF n < Len(s) THEN Len(s) - n ELSE 0) \in Nat
  BY <1>1
<1> QED BY <1>2, <1>3, <1>4 DEF Ending

LEMMA StripType ==
  ASSUME NEW s \in Seq(Chars)
  PROVE  Strip(s) \in Seq(Chars) /\ Len(Strip(s)) <= Len(s)
<1>1. Len(s) \in Nat
  BY LenProperties
<1>2. CASE FirstInk(s) = {} \/ LastInk(s) = {}
  BY <1>1, <1>2, EmptySeq DEF Strip
<1>3. CASE FirstInk(s) # {} /\ LastInk(s) # {}
  <2>1. The(FirstInk(s)) \in FirstInk(s) /\ The(LastInk(s)) \in LastInk(s)
    BY <1>3 DEF The
  <2>2. The(FirstInk(s)) \in 1..Len(s) /\ The(LastInk(s)) \in 1..Len(s)
    BY <2>1 DEF FirstInk, LastInk
  <2> HIDE DEF The
  <2>3. /\ SubSeq(s, The(FirstInk(s)), The(LastInk(s))) \in Seq(Chars)
        /\ Len(SubSeq(s, The(FirstInk(s)), The(LastInk(s)))) <= Len(s)
    BY <1>1, <2>2, SubText
  <2> QED BY <1>3, <2>3 DEF Strip
<1> QED BY <1>2, <1>3

LEMMA PieceType ==
  ASSUME NEW s \in Seq(Chars)
  PROVE  Piece(s) \in Seq(Chars) /\ Beyond(s) \in Seq(Chars)
<1>1. CASE FirstBreak(s) = {}
  BY <1>1, StripType, EmptySeq DEF Piece, Beyond
<1>2. CASE FirstBreak(s) # {}
  <2>1. The(FirstBreak(s)) \in Nat \ {0}
    <3>1. The(FirstBreak(s)) \in FirstBreak(s)
      BY <1>2 DEF The
    <3> QED BY <3>1, LenProperties DEF FirstBreak, Breaks
  <2>2. /\ UpTo(s, The(FirstBreak(s)) - 1) \in Seq(Chars)
        /\ From(s, The(FirstBreak(s)) + 1) \in Seq(Chars)
    BY <2>1, SliceTypes
  <2> QED BY <1>2, <2>2, StripType DEF Piece, Beyond
<1> QED BY <1>1, <1>2
-----------------------------------------------------------------------------
(* What the variables are, for the steps below.                            *)
LEMMA TextTypes ==
  ASSUME TypeOK
  PROVE  /\ settings.size \in Nat /\ settings.overlap \in Nat
         /\ SliceStep \in Nat
         /\ Len(documents) \in Nat /\ documents \in Seq(Seq(Chars))
         /\ at \in Nat /\ index \in Nat \ {0}
         /\ <<NewLine, NewLine>> \in Seq(Chars)
         /\ Piece(rest) \in Seq(Chars) /\ Beyond(rest) \in Seq(Chars)
         /\ at <= Len(documents) => Text \in Seq(Chars)
<1>1. /\ settings \in [size : Nat, overlap : Nat]
      /\ SliceStep \in Nat
  BY SettingsAssumption DEF TypeOK, SliceStep, Advancing
<1>2. documents \in Seq(Seq(Chars)) /\ Len(documents) \in Nat
  BY LibrariesAssumption, LenProperties DEF TypeOK
<1>3. at \in Nat /\ at >= 1
  BY <1>2 DEF TypeOK
<1>4. <<NewLine, NewLine>> \in Seq(Chars)
  BY DEF Chars, White
<1>5. at <= Len(documents) => Text \in Seq(Chars)
  <2> SUFFICES ASSUME at <= Len(documents) PROVE Text \in Seq(Chars)
    OBVIOUS
  <2>1. documents[at] \in Seq(Chars)
    BY <1>2, <1>3, ElementOfSeq
  <2> QED BY <2>1, StripType DEF Text
<1>6. Piece(rest) \in Seq(Chars) /\ Beyond(rest) \in Seq(Chars)
  BY PieceType DEF TypeOK
<1> QED BY <1>1, <1>2, <1>3, <1>4, <1>5, <1>6 DEF TypeOK

LEMMA PushedType ==
  ASSUME TypeOK
  PROVE  Pushed \in Seq(Parts) /\ <<>> \in Parts
<1>1. <<>> \in Parts
  BY TextTypes, EmptySeq DEF Parts
<1>2. Append(parts, current) \in Seq(Parts)
  BY AppendProperties DEF TypeOK
<1> QED BY <1>1, <1>2 DEF Pushed, TypeOK

LEMMA TypeStep == TypeOK /\ [Next]_vars => TypeOK'
<1> SUFFICES ASSUME TypeOK, [Next]_vars PROVE TypeOK'
  OBVIOUS
<1> USE TextTypes
<1>1. CASE Whole
  <2>1. Text = <<>> \/ Text \in Parts
    BY <1>1 DEF Whole, Parts
  <2>2. parts' \in Seq(Parts)
    BY <1>1, <2>1, EmptySeq DEF Whole
  <2> QED BY <1>1, <2>2 DEF Whole, TypeOK, Parts, Chunks
<1>2. CASE Split
  BY <1>2, EmptySeq, PushedType DEF Split, TypeOK, Parts, Chunks
<1>3. CASE SkipBlank
  BY <1>3 DEF SkipBlank, NextParagraph, TypeOK, Parts, Chunks
<1>4. CASE Join
  <2>1. Candidate \in Seq(Chars)
    BY ConcatProperties DEF Candidate, TypeOK, Parts
  <2>2. Candidate \in Parts
    BY <1>4, <2>1 DEF Join, Fits, Parts
  <2> QED BY <1>4, <2>2 DEF Join, NextParagraph, TypeOK, Parts, Chunks
<1>5. CASE Overlap
  <2>1. Overlapped \in Seq(Chars)
    <3>1. Ending(current, settings.overlap) \in Seq(Chars)
      BY SliceTypes DEF TypeOK, Parts
    <3> QED BY <3>1, ConcatProperties, StripType DEF Overlapped
  <2>2. Overlapped \in Parts
    BY <1>5, <2>1 DEF Overlap, Parts
  <2> QED BY <1>5, <2>2, PushedType DEF Overlap, NextParagraph, TypeOK, Parts, Chunks
<1>6. CASE Cut
  BY <1>6, PushedType DEF Cut, NextParagraph, TypeOK, Parts, Chunks
<1>7. CASE Slice
  <2>1. paragraph \in Seq(Chars)
    BY DEF TypeOK
  <2>2. Strip(UpTo(paragraph, settings.size)) \in Parts
    <3>1. /\ UpTo(paragraph, settings.size) \in Seq(Chars)
          /\ Len(UpTo(paragraph, settings.size)) <= settings.size
      BY <2>1, SliceTypes
    <3> QED BY <3>1, StripType, LenProperties DEF Parts
  <2>3. RestOfParagraph \in Seq(Chars)
    BY <2>1, SliceTypes, StripType DEF RestOfParagraph
  <2>4. parts' \in Seq(Parts)
    BY <1>7, <2>2, AppendProperties DEF Slice, TypeOK
  <2> QED BY <1>7, <2>3, <2>4 DEF Slice, TypeOK, Parts, Chunks
<1>8. CASE KeepRest
  BY <1>8, EmptySeq DEF KeepRest, TypeOK, Parts, Chunks
<1>9. CASE EndOfText
  BY <1>9, PushedType DEF EndOfText, TypeOK, Parts, Chunks
<1>10. CASE Collect
  <2> DEFINE content == Strip(parts[index])
             chunk == [document |-> at, index |-> index, content |-> content]
  <2>1. content \in Parts
    <3>1. parts[index] \in Parts
      BY <1>10, ElementOfSeq DEF Collect, TypeOK
    <3> QED BY <3>1, StripType, LenProperties DEF Parts
  <2>2. chunk \in Chunks
    BY <2>1 DEF Chunks
  <2>3. chunks' \in Seq(Chunks)
    BY <1>10, <2>2, AppendProperties DEF Collect, TypeOK
  <2>4. index' \in Nat \ {0}
    BY <1>10 DEF Collect
  <2> HIDE DEF content, chunk
  <2> QED BY <1>10, <2>3, <2>4 DEF Collect, TypeOK, Parts, Chunks
<1>11. CASE EndOfDocument
  BY <1>11 DEF EndOfDocument, TypeOK, Parts, Chunks
<1>12. CASE EndOfLibrary
  BY <1>12 DEF EndOfLibrary, TypeOK, Parts, Chunks
<1>13. CASE UNCHANGED vars
  BY <1>13 DEF vars, TypeOK, Parts, Chunks
<1> QED
  BY <1>1, <1>2, <1>3, <1>4, <1>5, <1>6, <1>7, <1>8, <1>9, <1>10, <1>11, <1>12,
     <1>13 DEF Next

(* Every variable stays in its type, and every chunk fits its size.        *)
THEOREM TypeCorrect == Spec => []TypeOK
<1>1. Init => TypeOK
  <2> SUFFICES ASSUME Init PROVE TypeOK
    OBVIOUS
  <2>1. documents \in Seq(Seq(Chars)) /\ Len(documents) \in Nat
    BY LibrariesAssumption, LenProperties DEF Init
  <2>2. settings.size \in Nat
    BY SettingsAssumption DEF Init
  <2> QED BY <2>1, <2>2, EmptySeq DEF Init, TypeOK, Parts, Chunks
<1> QED
  BY <1>1, TypeStep, PTL DEF Spec
-----------------------------------------------------------------------------
(* What a text is taken apart into is no longer than the text.             *)
LEMMA PieceLength ==
  ASSUME NEW s \in Seq(Chars)
  PROVE  Len(Piece(s)) + Len(Beyond(s)) <= Len(s)
<1>1. Len(s) \in Nat
  BY LenProperties
<1>2. CASE FirstBreak(s) = {}
  <2>1. Piece(s) = Strip(s) /\ Beyond(s) = <<>>
    BY <1>2 DEF Piece, Beyond
  <2>2. Strip(s) \in Seq(Chars) /\ Len(Strip(s)) <= Len(s)
    BY StripType
  <2> QED BY <1>1, <2>1, <2>2, LenProperties, EmptySeq
<1>3. CASE FirstBreak(s) # {}
  <2> DEFINE f == The(FirstBreak(s))
  <2>1. f \in 1..(Len(s) - 1)
    BY <1>3 DEF The, FirstBreak, Breaks
  <2> HIDE DEF f
  <2>2. UpTo(s, f - 1) \in Seq(Chars) /\ Len(UpTo(s, f - 1)) = f - 1
    <3>1. UpTo(s, f - 1) = SubSeq(s, 1, f - 1)
      BY <1>1, <2>1 DEF UpTo
    <3> QED BY <1>1, <2>1, <3>1, SubText
  <2>3. From(s, f + 1) \in Seq(Chars) /\ Len(From(s, f + 1)) = Len(s) - f - 1
    BY <1>1, <2>1, SubText DEF From
  <2>4. Piece(s) = Strip(UpTo(s, f - 1)) /\ Beyond(s) = From(s, f + 1)
    BY <1>3 DEF Piece, Beyond, f
  <2>5. Piece(s) \in Seq(Chars) /\ Len(Piece(s)) <= f - 1
    BY <2>2, <2>4, StripType
  <2> QED BY <1>1, <2>1, <2>3, <2>4, <2>5, LenProperties
<1> QED BY <1>2, <1>3

(* A text has finitely many places to cut it.                              *)
LEMMA BreaksFinite ==
  ASSUME NEW s \in Seq(Chars)
  PROVE  IsFiniteSet(Breaks(s)) /\ Cardinality(Breaks(s)) \in Nat
<1>1. Len(s) - 1 \in Int
  BY LenProperties
<1>2. IsFiniteSet(1..(Len(s) - 1))
  BY <1>1, FS_Interval
<1>3. Breaks(s) \subseteq 1..(Len(s) - 1)
  BY DEF Breaks
<1> QED BY <1>2, <1>3, FS_Subset, FS_CardinalityType

(* With every paragraph that is taken from a text one of them is gone.     *)
LEMMA BreaksDrop ==
  ASSUME NEW s \in Seq(Chars), FirstBreak(s) # {}
  PROVE  Cardinality(Breaks(Beyond(s))) + 1 <= Cardinality(Breaks(s))
<1> DEFINE f == The(FirstBreak(s))
           t == Beyond(s)
           A == Breaks(t)
           B == Breaks(s) \ {f}
           shift == [i \in A |-> i + (f + 1)]
<1>1. f \in Breaks(s) /\ f \in 1..(Len(s) - 1) /\ Len(s) \in Nat
  BY LenProperties DEF The, FirstBreak, Breaks
<1>2. t = SubSeq(s, f + 2, Len(s)) /\ Len(t) = Len(s) - (f + 1)
      /\ t \in Seq(Chars) /\ \A i \in 1..Len(t) : t[i] = s[i + (f + 1)]
  <2> HIDE DEF f
  <2>1. t = SubSeq(s, (f + 1) + 1, Len(s))
    BY DEF Beyond, From, f
  <2>2. (f + 1) + 1 = f + 2 /\ f + 2 \in Nat \ {0}
    BY <1>1
  <2>3. /\ SubSeq(s, f + 2, Len(s)) \in Seq(Chars)
        /\ Len(SubSeq(s, f + 2, Len(s))) = Len(s) - (f + 1)
    BY <1>1, <2>2, SubText
  <2>4. \A i \in 1..(Len(s) - (f + 2) + 1) :
          SubSeq(s, f + 2, Len(s))[i] = s[i + (f + 2 - 1)]
    BY <1>1, <2>2, SubChars
  <2>5. Len(s) - (f + 2) + 1 = Len(s) - (f + 1) /\ f + 2 - 1 = f + 1
    BY <1>1
  <2> HIDE DEF t
  <2>6. t = SubSeq(s, f + 2, Len(s))
    BY <2>1, <2>2
  <2> QED BY <2>3, <2>4, <2>5, <2>6
<1>3. \A i \in A : i \in Nat /\ i + (f + 1) \in B
  <2> SUFFICES ASSUME NEW i \in A PROVE i \in Nat /\ i + (f + 1) \in B
    OBVIOUS
  <2> HIDE DEF f, t
  <2>1. i \in 1..(Len(t) - 1) /\ t[i] = NewLine /\ t[i + 1] = NewLine
    BY DEF Breaks
  <2>2. t[i] = s[i + (f + 1)] /\ t[i + 1] = s[(i + 1) + (f + 1)]
    BY <1>1, <1>2, <2>1
  <2>3. (i + 1) + (f + 1) = (i + (f + 1)) + 1
    BY <1>1, <2>1
  <2>4. i + (f + 1) \in 1..(Len(s) - 1) /\ i + (f + 1) # f
    BY <1>1, <1>2, <2>1
  <2> QED BY <2>1, <2>2, <2>3, <2>4 DEF Breaks
<1>4. f \in Int
  BY <1>1
<1> HIDE DEF f, t
<1>5. shift \in Injection(A, B)
  BY <1>3, <1>4 DEF Injection, IsInjective
<1>6. IsFiniteSet(Breaks(s)) /\ Cardinality(Breaks(s)) \in Nat
  BY BreaksFinite
<1>7. IsFiniteSet(B) /\ Cardinality(B) = Cardinality(Breaks(s)) - 1
  BY <1>1, <1>6, FS_RemoveElement
<1>8. Cardinality(A) <= Cardinality(B)
  BY <1>5, <1>7, FS_Injection
<1>9. Cardinality(A) \in Nat
  BY <1>2, BreaksFinite
<1> QED BY <1>6, <1>7, <1>8, <1>9 DEF t

(* A slice leaves the step between slices less.                            *)
LEMMA SliceLength ==
  ASSUME TypeOK, Slice, Advancing
  PROVE  /\ Len(paragraph') \in Nat
         /\ Len(paragraph') + (settings.size - settings.overlap) <= Len(paragraph)
<1> DEFINE step == settings.size - settings.overlap
<1>1. step \in Nat \ {0} /\ step <= settings.size
  BY TextTypes DEF Advancing
<1>2. paragraph \in Seq(Chars) /\ Len(paragraph) \in Nat
  BY LenProperties DEF TypeOK
<1>3. settings.size < Len(paragraph) /\ settings.size \in Nat
  BY TextTypes DEF Slice
<1> HIDE DEF step
<1>4. /\ From(paragraph, step) \in Seq(Chars)
      /\ Len(From(paragraph, step)) = Len(paragraph) - step
  BY <1>1, <1>2, <1>3, SubText DEF From
<1>5. /\ Strip(From(paragraph, step)) \in Seq(Chars)
      /\ Len(Strip(From(paragraph, step))) <= Len(paragraph) - step
  BY <1>4, StripType
<1>6. paragraph' = Strip(From(paragraph, step))
  BY DEF Slice, RestOfParagraph, SliceStep, step
<1>7. Len(paragraph') \in Nat /\ Len(paragraph') + step <= Len(paragraph)
  BY <1>1, <1>2, <1>5, <1>6, LenProperties
<1> QED BY <1>7 DEF step
-----------------------------------------------------------------------------
(* What is left of the library, of the document at hand, of its text, and  *)
(* of the paragraph being cut or the parts being collected.                *)
DocumentsLeft == Len(documents) + 1 - at

StagesLeft ==
  CASE place = "document"               -> 3
    [] place \in {"paragraphs", "slices"} -> 2
    [] place = "parts"                  -> 1
    [] OTHER                            -> 0

AtHandLeft ==
  CASE place = "slices" -> Len(paragraph) + 1
    [] place = "parts"  -> IF index <= Len(parts) THEN Len(parts) + 1 - index ELSE 0
    [] OTHER            -> 0

Advances ==
  \/ DocumentsLeft' < DocumentsLeft
  \/ /\ DocumentsLeft' = DocumentsLeft
     /\ \/ StagesLeft' < StagesLeft
        \/ /\ StagesLeft' = StagesLeft
           /\ \/ Len(rest') < Len(rest)
              \/ rest' = rest /\ AtHandLeft' < AtHandLeft

(* Every step leaves less to do, so that the splitting ends: a document is *)
(* split once, a paragraph looked at once, and a slice leaves less of its  *)
(* paragraph.  Only slices with an overlap of the size or more may not.    *)
CuttingAdvances ==
  [][/\ {DocumentsLeft, StagesLeft, Len(rest), AtHandLeft} \subseteq Nat
     /\ Advances \/ (~Advancing /\ Slice)]_vars

LEMMA LeftTypes ==
  ASSUME TypeOK
  PROVE  {DocumentsLeft, StagesLeft, Len(rest), AtHandLeft} \subseteq Nat
<1>1. DocumentsLeft \in Nat
  BY TextTypes DEF TypeOK, DocumentsLeft
<1>2. StagesLeft \in Nat
  BY DEF StagesLeft
<1>3. Len(rest) \in Nat /\ Len(paragraph) \in Nat /\ Len(parts) \in Nat
  BY LenProperties DEF TypeOK
<1>4. AtHandLeft \in Nat
  BY <1>3, TextTypes DEF AtHandLeft
<1> QED BY <1>1, <1>2, <1>3, <1>4

(* Behind a paragraph there is less of the text.                           *)
LEMMA BeyondShorter ==
  ASSUME NEW s \in Seq(Chars), s # <<>>
  PROVE  Len(Beyond(s)) < Len(s)
<1>1. Len(s) \in Nat \ {0}
  BY LenProperties, EmptySeq
<1>2. CASE FirstBreak(s) = {}
  BY <1>1, <1>2, EmptySeq DEF Beyond
<1>3. CASE FirstBreak(s) # {}
  <2>1. PICK f \in 1..(Len(s) - 1) : f = The(FirstBreak(s))
    BY <1>3 DEF The, FirstBreak, Breaks
  <2>2. Len(From(s, f + 1)) = Len(s) - f - 1
    BY <1>1, <2>1, SubText DEF From
  <2> QED BY <1>1, <1>3, <2>1, <2>2 DEF Beyond
<1> QED BY <1>2, <1>3

LEMMA AdvanceStep ==
  ASSUME TypeOK, Next
  PROVE  Advances \/ (~Advancing /\ Slice)
<1> SUFFICES ASSUME ~(~Advancing /\ Slice) PROVE Advances
  OBVIOUS
<1>1. /\ Len(parts) \in Nat /\ Len(paragraph) \in Nat /\ index \in Nat \ {0}
      /\ at \in Nat /\ Len(documents) \in Nat
  BY LenProperties, TextTypes DEF TypeOK
<1>2. CASE EndOfDocument
  <2>1. DocumentsLeft' < DocumentsLeft
    BY <1>1, <1>2 DEF EndOfDocument, DocumentsLeft
  <2> QED BY <2>1 DEF Advances
<1>3. CASE Whole \/ Split \/ EndOfText \/ EndOfLibrary
  <2>1. /\ UNCHANGED <<documents, at>>
        /\ \/ place = "document" /\ place' \in {"parts", "paragraphs", "done"}
           \/ place = "paragraphs" /\ place' = "parts"
    BY <1>3 DEF Whole, Split, EndOfText, EndOfLibrary
  <2>2. DocumentsLeft' = DocumentsLeft /\ StagesLeft' < StagesLeft
    BY <2>1 DEF DocumentsLeft, StagesLeft
  <2> QED BY <2>2 DEF Advances
<1>4. CASE SkipBlank \/ Join \/ Overlap \/ Cut
  <2>1. /\ UNCHANGED <<documents, at>> /\ rest # <<>> /\ rest' = Beyond(rest)
        /\ place = "paragraphs" /\ place' \in {"paragraphs", "slices"}
    BY <1>4 DEF SkipBlank, Join, Overlap, Cut, NextParagraph
  <2>2. DocumentsLeft' = DocumentsLeft /\ StagesLeft' = StagesLeft
    BY <2>1 DEF DocumentsLeft, StagesLeft
  <2>3. Len(rest') < Len(rest)
    BY <2>1, BeyondShorter DEF TypeOK
  <2> QED BY <2>2, <2>3 DEF Advances
<1>5. CASE (Slice /\ Advancing) \/ KeepRest \/ Collect
  <2>1. /\ UNCHANGED <<documents, at, rest>>
        /\ \/ place = "slices" /\ place' \in {"slices", "paragraphs"}
           \/ place = "parts" /\ place' = "parts"
    BY <1>5 DEF Slice, KeepRest, Collect
  <2>2. DocumentsLeft' = DocumentsLeft /\ StagesLeft' = StagesLeft
    BY <2>1 DEF DocumentsLeft, StagesLeft
  <2>3. CASE Slice /\ Advancing
    <3>1. Len(paragraph') \in Nat /\ Len(paragraph') < Len(paragraph)
      BY <1>1, <2>3, SliceLength, TextTypes DEF Advancing
    <3>2. AtHandLeft = Len(paragraph) + 1 /\ AtHandLeft' = Len(paragraph') + 1
      BY <2>3 DEF Slice, AtHandLeft
    <3> QED BY <1>1, <2>1, <2>2, <3>1, <3>2 DEF Advances
  <2>4. CASE KeepRest
    <3>1. AtHandLeft = Len(paragraph) + 1 /\ AtHandLeft' = 0
      BY <2>4 DEF KeepRest, AtHandLeft
    <3> QED BY <1>1, <2>1, <2>2, <3>1 DEF Advances
  <2>5. CASE Collect
    <3>1. /\ index <= Len(parts) /\ index' = index + 1 /\ parts' = parts
          /\ place = "parts" /\ place' = "parts"
      BY <2>5 DEF Collect
    <3>2. AtHandLeft = Len(parts) + 1 - index
      BY <3>1 DEF AtHandLeft
    <3>3. AtHandLeft' \in {0, Len(parts) + 1 - (index + 1)}
      BY <3>1 DEF AtHandLeft
    <3>4. AtHandLeft' < AtHandLeft
      BY <1>1, <3>1, <3>2, <3>3
    <3> QED BY <2>1, <2>2, <3>4 DEF Advances
  <2> QED BY <1>5, <2>3, <2>4, <2>5
<1> QED BY <1>2, <1>3, <1>4, <1>5 DEF Next

(* The splitting of any library comes to an end, as long as no slice       *)
(* begins where the last one did.                                          *)
THEOREM CuttingGoesOn == Spec => CuttingAdvances
<1>1. TypeOK /\ [Next]_vars =>
        [/\ {DocumentsLeft, StagesLeft, Len(rest), AtHandLeft} \subseteq Nat
         /\ Advances \/ (~Advancing /\ Slice)]_vars
  BY LeftTypes, AdvanceStep
<1> QED
  BY <1>1, TypeCorrect, PTL DEF Spec, CuttingAdvances
-----------------------------------------------------------------------------
(* The paragraphs that are still to come in a text.                        *)
Left(s) == IF s = <<>> THEN 0 ELSE Cardinality(Breaks(s)) + 1

LEMMA LeftDrops ==
  ASSUME NEW s \in Seq(Chars), s # <<>>
  PROVE  Left(Beyond(s)) + 1 <= Left(s) /\ Left(Beyond(s)) \in Nat /\ Left(s) \in Nat
<1>1. /\ Cardinality(Breaks(s)) \in Nat /\ Cardinality(Breaks(Beyond(s))) \in Nat
  BY PieceType, BreaksFinite
<1>2. CASE FirstBreak(s) = {}
  BY <1>1, <1>2 DEF Left, Beyond
<1>3. CASE FirstBreak(s) # {}
  BY <1>1, <1>3, BreaksDrop DEF Left
<1> QED BY <1>2, <1>3

(* The least a number of steps of some length take.                        *)
LEMMA StepsFit ==
  ASSUME NEW d \in Nat \ {0}, NEW k \in Nat, NEW n \in Nat, d * k <= n
  PROVE  k <= n \div d /\ n \div d \in Nat
<1>1. n \div d \in Int /\ n < d * (n \div d + 1)
  OBVIOUS
<1>2. ASSUME n \div d + 1 <= k PROVE FALSE
  <2>1. PICK e \in Nat : k = (n \div d + 1) + e
    BY <1>1, <1>2
  <2>2. d * k = d * (n \div d + 1) + d * e
    BY <1>1, <2>1
  <2>3. d * e \in Nat /\ d * k \in Int /\ d * (n \div d + 1) \in Int
    BY <1>1
  <2> QED BY <1>1, <2>2, <2>3
<1>3. k <= n \div d
  BY <1>1, <1>2
<1> QED BY <1>1, <1>3

(* A part that is not in the list yet: the one being put together, or the  *)
(* rest of the paragraph being cut.                                        *)
Open == IF current # <<>> \/ place = "slices" THEN 1 ELSE 0

(* How the parts are paid for, by the paragraphs that were taken and the   *)
(* slices that were cut off: a paragraph that is taken is no longer left   *)
(* in the rest, and a slice shortens what is left of the text.             *)
PaidBy(taken, slices) ==
  /\ Len(parts) + Open <= taken + slices
  /\ taken + Left(rest) <= Cardinality(Breaks(Text)) + 1
  /\ (settings.size - settings.overlap) * slices + Len(paragraph) + Len(rest)
       <= Len(Text)

CountInv ==
  Advancing =>
    /\ place # "slices" => paragraph = <<>>
    /\ place \in {"paragraphs", "slices"} => \E taken, slices \in Nat : PaidBy(taken, slices)
    /\ place = "parts" => PartsBounded

(* The numbers that the steps below count with.                            *)
LEMMA CountTypes ==
  ASSUME TypeOK
  PROVE  /\ Len(parts) \in Nat /\ Open \in Nat
         /\ Len(paragraph) \in Nat /\ Len(rest) \in Nat /\ Left(rest) \in Nat
         /\ at <= Len(documents) =>
              Len(Text) \in Nat /\ Cardinality(Breaks(Text)) \in Nat
<1>1. /\ Len(parts) \in Nat /\ Len(paragraph) \in Nat /\ Len(rest) \in Nat
  BY LenProperties DEF TypeOK
<1>2. at <= Len(documents) =>
        Len(Text) \in Nat /\ Cardinality(Breaks(Text)) \in Nat
  BY TextTypes, BreaksFinite, LenProperties
<1>3. Left(rest) \in Nat
  BY BreaksFinite DEF Left, TypeOK
<1> QED BY <1>1, <1>2, <1>3 DEF Open

(* What is paid for is within the bound.                                   *)
LEMMA PaidBounded ==
  ASSUME TypeOK, Advancing, at <= Len(documents),
         NEW taken \in Nat, NEW slices \in Nat, PaidBy(taken, slices)
  PROVE  Len(parts) + Open <= Cardinality(Breaks(Text)) + 1
                                + Len(Text) \div (settings.size - settings.overlap)
<1>1. PICK d \in Nat \ {0} : d = settings.size - settings.overlap
  BY TextTypes DEF Advancing
<1>2. /\ Len(parts) + Open <= taken + slices
      /\ taken + Left(rest) <= Cardinality(Breaks(Text)) + 1
      /\ d * slices + Len(paragraph) + Len(rest) <= Len(Text)
  BY <1>1 DEF PaidBy
<1>3. d * slices \in Nat
  BY <1>1
<1>4. d * slices <= Len(Text)
  BY <1>2, <1>3, CountTypes
<1>5. slices <= Len(Text) \div d
  BY <1>1, <1>4, CountTypes, StepsFit
<1>6. Len(Text) \div d \in Int
  BY <1>1, CountTypes
<1>7. Len(parts) + Open <= Cardinality(Breaks(Text)) + 1 + Len(Text) \div d
  BY SMTT(30), <1>2, <1>5, <1>6, CountTypes
<1> QED BY <1>1, <1>7

(* A paragraph that is taken pays for one part more.                       *)
LEMMA ParagraphPays ==
  ASSUME TypeOK, TypeOK', NextParagraph, Advancing, NEW taken \in Nat, NEW slices \in Nat,
         PaidBy(taken, slices), paragraph = <<>>,
         UNCHANGED <<settings, documents, at>>, rest' = Beyond(rest),
         Len(paragraph') + Len(rest') <= Len(rest),
         Len(parts') + Open' <= Len(parts) + Open + 1
  PROVE  \E more, same \in Nat : PaidBy(more, same)'
<1>1. Text' = Text /\ at <= Len(documents) /\ rest # <<>> /\ rest \in Seq(Chars)
  BY DEF Text, TypeOK, NextParagraph
<1>2. Len(parts') + Open' <= (taken + 1) + slices
  <2>1. Len(parts) + Open <= taken + slices
    BY DEF PaidBy
  <2>2. Len(parts') \in Nat /\ Open' \in Nat
    <3>1. Len(parts') \in Nat
      BY LenProperties DEF TypeOK
    <3> QED BY <3>1 DEF Open
  <2> QED BY SMTT(30), <2>1, <2>2, CountTypes
<1>3. (taken + 1) + Left(rest') <= Cardinality(Breaks(Text)) + 1
  <2>1. /\ Left(Beyond(rest)) + 1 <= Left(rest)
        /\ Left(Beyond(rest)) \in Nat /\ Left(rest) \in Nat
    BY <1>1, LeftDrops
  <2>2. taken + Left(rest) <= Cardinality(Breaks(Text)) + 1
    BY DEF PaidBy
  <2> QED BY SMTT(30), <1>1, <2>1, <2>2, CountTypes
<1>4. (settings.size - settings.overlap) * slices + Len(paragraph') + Len(rest')
        <= Len(Text)
  <2> DEFINE paid == (settings.size - settings.overlap) * slices
  <2>1. paid \in Nat
    BY SMTT(30), TextTypes DEF Advancing
  <2> HIDE DEF paid
  <2>2. paid + Len(paragraph) + Len(rest) <= Len(Text)
    BY DEF PaidBy, paid
  <2>3. Len(paragraph') \in Nat /\ Len(rest') \in Nat
    BY LenProperties DEF TypeOK
  <2>4. paid + Len(paragraph') + Len(rest') <= Len(Text)
    BY <1>1, <2>1, <2>2, <2>3, CountTypes
  <2> QED BY <2>4 DEF paid
<1>5. PaidBy(taken + 1, slices)'
  BY <1>1, <1>2, <1>3, <1>4 DEF PaidBy
<1> QED BY <1>5

LEMMA CountStep == TypeOK /\ CountInv /\ [Next]_vars => CountInv'
<1>0. [Next]_vars => settings' = settings
  BY DEF Next, vars, Whole, Split, SkipBlank, Join, Overlap, Cut, Slice, KeepRest,
         EndOfText, Collect, EndOfDocument, EndOfLibrary
<1> SUFFICES ASSUME TypeOK, CountInv, [Next]_vars, Advancing PROVE CountInv'
  BY <1>0 DEF CountInv, Advancing
<1>1. TypeOK'
  BY TypeStep
<1>2. CASE Whole
  <2>1. Len(parts') <= 1
    BY <1>2 DEF Whole
  <2>2. Text' = Text /\ settings' = settings /\ at <= Len(documents)
    BY <1>2 DEF Whole, Text
  <2>3. Len(parts') \in Nat
    BY <1>1, LenProperties DEF TypeOK
  <2>4. Len(Text) \div (settings.size - settings.overlap) \in Nat
    <3>1. settings.size - settings.overlap \in Nat \ {0}
      BY TextTypes DEF Advancing
    <3>2. (settings.size - settings.overlap) * 0 <= Len(Text) /\ Len(Text) \in Nat
      BY <2>2, <3>1, CountTypes
    <3> QED BY <3>1, <3>2, StepsFit
  <2>5. PartsBounded'
    BY <2>1, <2>2, <2>3, <2>4, CountTypes DEF PartsBounded
  <2> QED BY <1>2, <2>5 DEF Whole, CountInv
<1>3. CASE Split
  <2>1. /\ Text' = Text /\ settings' = settings /\ at <= Len(documents)
        /\ rest' = Text /\ Len(parts') = 0 /\ paragraph' = <<>> /\ Open' = 0
    BY <1>3 DEF Split, Text, CountInv, Open
  <2>2. Left(Text) <= Cardinality(Breaks(Text)) + 1
    BY <2>1, CountTypes DEF Left
  <2>3. Left(Text) \in Nat
    BY <2>1, CountTypes DEF Left
  <2>4. (settings.size - settings.overlap) * 0 + Len(paragraph') + Len(rest') <= Len(Text)
    BY SMTT(30), <2>1, CountTypes, TextTypes
  <2>5. PaidBy(0, 0)'
    BY <2>1, <2>2, <2>3, <2>4 DEF PaidBy
  <2> QED BY <1>3, <2>1, <2>5 DEF Split, CountInv
<1>4. ASSUME NextParagraph, UNCHANGED <<settings, documents, at>>,
             rest' = Beyond(rest), place' \in {"paragraphs", "slices"},
             place' = "paragraphs" => paragraph' = <<>>,
             paragraph' \in {<<>>, Piece(rest)},
             Len(parts') + Open' <= Len(parts) + Open + 1
      PROVE  CountInv'
  <2>1. PICK taken \in Nat, slices \in Nat : PaidBy(taken, slices)
    BY <1>4 DEF NextParagraph, CountInv
  <2>2. Len(paragraph') + Len(rest') <= Len(rest)
    <3>1. /\ Len(Piece(rest)) + Len(Beyond(rest)) <= Len(rest)
          /\ Len(Piece(rest)) \in Nat /\ Len(Beyond(rest)) \in Nat
      BY PieceLength, PieceType, LenProperties DEF TypeOK
    <3> QED BY <1>4, <3>1, CountTypes
  <2>3. paragraph = <<>>
    BY <1>4 DEF NextParagraph, CountInv
  <2>4. \E more, same \in Nat : PaidBy(more, same)'
    BY <1>1, <1>4, <2>1, <2>2, <2>3, ParagraphPays
  <2> QED BY <1>4, <2>4 DEF CountInv
<1>5. NextParagraph => paragraph = <<>> /\ Open = IF current # <<>> THEN 1 ELSE 0
  BY DEF NextParagraph, CountInv, Open
<1>6. /\ current = <<>> => Len(Pushed) = Len(parts)
      /\ current # <<>> => Len(Pushed) = Len(parts) + 1
  BY AppendProperties DEF Pushed, TypeOK
<1>7. CASE SkipBlank
  <2>1. Len(parts') + Open' <= Len(parts) + Open + 1
    BY <1>7, CountTypes DEF SkipBlank, Open
  <2> QED BY <1>4, <1>5, <1>7, <2>1 DEF SkipBlank, NextParagraph
<1>8. CASE Join
  <2>1. Len(parts') + Open' <= Len(parts) + Open + 1
    BY <1>8, CountTypes DEF Join, NextParagraph, Open
  <2> QED BY <1>4, <1>5, <1>8, <2>1 DEF Join, NextParagraph
<1>9. CASE Overlap
  <2>1. Len(parts') + Open' <= Len(parts) + Open + 1
    <3>1. Len(parts') = Len(parts) + 1 /\ Open = 1 /\ Open' \in {0, 1}
      BY <1>5, <1>6, <1>9 DEF Overlap, Open
    <3> QED BY <3>1, CountTypes
  <2> QED BY <1>4, <1>5, <1>9, <2>1 DEF Overlap, NextParagraph
<1>10. CASE Cut
  <2>1. Len(parts') + Open' <= Len(parts) + Open + 1
    <3>1. Len(parts') = Len(parts) + Open /\ Open' = 1
      BY <1>5, <1>6, <1>10, CountTypes DEF Cut, Open
    <3> QED BY <3>1, CountTypes
  <2> QED BY <1>4, <1>10, <2>1 DEF Cut
<1>11. CASE Slice
  <2> DEFINE d == settings.size - settings.overlap
  <2>1. PICK taken \in Nat, slices \in Nat : PaidBy(taken, slices)
    BY <1>11 DEF Slice, CountInv
  <2>2. /\ Text' = Text /\ settings' = settings /\ rest' = rest
        /\ at <= Len(documents) /\ place' = "slices"
        /\ Len(parts') = Len(parts) + 1 /\ Open' = 1 /\ Open = 1
    <3>1. parts \in Seq(Parts) /\ parts' \in Seq(Parts')
      BY <1>1 DEF TypeOK
    <3>2. Len(parts') = Len(parts) + 1
      BY <1>11, <3>1 DEF Slice
    <3> QED BY <1>11, <3>2 DEF Slice, Text, Open, TypeOK
  <2>3. Len(parts') + Open' <= taken + (slices + 1)
    BY <2>1, <2>2, CountTypes DEF PaidBy
  <2>4. d * (slices + 1) + Len(paragraph') + Len(rest') <= Len(Text)
    <3>1. d \in Nat
      BY TextTypes DEF Advancing
    <3>2. Len(paragraph') + d <= Len(paragraph) /\ Len(paragraph') \in Nat
      BY <1>11, SliceLength
    <3>3. d * slices + Len(paragraph) + Len(rest) <= Len(Text)
      BY <2>1 DEF PaidBy
    <3> HIDE DEF d
    <3>4. d * (slices + 1) = d * slices + d /\ d * slices \in Nat
      BY <3>1
    <3> QED BY <2>2, <3>1, <3>2, <3>3, <3>4, CountTypes
  <2>5. PaidBy(taken, slices + 1)'
    BY <2>1, <2>2, <2>3, <2>4 DEF PaidBy
  <2> QED BY <2>2, <2>5 DEF CountInv
<1>12. CASE KeepRest
  <2>1. PICK taken \in Nat, slices \in Nat : PaidBy(taken, slices)
    BY <1>12 DEF KeepRest, CountInv
  <2>2. /\ Text' = Text /\ settings' = settings /\ rest' = rest /\ parts' = parts
        /\ at <= Len(documents) /\ place' = "paragraphs" /\ paragraph' = <<>>
        /\ Open = 1 /\ Open' \in {0, 1}
    BY <1>12 DEF KeepRest, Text, Open, TypeOK
  <2>3. (settings.size - settings.overlap) * slices + Len(paragraph') + Len(rest')
          <= Len(Text)
    <3>1. (settings.size - settings.overlap) * slices \in Nat
      BY TextTypes DEF Advancing
    <3> QED BY SMTT(30), <2>1, <2>2, <3>1, CountTypes DEF PaidBy
  <2>4. PaidBy(taken, slices)'
    BY SMTT(30), <2>1, <2>2, <2>3, CountTypes DEF PaidBy
  <2> QED BY <2>2, <2>4 DEF CountInv
<1>13. CASE EndOfText
  <2>1. PICK taken \in Nat, slices \in Nat : PaidBy(taken, slices)
    BY <1>13 DEF EndOfText, CountInv
  <2>2. Text' = Text /\ settings' = settings /\ at <= Len(documents)
    BY <1>13 DEF EndOfText, Text, TypeOK
  <2>3. Len(parts') = Len(parts) + Open
    BY <1>6, <1>13, CountTypes DEF EndOfText, Open
  <2>4. PartsBounded'
    BY <2>1, <2>2, <2>3, PaidBounded DEF PartsBounded
  <2> QED BY <1>13, <2>4 DEF EndOfText, CountInv
<1>14. CASE Collect
  BY <1>14 DEF Collect, CountInv, PartsBounded, Text
<1>15. CASE EndOfDocument
  BY <1>15 DEF EndOfDocument, CountInv
<1>16. CASE EndOfLibrary
  BY <1>16 DEF EndOfLibrary, CountInv
<1>17. CASE UNCHANGED vars
  BY <1>17 DEF vars, CountInv, PartsBounded, PaidBy, Open, Text
<1> QED
  BY <1>2, <1>3, <1>7, <1>8, <1>9, <1>10, <1>11, <1>12, <1>13, <1>14, <1>15,
     <1>16, <1>17 DEF Next

(* A text is cut into no more parts than it has paragraphs and slices.     *)
LEMMA CountBounds == TypeOK /\ CountInv => PartsBounded
<1> SUFFICES ASSUME TypeOK, CountInv, Advancing,
                    place \in {"paragraphs", "slices"}
             PROVE  PartsBounded
  BY DEF CountInv, PartsBounded
<1>1. PICK taken \in Nat, slices \in Nat : PaidBy(taken, slices)
  BY DEF CountInv
<1>2. at <= Len(documents)
  BY DEF TypeOK
<1>3. Len(parts) + Open <= Cardinality(Breaks(Text)) + 1
                             + Len(Text) \div (settings.size - settings.overlap)
  BY <1>1, <1>2, PaidBounded
<1>4. Len(Text) \div (settings.size - settings.overlap) \in Int
  BY SMTT(30), <1>2, CountTypes, TextTypes DEF Advancing
<1> QED BY <1>2, <1>3, <1>4, CountTypes DEF PartsBounded
-----------------------------------------------------------------------------
(* Any numbers have a least one, and those up to a bound a greatest.       *)
LEMMA LeastNumber ==
  ASSUME NEW T, T \subseteq Nat, T # {}
  PROVE  \E x \in T : \A y \in T : x <= y
<1> DEFINE Less == {ss \in Nat \X Nat : ss[1] < ss[2]}
<1>1. IsWellFoundedOn(Less, Nat)
  BY NatLessThanWellFounded DEF OpToRel
<1>2. PICK x \in T : \A y \in T : <<y, x>> \notin Less
  <2> HIDE DEF Less
  <2> QED BY <1>1, WFMin
<1>3. \A y \in T : ~ y < x
  BY <1>2
<1> QED BY <1>3

LEMMA GreatestNumber ==
  ASSUME NEW n \in Nat, NEW T, T \subseteq 1..n, T # {}
  PROVE  \E x \in T : \A y \in T : y <= x
<1> DEFINE U == {n - y : y \in T}
<1>1. U \subseteq Nat /\ U # {}
  <2>1. \A y \in T : y \in 1..n
    OBVIOUS
  <2>2. \A y \in 1..n : n - y \in Nat
    OBVIOUS
  <2>3. U \subseteq Nat
    BY <2>1, <2>2
  <2> QED BY <2>3
<1>2. PICK u \in U : \A v \in U : u <= v
  <2> HIDE DEF U
  <2> QED BY <1>1, LeastNumber
<1>3. PICK x \in T : u = n - x
  OBVIOUS
<1>4. \A y \in T : n - x <= n - y
  BY <1>2, <1>3
<1> QED BY <1>4

(* Where a text has ink, strip leaves the text from the first to the last. *)
LEMMA StripInk ==
  ASSUME NEW s \in Seq(Chars), NEW i \in 1..Len(s), s[i] \notin White
  PROVE  \E a, b \in 1..Len(s) :
           /\ Strip(s) = SubSeq(s, a, b)
           /\ \A k \in 1..Len(s) : s[k] \notin White => a <= k /\ k <= b
<1> DEFINE Ink == {k \in 1..Len(s) : s[k] \notin White}
<1>1. Len(s) \in Nat /\ Ink \subseteq 1..Len(s) /\ Ink # {} /\ Ink \subseteq Nat
  BY LenProperties
<1>2. FirstInk(s) # {}
  <2>1. PICK a \in Ink : \A k \in Ink : a <= k
    BY <1>1, LeastNumber
  <2>2. \A k \in 1..(a - 1) : s[k] \in White
    BY <1>1, <2>1
  <2> QED BY <2>1, <2>2 DEF FirstInk
<1>3. LastInk(s) # {}
  <2>1. PICK b \in Ink : \A k \in Ink : k <= b
    <3> HIDE DEF Ink
    <3> QED BY <1>1, GreatestNumber
  <2>2. \A k \in (b + 1)..Len(s) : s[k] \in White
    BY <1>1, <2>1
  <2> QED BY <2>1, <2>2 DEF LastInk
<1>4. PICK a : a = The(FirstInk(s)) /\ a \in FirstInk(s)
  BY <1>2 DEF The
<1>5. PICK b : b = The(LastInk(s)) /\ b \in LastInk(s)
  BY <1>3 DEF The
<1>6. Strip(s) = SubSeq(s, a, b)
  BY <1>2, <1>3, <1>4, <1>5 DEF Strip
<1>7. a \in 1..Len(s) /\ \A k \in 1..(a - 1) : s[k] \in White
  BY <1>4 DEF FirstInk
<1>8. b \in 1..Len(s) /\ \A k \in (b + 1)..Len(s) : s[k] \in White
  BY <1>5 DEF LastInk
<1>9. ASSUME NEW k \in 1..Len(s), s[k] \notin White
      PROVE  a <= k /\ k <= b
  BY <1>1, <1>7, <1>8, <1>9
<1> QED BY <1>6, <1>7, <1>8, <1>9
-----------------------------------------------------------------------------
(* A passage stands at a place of a text, character by character.          *)
StandsAt(s, p, i) == \A j \in 1..Len(p) : s[i + j] = p[j]

LEMMA HoldsPoints ==
  ASSUME NEW s \in Seq(Chars), NEW p \in Seq(Chars)
  PROVE  Holds(s, p) <=> \E i \in 0..(Len(s) - Len(p)) : StandsAt(s, p, i)
<1>1. Len(s) \in Nat /\ Len(p) \in Nat
  BY LenProperties
<1>2. ASSUME NEW i \in 0..(Len(s) - Len(p))
      PROVE  SubSeq(s, i + 1, i + Len(p)) = p <=> StandsAt(s, p, i)
  <2> DEFINE q == SubSeq(s, i + 1, i + Len(p))
  <2>1. i + 1 \in Nat \ {0} /\ i + Len(p) \in Nat /\ i + Len(p) <= Len(s)
    BY <1>1
  <2>2. q \in Seq(Chars) /\ Len(q) = Len(p)
    BY <1>1, <2>1, SubText
  <2>3. \A j \in 1..((i + Len(p)) - (i + 1) + 1) : q[j] = s[j + ((i + 1) - 1)]
    BY <2>1, SubChars
  <2>4. \A j \in 1..Len(p) : q[j] = s[i + j]
    <3>1. (i + Len(p)) - (i + 1) + 1 = Len(p)
      BY <1>1
    <3>2. \A j \in 1..Len(p) : j + ((i + 1) - 1) = i + j
      OBVIOUS
    <3> HIDE DEF q
    <3> QED BY <2>3, <3>1, <3>2
  <2> HIDE DEF q
  <2>5. StandsAt(s, p, i) => q = p
    BY <2>2, <2>4, SeqEqual DEF StandsAt
  <2>6. q = p => StandsAt(s, p, i)
    BY <2>4 DEF StandsAt
  <2> QED BY <2>5, <2>6 DEF q
<1> QED BY <1>2 DEF Holds

(* A part of the text that reaches over the passage holds it.              *)
LEMMA HoldsPart ==
  ASSUME NEW s \in Seq(Chars), NEW p \in Seq(Chars), NEW i \in Nat, StandsAt(s, p, i),
         NEW a \in Nat \ {0}, NEW b \in Nat, b <= Len(s),
         Len(p) >= 1, a <= i + 1, i + Len(p) <= b
  PROVE  Holds(SubSeq(s, a, b), p)
<1>1. Len(s) \in Nat /\ Len(p) \in Nat
  BY LenProperties
<1>2. /\ SubSeq(s, a, b) \in Seq(Chars)
      /\ Len(SubSeq(s, a, b)) = b - a + 1
  BY <1>1, SubText
<1>3. \A k \in 1..(b - a + 1) : SubSeq(s, a, b)[k] = s[k + (a - 1)]
  BY SubChars
<1>4. i - (a - 1) \in 0..(Len(SubSeq(s, a, b)) - Len(p))
  BY <1>1, <1>2
<1>5. ASSUME NEW j \in 1..Len(p)
      PROVE  SubSeq(s, a, b)[(i - (a - 1)) + j] = p[j]
  <2>1. (i - (a - 1)) + j \in 1..(b - a + 1)
    BY <1>1
  <2>2. SubSeq(s, a, b)[(i - (a - 1)) + j] = s[((i - (a - 1)) + j) + (a - 1)]
    BY <1>3, <2>1
  <2>3. ((i - (a - 1)) + j) + (a - 1) = i + j
    BY <1>1
  <2> QED BY <2>2, <2>3 DEF StandsAt
<1>6. StandsAt(SubSeq(s, a, b), p, i - (a - 1))
  BY <1>5 DEF StandsAt
<1> QED BY <1>2, <1>4, <1>6, HoldsPoints

(* So does a text that is put together from it and another one.            *)
LEMMA HoldsConcat ==
  ASSUME NEW s \in Seq(Chars), NEW t \in Seq(Chars), NEW p \in Seq(Chars)
  PROVE  /\ Holds(s, p) => Holds(s \o t, p)
         /\ Holds(t, p) => Holds(s \o t, p)
<1>1. Len(s) \in Nat /\ Len(t) \in Nat /\ Len(p) \in Nat
  BY LenProperties
<1>2. /\ s \o t \in Seq(Chars) /\ Len(s \o t) = Len(s) + Len(t)
      /\ \A i \in 1..(Len(s) + Len(t)) :
           (s \o t)[i] = IF i <= Len(s) THEN s[i] ELSE t[i - Len(s)]
  BY ConcatProperties
<1>3. ASSUME Holds(s, p) PROVE Holds(s \o t, p)
  <2>1. PICK i \in 0..(Len(s) - Len(p)) : StandsAt(s, p, i)
    BY <1>3, HoldsPoints
  <2>2. StandsAt(s \o t, p, i)
    BY <1>1, <1>2, <2>1 DEF StandsAt
  <2>3. i \in 0..(Len(s \o t) - Len(p))
    BY <1>1, <1>2, <2>1
  <2> QED BY <1>2, <2>2, <2>3, HoldsPoints
<1>4. ASSUME Holds(t, p) PROVE Holds(s \o t, p)
  <2>1. PICK i \in 0..(Len(t) - Len(p)) : StandsAt(t, p, i)
    BY <1>4, HoldsPoints
  <2>2. ASSUME NEW j \in 1..Len(p) PROVE (s \o t)[(Len(s) + i) + j] = p[j]
    <3>1. (Len(s) + i) + j \in 1..(Len(s) + Len(t)) /\ ~ (Len(s) + i) + j <= Len(s)
      BY <1>1, <2>1
    <3>2. ((Len(s) + i) + j) - Len(s) = i + j
      BY <1>1, <2>1
    <3> QED BY <1>2, <2>1, <3>1, <3>2 DEF StandsAt
  <2>3. Len(s) + i \in 0..(Len(s \o t) - Len(p))
    BY <1>1, <1>2, <2>1
  <2>4. StandsAt(s \o t, p, Len(s) + i)
    BY <2>2 DEF StandsAt
  <2> QED BY <1>2, <2>3, <2>4, HoldsPoints
<1> QED BY <1>3, <1>4
-----------------------------------------------------------------------------
(* A passage begins and ends with ink and has no end of a paragraph in it. *)
Passage(p) ==
  /\ p \in Seq(Chars) /\ Len(p) >= 1
  /\ p[1] \notin White /\ p[Len(p)] \notin White
  /\ Breaks(p) = {}

(* The passages of a text that the slices must not cut.                    *)
Passages(s) ==
  {p \in Seq(Chars) : Passage(p) /\ Len(p) <= settings.overlap + 1 /\ Holds(s, p)}

(* Nothing stands in an empty text.                                        *)
LEMMA HoldsNothing ==
  ASSUME NEW p, Passage(p)
  PROVE  ~ Holds(<<>>, p)
<1>1. Len(p) \in Nat /\ Len(p) >= 1 /\ Len(<<>>) = 0
  BY LenProperties, EmptySeq DEF Passage
<1> QED BY <1>1 DEF Holds

(* strip takes no passage away.                                            *)
LEMMA HoldsStrip ==
  ASSUME NEW s \in Seq(Chars), NEW p, Passage(p), Holds(s, p)
  PROVE  Holds(Strip(s), p)
<1>1. /\ Len(s) \in Nat /\ p \in Seq(Chars) /\ Len(p) \in Nat /\ Len(p) >= 1
      /\ p[1] \notin White /\ p[Len(p)] \notin White
  BY LenProperties DEF Passage
<1>2. PICK i \in 0..(Len(s) - Len(p)) : StandsAt(s, p, i)
  BY <1>1, HoldsPoints
<1>3. s[i + 1] \notin White /\ s[i + Len(p)] \notin White
  BY <1>1, <1>2 DEF StandsAt
<1>4. i + 1 \in 1..Len(s) /\ i + Len(p) \in 1..Len(s)
  BY <1>1, <1>2
<1>5. PICK a \in 1..Len(s), b \in 1..Len(s) :
        /\ Strip(s) = SubSeq(s, a, b)
        /\ \A k \in 1..Len(s) : s[k] \notin White => a <= k /\ k <= b
  BY <1>3, <1>4, StripInk
<1>6. a <= i + 1 /\ i + Len(p) <= b
  BY <1>3, <1>4, <1>5
<1>7. a \in Nat \ {0} /\ b \in Nat /\ b <= Len(s) /\ i \in Nat
  BY <1>1, <1>2, <1>5
<1>8. Holds(SubSeq(s, a, b), p)
  BY <1>1, <1>2, <1>6, <1>7, HoldsPart
<1> QED BY <1>5, <1>8

(* The ends of two paragraphs are not in one passage: where a text is cut, *)
(* every passage is in the paragraph before or in the text after.          *)
LEMMA HoldsPiece ==
  ASSUME NEW s \in Seq(Chars), NEW p, Passage(p), Holds(s, p)
  PROVE  Holds(Piece(s), p) \/ Holds(Beyond(s), p)
<1>1. CASE FirstBreak(s) = {}
  BY <1>1, HoldsStrip DEF Piece
<1>2. CASE FirstBreak(s) # {}
  <2>1. PICK f : f = The(FirstBreak(s)) /\ f \in Breaks(s)
    BY <1>2 DEF The, FirstBreak
  <2>2. /\ Len(s) \in Nat /\ p \in Seq(Chars) /\ Len(p) \in Nat /\ Len(p) >= 1
        /\ p[1] \notin White /\ p[Len(p)] \notin White /\ Breaks(p) = {}
    BY LenProperties DEF Passage
  <2>3. f \in 1..(Len(s) - 1) /\ s[f] = NewLine /\ s[f + 1] = NewLine
    BY <2>1 DEF Breaks
  <2>4. PICK i \in 0..(Len(s) - Len(p)) : StandsAt(s, p, i)
    BY <2>2, HoldsPoints
  <2>5. i + Len(p) < f \/ i > f
    <3> SUFFICES ASSUME i <= f, f <= i + Len(p) PROVE FALSE
      BY <2>2, <2>3, <2>4
    <3>1. NewLine \in White
      BY DEF White
    <3>2. CASE i = f
      BY <2>2, <2>3, <2>4, <3>1, <3>2 DEF StandsAt
    <3>3. CASE i + Len(p) = f
      BY SMTT(30), <2>2, <2>3, <2>4, <3>1, <3>3 DEF StandsAt
    <3>4. CASE i < f /\ f < i + Len(p)
      <4>1. f - i \in 1..(Len(p) - 1) /\ f - i \in 1..Len(p) /\ (f - i) + 1 \in 1..Len(p)
        BY <2>2, <2>3, <2>4, <3>4
      <4>2. i + (f - i) = f /\ i + ((f - i) + 1) = f + 1
        BY <2>3, <2>4
      <4>3. p[f - i] = NewLine /\ p[(f - i) + 1] = NewLine
        BY <2>3, <2>4, <4>1, <4>2 DEF StandsAt
      <4>4. f - i \in Breaks(p)
        BY <4>1, <4>3 DEF Breaks
      <4> QED BY <2>2, <4>4
    <3> QED BY <2>2, <2>3, <2>4, <3>2, <3>3, <3>4
  <2>6. CASE i + Len(p) < f
    <3>1. UpTo(s, f - 1) = SubSeq(s, 1, f - 1)
      BY <2>2, <2>3 DEF UpTo
    <3>2. /\ 1 \in Nat \ {0} /\ f - 1 \in Nat /\ f - 1 <= Len(s) /\ i \in Nat
          /\ 1 <= i + 1 /\ i + Len(p) <= f - 1
      BY <2>2, <2>3, <2>4, <2>6
    <3>3. Holds(SubSeq(s, 1, f - 1), p) /\ SubSeq(s, 1, f - 1) \in Seq(Chars)
      BY <2>2, <2>4, <3>2, HoldsPart, SubText
    <3>4. Piece(s) = Strip(SubSeq(s, 1, f - 1))
      BY <1>2, <2>1, <3>1 DEF Piece
    <3> QED BY <3>3, <3>4, HoldsStrip
  <2>7. CASE i > f
    <3>1. Beyond(s) = SubSeq(s, (f + 1) + 1, Len(s))
      BY <1>2, <2>1 DEF Beyond, From
    <3>2. /\ (f + 1) + 1 \in Nat \ {0} /\ i \in Nat
          /\ (f + 1) + 1 <= i + 1 /\ i + Len(p) <= Len(s)
      BY <2>2, <2>3, <2>4, <2>7
    <3>3. Holds(SubSeq(s, (f + 1) + 1, Len(s)), p)
      BY <2>2, <2>4, <3>2, HoldsPart
    <3> QED BY <3>1, <3>3
  <2> QED BY <2>5, <2>6, <2>7
<1> QED BY <1>1, <1>2

(* What strip is given from the start on is all of the text.               *)
LEMMA FromStart ==
  ASSUME NEW s \in Seq(Chars), NEW p, Passage(p), Holds(s, p)
  PROVE  Holds(Strip(From(s, 0)), p)
<1>1. /\ Len(s) \in Nat /\ p \in Seq(Chars) /\ Len(p) \in Nat /\ Len(p) >= 1
  BY LenProperties DEF Passage
<1>2. PICK i \in 0..(Len(s) - Len(p)) : StandsAt(s, p, i)
  BY <1>1, HoldsPoints
<1>3. From(s, 0) = SubSeq(s, 1, Len(s))
  BY DEF From
<1>4. 1 \in Nat \ {0} /\ i \in Nat /\ 1 <= i + 1 /\ i + Len(p) <= Len(s)
  BY <1>1, <1>2
<1>5. Holds(SubSeq(s, 1, Len(s)), p) /\ SubSeq(s, 1, Len(s)) \in Seq(Chars)
  BY <1>1, <1>2, <1>4, HoldsPart, SubText
<1> QED BY <1>3, <1>5, HoldsStrip

(* A slice and the rest overlap, so that every passage that is not longer  *)
(* than the overlap and one character is in one of the two.                *)
LEMMA HoldsSlice ==
  ASSUME NEW s \in Seq(Chars), NEW p, Passage(p), Holds(s, p),
         NEW size \in Nat, NEW overlap \in Nat, overlap < size, size < Len(s),
         Len(p) <= overlap + 1
  PROVE  Holds(Strip(UpTo(s, size)), p) \/ Holds(Strip(From(s, size - overlap)), p)
<1>1. /\ Len(s) \in Nat /\ p \in Seq(Chars) /\ Len(p) \in Nat /\ Len(p) >= 1
  BY LenProperties DEF Passage
<1>2. PICK i \in 0..(Len(s) - Len(p)) : StandsAt(s, p, i)
  BY <1>1, HoldsPoints
<1>3. CASE i + Len(p) <= size
  <2>1. UpTo(s, size) = SubSeq(s, 1, size)
    BY DEF UpTo
  <2>2. 1 \in Nat \ {0} /\ size <= Len(s) /\ i \in Nat /\ 1 <= i + 1
    BY <1>1, <1>2
  <2>3. Holds(SubSeq(s, 1, size), p) /\ SubSeq(s, 1, size) \in Seq(Chars)
    BY <1>1, <1>2, <1>3, <2>2, HoldsPart, SubText
  <2> QED BY <2>1, <2>3, HoldsStrip
<1>4. CASE i + Len(p) > size
  <2> DEFINE a == (size - overlap) + 1
  <2>1. /\ a \in Nat \ {0} /\ i \in Nat /\ a <= i + 1 /\ i + Len(p) <= Len(s)
    BY <1>1, <1>2, <1>4
  <2>2. From(s, size - overlap) = SubSeq(s, a, Len(s))
    BY DEF From
  <2> HIDE DEF a
  <2>3. Holds(SubSeq(s, a, Len(s)), p) /\ SubSeq(s, a, Len(s)) \in Seq(Chars)
    BY <1>1, <1>2, <2>1, HoldsPart, SubText
  <2> QED BY <2>2, <2>3, HoldsStrip
<1> QED BY <1>1, <1>2, <1>3, <1>4
-----------------------------------------------------------------------------
InSome(texts, p) == \E k \in 1..Len(texts) : Holds(texts[k], p)

InChunk(p) == \E c \in 1..Len(chunks) : Holds(chunks[c].content, p)

(* What is being put together, or cut.                                     *)
InHand == IF place = "slices" THEN paragraph ELSE current

(* While a text is split each of its passages is in the text to come, in   *)
(* the part in hand or in a part; while the parts are collected it is in   *)
(* one of those to come or already in a chunk.                             *)
WholeInv ==
  /\ \A d \in 1..(at - 1) : \A p \in Passages(documents[d]) : InChunk(p)
  /\ place \in {"paragraphs", "slices"} =>
       \A p \in Passages(Text) :
         Holds(rest, p) \/ Holds(InHand, p) \/ InSome(parts, p)
  /\ place = "parts" =>
       \A p \in Passages(Text) :
         InChunk(p) \/ \E k \in index..Len(parts) : Holds(parts[k], p)

(* Pushing a text on a list keeps what the list and the text hold.         *)
LEMMA HoldsAppended ==
  ASSUME NEW S, NEW texts \in Seq(S), NEW s \in S, NEW p,
         InSome(texts, p) \/ Holds(s, p)
  PROVE  InSome(Append(texts, s), p)
<1>1. /\ Len(texts) \in Nat /\ Len(Append(texts, s)) = Len(texts) + 1
      /\ \A k \in 1..Len(texts) : Append(texts, s)[k] = texts[k]
      /\ Append(texts, s)[Len(texts) + 1] = s
  BY LenProperties, AppendProperties
<1>2. CASE InSome(texts, p)
  BY <1>1, <1>2 DEF InSome
<1>3. CASE Holds(s, p)
  BY <1>1, <1>3 DEF InSome
<1> QED BY <1>2, <1>3

LEMMA HoldsPushed ==
  ASSUME TypeOK, NEW p, Passage(p), Holds(current, p) \/ InSome(parts, p)
  PROVE  InSome(Pushed, p)
<1>1. CASE current = <<>>
  BY <1>1, HoldsNothing DEF Pushed
<1>2. CASE current # <<>>
  BY <1>2, HoldsAppended DEF Pushed, TypeOK
<1> QED BY <1>1, <1>2

(* A paragraph that joins a part, or begins one after the end of the last. *)
LEMMA HoldsJoined ==
  ASSUME TypeOK, NEW p, Passage(p)
  PROVE  /\ Holds(current, p) => Holds(Candidate, p)
         /\ Holds(Piece(rest), p) => Holds(Candidate, p)
         /\ Holds(Piece(rest), p) => Holds(Overlapped, p)
<1> DEFINE breaks == <<NewLine, NewLine>>
<1>1. /\ current \in Seq(Chars) /\ Piece(rest) \in Seq(Chars) /\ p \in Seq(Chars)
      /\ breaks \in Seq(Chars)
  BY TextTypes DEF TypeOK, Parts, Passage
<1>2. Ending(current, settings.overlap) \in Seq(Chars)
  BY <1>1, TextTypes, SliceTypes
<1> HIDE DEF breaks
<1>3. Candidate = IF current = <<>> THEN Piece(rest)
                  ELSE (current \o breaks) \o Piece(rest)
  BY <1>1, ConcatAssociative DEF Candidate, breaks
<1>4. current \o breaks \in Seq(Chars)
  BY <1>1, ConcatProperties
<1>5. ASSUME Holds(current, p) PROVE Holds(Candidate, p)
  <2>1. current # <<>>
    BY <1>5, HoldsNothing
  <2>2. Holds(current \o breaks, p)
    BY <1>1, <1>5, HoldsConcat
  <2> QED BY <1>1, <1>3, <1>4, <2>1, <2>2, HoldsConcat
<1>6. ASSUME Holds(Piece(rest), p) PROVE Holds(Candidate, p)
  BY <1>1, <1>3, <1>4, <1>6, HoldsConcat
<1>7. ASSUME Holds(Piece(rest), p) PROVE Holds(Overlapped, p)
  <2>1. /\ Ending(current, settings.overlap) \o Piece(rest) \in Seq(Chars)
        /\ Holds(Ending(current, settings.overlap) \o Piece(rest), p)
    BY <1>1, <1>2, <1>7, HoldsConcat, ConcatProperties
  <2> QED BY <2>1, HoldsStrip DEF Overlapped
<1> QED BY <1>5, <1>6, <1>7

(* A step that takes no chunk away and does not go to the next document    *)
(* keeps the passages of the documents before.                             *)
LEMMA EarlierKept ==
  ASSUME WholeInv, UNCHANGED <<settings, documents, at>>,
         \A p : InChunk(p) => InChunk(p)'
  PROVE  (\A d \in 1..(at - 1) : \A p \in Passages(documents[d]) : InChunk(p))'
BY DEF WholeInv, Passages

LEMMA WholeStep == TypeOK /\ WholeInv /\ [Next]_vars => WholeInv'
<1> SUFFICES ASSUME TypeOK, WholeInv, [Next]_vars PROVE WholeInv'
  OBVIOUS
<1>1. ASSUME UNCHANGED chunks, NEW p
      PROVE  InChunk(p) <=> InChunk(p)'
  BY <1>1 DEF InChunk
<1>2. ASSUME UNCHANGED <<settings, documents, at>>
      PROVE  /\ Text' = Text
             /\ \A s : Passages(s)' = Passages(s)
  BY <1>2 DEF Text, Passages
<1>3. \A s : \A p \in Passages(s) : Passage(p) /\ p \in Seq(Chars) /\ Holds(s, p)
  BY DEF Passages
<1>4. CASE Whole
  <2>1. UNCHANGED <<settings, documents, at, chunks>> /\ place' = "parts" /\ index' = 1
    BY <1>4 DEF Whole
  <2>2. ASSUME NEW p \in Passages(Text)
        PROVE  \E k \in 1..Len(parts') : Holds(parts'[k], p)
    <3>1. Text # <<>>
      BY <1>3, <2>2, HoldsNothing
    <3>2. Len(parts') = 1 /\ parts'[1] = Text
      BY <1>4, <3>1 DEF Whole
    <3> QED BY <1>3, <2>2, <3>2
  <2> QED BY <1>1, <1>2, <2>1, <2>2, EarlierKept DEF WholeInv
<1>5. CASE Split
  <2>1. /\ UNCHANGED <<settings, documents, at, chunks>>
        /\ place' = "paragraphs" /\ rest' = Text
    BY <1>5 DEF Split
  <2> QED BY <1>1, <1>2, <1>3, <2>1, EarlierKept DEF WholeInv
<1>6. ASSUME UNCHANGED <<settings, documents, at, chunks>>,
             place' \in {"paragraphs", "slices"},
             \A p \in Passages(Text) :
               \/ Holds(rest', p) \/ Holds(InHand', p) \/ InSome(parts', p)
      PROVE  WholeInv'
  BY <1>1, <1>2, <1>6, EarlierKept DEF WholeInv
<1>7. ASSUME NextParagraph, NEW p \in Passages(Text)
      PROVE  \/ Holds(Piece(rest), p) \/ Holds(Beyond(rest), p)
             \/ Holds(current, p) \/ InSome(parts, p)
  <2>1. Holds(rest, p) \/ Holds(current, p) \/ InSome(parts, p)
    BY <1>7 DEF NextParagraph, WholeInv, InHand
  <2> QED BY <1>3, <1>7, <2>1, HoldsPiece DEF TypeOK
<1>8. CASE SkipBlank
  <2>1. ASSUME NEW p \in Passages(Text)
        PROVE  Holds(rest', p) \/ Holds(InHand', p) \/ InSome(parts', p)
    <3>1. ~ Holds(Piece(rest), p)
      BY <1>3, <1>8, HoldsNothing DEF SkipBlank
    <3>2. rest' = Beyond(rest) /\ InHand' = current /\ parts' = parts
      BY <1>8 DEF SkipBlank, NextParagraph, InHand
    <3> QED BY <1>7, <1>8, <3>1, <3>2 DEF SkipBlank
  <2> QED BY <1>6, <1>8, <2>1 DEF SkipBlank, NextParagraph
<1>9. CASE Join
  <2>1. ASSUME NEW p \in Passages(Text)
        PROVE  Holds(rest', p) \/ Holds(InHand', p) \/ InSome(parts', p)
    <3>1. rest' = Beyond(rest) /\ InHand' = Candidate /\ parts' = parts
      BY <1>9 DEF Join, NextParagraph, InHand
    <3>2. Holds(current, p) \/ Holds(Piece(rest), p) => Holds(Candidate, p)
      BY <1>3, HoldsJoined
    <3> QED BY <1>7, <1>9, <3>1, <3>2 DEF Join
  <2> QED BY <1>6, <1>9, <2>1 DEF Join, NextParagraph
<1>10. CASE Overlap
  <2>1. ASSUME NEW p \in Passages(Text)
        PROVE  Holds(rest', p) \/ Holds(InHand', p) \/ InSome(parts', p)
    <3>1. rest' = Beyond(rest) /\ InHand' = Overlapped /\ parts' = Pushed
      BY <1>10 DEF Overlap, NextParagraph, InHand
    <3>2. Holds(Piece(rest), p) => Holds(Overlapped, p)
      BY <1>3, HoldsJoined
    <3>3. Holds(current, p) \/ InSome(parts, p) => InSome(Pushed, p)
      BY <1>3, HoldsPushed
    <3> QED BY <1>7, <1>10, <3>1, <3>2, <3>3 DEF Overlap
  <2> QED BY <1>6, <1>10, <2>1 DEF Overlap, NextParagraph
<1>11. CASE Cut
  <2>1. ASSUME NEW p \in Passages(Text)
        PROVE  Holds(rest', p) \/ Holds(InHand', p) \/ InSome(parts', p)
    <3>1. rest' = Beyond(rest) /\ InHand' = Piece(rest) /\ parts' = Pushed
      BY <1>11 DEF Cut, InHand
    <3>2. Holds(current, p) \/ InSome(parts, p) => InSome(Pushed, p)
      BY <1>3, HoldsPushed
    <3> QED BY <1>7, <1>11, <3>1, <3>2 DEF Cut
  <2> QED BY <1>6, <1>11, <2>1 DEF Cut
<1>12. CASE Slice
  <2> DEFINE slice == Strip(UpTo(paragraph, settings.size))
  <2>1. ASSUME NEW p \in Passages(Text)
        PROVE  Holds(rest', p) \/ Holds(InHand', p) \/ InSome(parts', p)
    <3>1. /\ rest' = rest /\ InHand' = RestOfParagraph /\ parts' = Append(parts, slice)
          /\ InHand = paragraph
      BY <1>12 DEF Slice, InHand
    <3>2. Holds(rest, p) \/ Holds(paragraph, p) \/ InSome(parts, p)
      BY <1>12, <3>1 DEF Slice, WholeInv
    <3>3. Holds(paragraph, p) => Holds(slice, p) \/ Holds(RestOfParagraph, p)
      <4>1. settings.size < Len(paragraph) /\ paragraph \in Seq(Chars)
        BY <1>12, TextTypes, LenProperties DEF Slice, TypeOK
      <4>2. Passage(p) /\ Len(p) <= settings.overlap + 1
        BY DEF Passages
      <4>3. CASE Advancing
        BY <4>1, <4>2, <4>3, TextTypes, HoldsSlice
           DEF RestOfParagraph, SliceStep, Advancing
      <4>4. CASE ~Advancing
        BY <4>1, <4>2, <4>4, FromStart DEF RestOfParagraph, SliceStep
      <4> QED BY <4>3, <4>4
    <3>4. slice \in Parts
      <4>1. paragraph \in Seq(Chars) /\ settings.size \in Nat
        BY TextTypes DEF TypeOK
      <4>2. /\ UpTo(paragraph, settings.size) \in Seq(Chars)
            /\ Len(UpTo(paragraph, settings.size)) <= settings.size
        BY <4>1, SliceTypes
      <4> QED BY <4>1, <4>2, StripType, LenProperties DEF Parts
    <3> HIDE DEF slice
    <3>5. InSome(parts, p) \/ Holds(slice, p) => InSome(Append(parts, slice), p)
      BY <3>4, HoldsAppended DEF TypeOK
    <3> QED BY <3>1, <3>2, <3>3, <3>5
  <2> QED BY <1>6, <1>12, <2>1 DEF Slice
<1>13. CASE KeepRest
  <2>1. rest' = rest /\ InHand' = InHand /\ parts' = parts
    BY <1>13 DEF KeepRest, InHand
  <2> QED BY <1>6, <1>13, <2>1 DEF KeepRest, WholeInv
<1>14. CASE EndOfText
  <2>1. /\ UNCHANGED <<settings, documents, at, chunks>>
        /\ place' = "parts" /\ index' = 1 /\ parts' = Pushed
    BY <1>14 DEF EndOfText
  <2>2. ASSUME NEW p \in Passages(Text)
        PROVE  InSome(Pushed, p)
    <3>1. Holds(rest, p) \/ Holds(current, p) \/ InSome(parts, p)
      BY <1>14 DEF EndOfText, WholeInv, InHand
    <3>2. ~ Holds(rest, p)
      BY <1>3, <1>14, HoldsNothing DEF EndOfText
    <3> QED BY <1>3, <3>1, <3>2, HoldsPushed
  <2>3. \A p \in Passages(Text) : \E k \in 1..Len(parts') : Holds(parts'[k], p)
    BY <2>1, <2>2 DEF InSome
  <2> QED BY <1>1, <1>2, <2>1, <2>3, EarlierKept DEF WholeInv
<1>15. CASE Collect
  <2>1. UNCHANGED <<settings, documents, at, place, parts>> /\ place = "parts"
    BY <1>15 DEF Collect
  <2> DEFINE content == Strip(parts[index])
             chunk == [document |-> at, index |-> index, content |-> content]
  <2>2. /\ chunks \in Seq(Chunks) /\ Len(chunks) \in Nat
        /\ parts[index] \in Seq(Chars) /\ chunk \in Chunks
    <3>1. parts[index] \in Parts
      BY <1>15, ElementOfSeq, TextTypes DEF Collect, TypeOK
    <3>2. content \in Parts
      BY <3>1, StripType, LenProperties, TextTypes DEF Parts
    <3>3. chunk \in Chunks
      BY <3>2, TextTypes DEF Chunks
    <3> QED BY <3>1, <3>3, LenProperties DEF TypeOK, Parts
  <2>3. chunk.content = content
    OBVIOUS
  <2> HIDE DEF chunk
  <2>4. /\ Len(Append(chunks, chunk)) = Len(chunks) + 1
        /\ \A c \in 1..Len(chunks) : Append(chunks, chunk)[c] = chunks[c]
        /\ Append(chunks, chunk)[Len(chunks) + 1] = chunk
    BY <2>2, AppendProperties
  <2>5. chunks' = IF content = <<>> \/ Seen(content) THEN chunks
                  ELSE Append(chunks, chunk)
    BY <1>15 DEF Collect, chunk
  <2> HIDE DEF content
  <2>6. ASSUME NEW p, InChunk(p) PROVE InChunk(p)'
    BY <2>2, <2>4, <2>5, <2>6 DEF InChunk
  <2>7. ASSUME NEW p \in Passages(Text), Holds(parts[index], p)
        PROVE  InChunk(p)'
    <3>1. Holds(content, p) /\ content # <<>>
      BY <1>3, <2>2, <2>7, HoldsStrip, HoldsNothing DEF content
    <3>2. CASE Seen(content)
      BY <2>5, <3>1, <3>2 DEF Seen, InChunk
    <3>3. CASE ~ Seen(content)
      BY <2>2, <2>3, <2>4, <2>5, <3>1, <3>3 DEF InChunk
    <3> QED BY <3>2, <3>3
  <2>8. ASSUME NEW p \in Passages(Text)
        PROVE  InChunk(p)' \/ \E k \in index'..Len(parts') : Holds(parts'[k], p)
    <3>1. InChunk(p) \/ \E k \in index..Len(parts) : Holds(parts[k], p)
      BY <2>1 DEF WholeInv
    <3>2. ASSUME NEW k \in index..Len(parts), k # index
          PROVE  k \in index'..Len(parts')
      <4>1. index' = index + 1 /\ Len(parts') = Len(parts) /\ index \in Nat
        BY <1>15, TextTypes DEF Collect
      <4> QED BY <3>2, <4>1
    <3> QED BY <2>1, <2>6, <2>7, <3>1, <3>2
  <2> QED BY <1>2, <2>1, <2>6, <2>8, EarlierKept DEF WholeInv
<1>16. CASE EndOfDocument
  <2>1. /\ UNCHANGED <<settings, documents, chunks>> /\ at' = at + 1
        /\ place' = "document" /\ place = "parts" /\ index > Len(parts)
    BY <1>16 DEF EndOfDocument
  <2>2. /\ at \in 1..Len(documents) /\ Len(documents) \in Nat
        /\ documents[at] \in Seq(Chars)
        /\ index \in Nat /\ Len(parts) \in Nat
    <3>1. at \in 1..Len(documents) /\ Len(documents) \in Nat
      BY <2>1, TextTypes DEF TypeOK
    <3> QED BY <3>1, TextTypes, CountTypes, ElementOfSeq
  <2>3. ASSUME NEW p \in Passages(documents[at]) PROVE InChunk(p)
    <3>1. p \in Passages(Text)
      BY <2>2, HoldsStrip DEF Passages, Text
    <3>2. InChunk(p) \/ \E k \in index..Len(parts) : Holds(parts[k], p)
      BY <2>1, <3>1 DEF WholeInv
    <3> QED BY <2>1, <2>2, <3>2
  <2>4. ASSUME NEW d \in 1..(at' - 1), NEW p \in Passages(documents[d])
        PROVE  InChunk(p)
    <3>1. d \in 1..(at - 1) \/ d = at
      BY <2>1, <2>2
    <3> QED BY <2>3, <2>4, <3>1 DEF WholeInv
  <2>5. \A s : Passages(s)' = Passages(s)
    BY <2>1 DEF Passages
  <2> QED BY <1>1, <2>1, <2>4, <2>5 DEF WholeInv
<1>17. CASE EndOfLibrary
  <2>1. UNCHANGED <<settings, documents, at, chunks>> /\ place' = "done"
    BY <1>17 DEF EndOfLibrary
  <2> QED BY <1>1, <2>1, EarlierKept DEF WholeInv
<1>18. CASE UNCHANGED vars
  BY <1>18 DEF vars, WholeInv, InChunk, InSome, InHand, Passages, Text
<1> QED
  BY <1>4, <1>5, <1>8, <1>9, <1>10, <1>11, <1>12, <1>13, <1>14, <1>15, <1>16,
     <1>17, <1>18 DEF Next

(* What the properties call a passage is one.                              *)
LEMMA PassageOfText ==
  ASSUME NEW s \in Seq(Chars), NEW i \in 1..Len(s), NEW k \in i..Len(s),
         s[i] \notin White, s[k] \notin White, Breaks(s) \cap (i..k) = {}
  PROVE  /\ Passage(SubSeq(s, i, k)) /\ Holds(s, SubSeq(s, i, k))
         /\ Len(SubSeq(s, i, k)) = k - i + 1
<1> DEFINE p == SubSeq(s, i, k)
<1>1. Len(s) \in Nat /\ i \in Nat \ {0} /\ k \in Nat /\ i <= k /\ k <= Len(s)
  BY LenProperties
<1>2. p \in Seq(Chars) /\ Len(p) = k - i + 1
  BY <1>1, SubText
<1>3. \A j \in 1..(k - i + 1) : p[j] = s[j + (i - 1)]
  BY <1>1, SubChars
<1> HIDE DEF p
<1>4. p[1] = s[i] /\ p[Len(p)] = s[k]
  <2>1. /\ 1 \in 1..(k - i + 1) /\ 1 + (i - 1) = i
        /\ k - i + 1 \in 1..(k - i + 1) /\ (k - i + 1) + (i - 1) = k
    BY <1>1
  <2> QED BY <1>2, <1>3, <2>1
<1>5. Breaks(p) = {}
  <2> SUFFICES ASSUME NEW j \in Breaks(p) PROVE FALSE
    OBVIOUS
  <2>1. j \in 1..(k - i) /\ p[j] = NewLine /\ p[j + 1] = NewLine
    BY <1>1, <1>2 DEF Breaks
  <2>2. /\ j \in 1..(k - i + 1) /\ j + 1 \in 1..(k - i + 1)
        /\ (j + 1) + (i - 1) = (j + (i - 1)) + 1
    BY <1>1, <2>1
  <2>3. s[j + (i - 1)] = NewLine /\ s[(j + (i - 1)) + 1] = NewLine
    BY <1>3, <2>1, <2>2
  <2>4. j + (i - 1) \in 1..(Len(s) - 1) /\ j + (i - 1) \in i..k
    BY <1>1, <2>1
  <2>5. j + (i - 1) \in Breaks(s)
    BY <2>3, <2>4 DEF Breaks
  <2> QED BY <2>4, <2>5
<1>6. Holds(s, p)
  <2>1. i - 1 \in 0..(Len(s) - Len(p)) /\ (i - 1) + 1 = i /\ (i - 1) + Len(p) = k
    BY <1>1, <1>2
  <2>2. SubSeq(s, (i - 1) + 1, (i - 1) + Len(p)) = p
    BY <2>1 DEF p
  <2> QED BY <2>1, <2>2 DEF Holds
<1>7. Len(p) >= 1
  BY <1>1, <1>2
<1>8. Passage(p) /\ Holds(s, p) /\ Len(p) = k - i + 1
  BY <1>2, <1>4, <1>5, <1>6, <1>7 DEF Passage
<1> QED BY <1>8 DEF p

(* Every passage that is no longer than the overlap and one character more *)
(* is whole in a chunk, wherever the texts are cut.                        *)
THEOREM PassagesKept == Spec => []PassagesStayWhole
<1>1. Init => WholeInv
  BY DEF Init, WholeInv
<1>2. TypeOK /\ WholeInv /\ [Next]_vars => WholeInv'
  BY WholeStep
<1>3. TypeOK /\ WholeInv => PassagesStayWhole
  <2> SUFFICES ASSUME TypeOK, WholeInv, NEW d \in 1..(at - 1),
                      NEW i \in 1..Len(documents[d]), NEW k \in i..Len(documents[d]),
                      k - i <= settings.overlap,
                      documents[d][i] \notin White, documents[d][k] \notin White,
                      Breaks(documents[d]) \cap (i..k) = {}
               PROVE  InChunk(SubSeq(documents[d], i, k))
    BY DEF PassagesStayWhole, InChunk
  <2>1. documents[d] \in Seq(Chars)
    <3>1. d \in 1..Len(documents)
      BY TextTypes DEF TypeOK
    <3> QED BY <3>1, TextTypes, ElementOfSeq
  <2> DEFINE p == SubSeq(documents[d], i, k)
  <2>2. Passage(p) /\ Holds(documents[d], p) /\ Len(p) = k - i + 1
    BY <2>1, PassageOfText
  <2> HIDE DEF p
  <2>3. p \in Passages(documents[d])
    <3>1. k - i + 1 <= settings.overlap + 1
      BY TextTypes, LenProperties, <2>1
    <3> QED BY <2>2, <3>1 DEF Passages, Passage
  <2>4. InChunk(p)
    BY <2>3 DEF WholeInv
  <2> QED BY <2>4 DEF p
<1> QED
  BY <1>1, <1>2, <1>3, TypeCorrect, PTL DEF Spec
-----------------------------------------------------------------------------
(* What no part may hold.                                                  *)
Long(p) == Passage(p) /\ Len(p) > settings.size

(* Where the slices do not advance, a passage longer than the size is in   *)
(* the text to come or in the paragraph being cut for ever: its document   *)
(* is not left behind.                                                     *)
LongInv ==
  ~Advancing =>
    /\ \A d \in 1..(at - 1) : \A p : Long(p) => ~Holds(documents[d], p)
    /\ place = "paragraphs" => \A p : Long(p) /\ Holds(Text, p) => Holds(rest, p)
    /\ place = "slices" =>
         \A p : Long(p) /\ Holds(Text, p) => Holds(rest, p) \/ Holds(paragraph, p)
    /\ place = "parts" => \A p : Long(p) => ~Holds(Text, p)

(* No text of the chunk size has a passage that is longer.                 *)
LEMMA NoneLonger ==
  ASSUME TypeOK, NEW s \in Seq(Chars), Len(s) <= settings.size, NEW p, Long(p)
  PROVE  ~Holds(s, p)
<1>1. Len(s) \in Nat /\ Len(p) \in Nat /\ settings.size \in Nat
  BY TextTypes, LenProperties DEF Long, Passage
<1> QED BY <1>1 DEF Holds, Long

LEMMA LongStep == TypeOK /\ LongInv /\ [Next]_vars => LongInv'
<1>0. [Next]_vars => settings' = settings
  BY DEF Next, vars, Whole, Split, SkipBlank, Join, Overlap, Cut, Slice, KeepRest,
         EndOfText, Collect, EndOfDocument, EndOfLibrary
<1> SUFFICES ASSUME TypeOK, LongInv, [Next]_vars, ~Advancing PROVE LongInv'
  BY <1>0 DEF LongInv, Advancing
<1>1. settings' = settings /\ ~Advancing' /\ \A p : Long(p)' <=> Long(p)
  BY <1>0 DEF Advancing, Long
<1>2. \A p : Long(p) => Passage(p)
  BY DEF Long
<1>3. CASE Whole
  <2>1. \A p : Long(p) => ~Holds(Text, p)
    BY <1>3, TextTypes, NoneLonger DEF Whole
  <2>2. UNCHANGED <<documents, at>> /\ Text' = Text /\ place' = "parts"
    BY <1>3 DEF Whole, Text
  <2> QED BY <1>1, <2>1, <2>2 DEF LongInv
<1>4. CASE Split
  <2>1. /\ UNCHANGED <<documents, at>> /\ Text' = Text
        /\ place' = "paragraphs" /\ rest' = Text
    BY <1>4 DEF Split, Text
  <2> QED BY <1>1, <2>1 DEF LongInv
<1>5. ASSUME NextParagraph, NEW p, Long(p), Holds(Text, p)
      PROVE  Holds(Piece(rest), p) \/ Holds(Beyond(rest), p)
  <2>1. Holds(rest, p)
    BY <1>5 DEF NextParagraph, LongInv
  <2> QED BY <1>2, <1>5, <2>1, HoldsPiece DEF TypeOK
<1>6. CASE SkipBlank \/ Join \/ Overlap
  <2>1. /\ UNCHANGED <<documents, at>> /\ Text' = Text /\ NextParagraph
        /\ place' = "paragraphs" /\ rest' = Beyond(rest)
    BY <1>6 DEF SkipBlank, Join, Overlap, NextParagraph, Text
  <2>2. ASSUME NEW p, Long(p), Holds(Piece(rest), p) PROVE FALSE
    <3>1. CASE SkipBlank
      BY <1>2, <2>2, <3>1, HoldsNothing DEF SkipBlank
    <3>2. CASE Join
      <4>1. Candidate \in Seq(Chars)
        BY TextTypes, ConcatProperties DEF Candidate, TypeOK, Parts
      <4>2. Holds(Candidate, p)
        BY <1>2, <2>2, HoldsJoined
      <4> QED BY <2>2, <3>2, <4>1, <4>2, NoneLonger DEF Join, Fits
    <3>3. CASE Overlap
      <4>1. Overlapped \in Seq(Chars)
        <5>1. Ending(current, settings.overlap) \in Seq(Chars)
          BY TextTypes, SliceTypes DEF TypeOK, Parts
        <5> QED BY <5>1, TextTypes, ConcatProperties, StripType DEF Overlapped
      <4>2. Holds(Overlapped, p)
        BY <1>2, <2>2, HoldsJoined
      <4> QED BY <2>2, <3>3, <4>1, <4>2, NoneLonger DEF Overlap
    <3> QED BY <1>6, <3>1, <3>2, <3>3
  <2> QED BY <1>1, <1>5, <2>1, <2>2 DEF LongInv
<1>7. CASE Cut
  <2>1. /\ UNCHANGED <<documents, at>> /\ Text' = Text /\ NextParagraph
        /\ place' = "slices" /\ rest' = Beyond(rest) /\ paragraph' = Piece(rest)
    BY <1>7 DEF Cut, Text
  <2> QED BY <1>1, <1>5, <2>1 DEF LongInv
<1>8. CASE Slice
  <2>1. /\ UNCHANGED <<documents, at>> /\ Text' = Text /\ place = "slices"
        /\ place' = "slices" /\ rest' = rest /\ paragraph' = Strip(From(paragraph, 0))
    BY <1>8 DEF Slice, Text, RestOfParagraph, SliceStep
  <2>2. ASSUME NEW p, Long(p), Holds(paragraph, p)
        PROVE  Holds(paragraph', p)
    BY <1>2, <2>1, <2>2, FromStart DEF TypeOK
  <2> QED BY <1>1, <2>1, <2>2 DEF LongInv
<1>9. CASE KeepRest
  <2>1. /\ UNCHANGED <<documents, at>> /\ Text' = Text /\ place = "slices"
        /\ place' = "paragraphs" /\ rest' = rest
    BY <1>9 DEF KeepRest, Text
  <2>2. \A p : Long(p) => ~Holds(paragraph, p)
    BY <1>9, NoneLonger DEF KeepRest, TypeOK
  <2> QED BY <1>1, <2>1, <2>2 DEF LongInv
<1>10. CASE EndOfText
  <2>1. /\ UNCHANGED <<documents, at>> /\ Text' = Text /\ place = "paragraphs"
        /\ place' = "parts" /\ rest = <<>>
    BY <1>10 DEF EndOfText, Text
  <2>2. \A p : Long(p) => ~Holds(rest, p)
    BY <1>2, <2>1, HoldsNothing
  <2> QED BY <1>1, <2>1, <2>2 DEF LongInv
<1>11. CASE Collect
  BY <1>1, <1>11 DEF Collect, LongInv, Text
<1>12. CASE EndOfDocument
  <2>1. /\ UNCHANGED documents /\ at' = at + 1 /\ place = "parts"
        /\ place' = "document"
    BY <1>12 DEF EndOfDocument
  <2>2. at \in 1..Len(documents) /\ documents[at] \in Seq(Chars)
    <3>1. at \in 1..Len(documents)
      BY <2>1, TextTypes DEF TypeOK
    <3> QED BY <3>1, TextTypes, ElementOfSeq
  <2>3. ASSUME NEW p, Long(p) PROVE ~Holds(documents[at], p)
    BY <1>2, <2>1, <2>2, <2>3, HoldsStrip DEF LongInv, Text
  <2>4. ASSUME NEW d \in 1..(at' - 1), NEW p, Long(p)
        PROVE  ~Holds(documents[d], p)
    <3>1. d \in 1..(at - 1) \/ d = at
      BY <2>1, <2>2, TextTypes
    <3> QED BY <2>3, <2>4, <3>1 DEF LongInv
  <2> QED BY <1>1, <2>1, <2>4 DEF LongInv
<1>13. CASE EndOfLibrary
  BY <1>1, <1>13 DEF EndOfLibrary, LongInv
<1>14. CASE UNCHANGED vars
  BY <1>1, <1>14 DEF vars, LongInv, Text
<1> QED
  BY <1>3, <1>4, <1>6, <1>7, <1>8, <1>9, <1>10, <1>11, <1>12, <1>13, <1>14 DEF Next

LEMMA LongStays == TypeOK /\ LongInv => LongParagraphsStay
<1> SUFFICES ASSUME TypeOK, LongInv, ~Advancing, NEW d \in 1..(at - 1),
                    NEW i \in 1..Len(documents[d]), NEW k \in i..Len(documents[d]),
                    documents[d][i] \notin White, documents[d][k] \notin White,
                    Breaks(documents[d]) \cap (i..k) = {}
             PROVE  k - i < settings.size
  BY DEF LongParagraphsStay
<1>1. documents[d] \in Seq(Chars)
  <2>1. d \in 1..Len(documents)
    BY TextTypes DEF TypeOK
  <2> QED BY <2>1, TextTypes, ElementOfSeq
<1> DEFINE p == SubSeq(documents[d], i, k)
<1>2. Passage(p) /\ Holds(documents[d], p) /\ Len(p) = k - i + 1
  BY <1>1, PassageOfText
<1> HIDE DEF p
<1>3. ~Long(p)
  BY <1>2 DEF LongInv
<1>4. Len(p) <= settings.size
  BY <1>1, <1>2, <1>3, TextTypes, LenProperties DEF Long
<1> QED BY <1>1, <1>2, <1>4, TextTypes, LenProperties

(* With an overlap below the size a text is cut into no more parts than it *)
(* has paragraphs and slices; with any other, a text with a paragraph      *)
(* longer than the size is never cut to its end.                           *)
THEOREM CuttingBounded == Spec => []CuttingEndsAsSet
<1>1. Init => CountInv /\ LongInv
  BY DEF Init, CountInv, LongInv
<1>2. TypeOK /\ CountInv /\ LongInv => CuttingEndsAsSet
  BY CountBounds, LongStays DEF CuttingEndsAsSet
<1> QED
  BY <1>1, <1>2, TypeCorrect, CountStep, LongStep, PTL DEF Spec
=============================================================================
