------------------------------ MODULE Chunking ------------------------------
(***************************************************************************)
(* How a parsed document is cut into chunks (chunk_service.split_structured)*)
(* : tables stay whole, text is cut into large parents and those into the  *)
(* children that are indexed; the children of one parent share its number. *)
(***************************************************************************)
EXTENDS Terms

CONSTANTS
  Documents,      \* sequences of sections [type, content]
  Vocabularies,
  ParentSize, ParentOverlap, ChildSize, ChildOverlap

VARIABLES
  document, vocabulary,
  next,    \* the section that is cut next
  chunks,  \* the chunks so far
  group    \* number of the next parent

vars == <<document, vocabulary, next, chunks, group>>

Init ==
  /\ document \in Documents /\ vocabulary \in Vocabularies
  /\ next = 1 /\ chunks = <<>> /\ group = 0

Newline == Plain("newline", {})
IsInk(c) == c.sym # "newline"
Lesser(a, b) == IF a < b THEN a ELSE b
Greater(a, b) == IF a > b THEN a ELSE b

Strip(text) ==
  LET ink == {i \in DOMAIN text : IsInk(text[i])} IN
  IF ink = {} THEN <<>>
  ELSE SubSeq(text, CHOOSE i \in ink : \A j \in ink : i <= j,
                    CHOOSE i \in ink : \A j \in ink : j <= i)

(* Where the piece of a long paragraph that begins after character s ends:  *)
(* behind the last sentence end of its second half, or at its full size.    *)
PieceEnd(text, s, size) ==
  LET end == Lesser(s + size, Len(text))
      stops == {i \in s + size \div 2 + 2 .. end : text[i].sym = "stop"} IN
  IF end = Len(text) \/ stops = {} THEN end
  ELSE CHOOSE i \in stops : \A j \in stops : j <= i

(* _split_long: each piece repeats the end of the one before, and begins at *)
(* least one character behind it.                                           *)
SplitLong(text, size, overlap) ==
  LET from[s \in 0 .. Len(text) - 1] ==
        LET end == PieceEnd(text, s, size) IN
        <<SubSeq(text, s + 1, end)>>
          \o IF end >= Len(text) THEN <<>> ELSE from[Greater(end - overlap, s + 1)]
  IN from[0]

(* The lines of a text that are not empty. *)
Paragraphs(text) ==
  LET Add(lines, c) ==
        IF IsInk(c) THEN Append(Front(lines), Append(Last(lines), c))
        ELSE Append(lines, <<>>)
  IN SelectSeq(FoldLeft(Add, << <<>> >>, text), LAMBDA line : line # <<>>)

(* split_text: paragraphs are collected up to the size; one that is longer  *)
(* closes the collection and is split by itself.                            *)
SplitText(content, size, overlap) ==
  LET text == Normalize(Strip(content), vocabulary)
      Close(acc) == IF acc.open = <<>> THEN acc.done ELSE Append(acc.done, acc.open)
      Collect(acc, p) ==
        CASE Len(p) > size ->
               [done |-> Close(acc) \o SplitLong(p, size, overlap), open |-> <<>>]
          [] Len(p) <= size /\ Len(acc.open) + Len(p) + 1 <= size ->
               [acc EXCEPT !.open = IF @ = <<>> THEN p ELSE @ \o <<Newline>> \o p]
          [] OTHER -> [done |-> Close(acc), open |-> p]
  IN CASE text = <<>> -> <<>>
       [] text # <<>> /\ Len(text) <= size -> <<text>>
       [] OTHER -> Close(FoldLeft(Collect, [done |-> <<>>, open |-> <<>>], Paragraphs(text)))

Chunk(text, type, parent) ==
  [text |-> text, chunk_type |-> type, parent_idx |-> parent, section |-> next]

(* split_structured, one section.  Titles, pages and boxes are left out.    *)
CutTable ==
  /\ next <= Len(document) /\ document[next].type = "table"
  /\ LET md == Strip(Text(document[next].content)) IN
     IF md = <<>> THEN UNCHANGED <<chunks, group>>
     ELSE /\ chunks' = Append(chunks, Chunk(md, "table", group))
          /\ group' = group + 1
  /\ next' = next + 1 /\ UNCHANGED <<document, vocabulary>>

Children(big, parent) ==
  LET smalls == SplitText(big, ChildSize, ChildOverlap) IN
  [i \in DOMAIN smalls |-> Chunk(smalls[i], "child", parent)]

CutText ==
  /\ next <= Len(document) /\ document[next].type = "text"
  /\ LET bigs == SplitText(Text(document[next].content), ParentSize, ParentOverlap) IN
     /\ chunks' = chunks \o FlattenSeq([i \in DOMAIN bigs |->
                                          Children(bigs[i], group + i - 1)])
     /\ group' = group + Len(bigs)
  /\ next' = next + 1 /\ UNCHANGED <<document, vocabulary>>

Next == CutTable \/ CutText

Spec == Init /\ [][Next]_vars

-----------------------------------------------------------------------------
Cut == 1 .. next - 1
Of(s) == {i \in DOMAIN chunks : chunks[i].section = s}

(* Every character of a section that is no line break is in a chunk of that *)
(* section, through both cuts and both normal forms (split_structured).     *)
NothingLost ==
  \A s \in Cut :
    {i \in DOMAIN document[s].content : document[s].content[i] # "newline"}
      \subseteq UNION {Places(chunks[i].text) : i \in Of(s)}

(* A child fits the size that is embedded, though the normal form of a text *)
(* is longer than the text; a table is one chunk and alone with its number. *)
SizesKept ==
  \A i \in DOMAIN chunks :
    IF chunks[i].chunk_type = "child" THEN Len(chunks[i].text) \in 1 .. ChildSize
    ELSE \A j \in DOMAIN chunks \ {i} : chunks[j].parent_idx # chunks[i].parent_idx

(* Parents are numbered in reading order and without gaps, and the children *)
(* of one are neighbours of one section: the lookup of a parent by its      *)
(* number finds one piece of the document.                                  *)
ParentsAreWhole ==
  /\ {chunks[i].parent_idx : i \in DOMAIN chunks} = 0 .. group - 1
  /\ \A i \in 1 .. Len(chunks) - 1 :
       /\ chunks[i + 1].parent_idx \in chunks[i].parent_idx .. chunks[i].parent_idx + 1
       /\ chunks[i + 1].parent_idx = chunks[i].parent_idx
            => chunks[i + 1].section = chunks[i].section

(* A stored child is its own normal form, so that a question in normal form *)
(* can meet it, unless aliases and standard words overlap: then a cut can   *)
(* break a word that hid an alias (split_text normalizes before it cuts).   *)
StoredIsNormal ==
  Entangled(vocabulary) \/
    \A i \in DOMAIN chunks : chunks[i].chunk_type = "child" =>
      Normalize(chunks[i].text, vocabulary) = chunks[i].text

\* A document is stored whole, in pieces that fit, under the numbers of their parents,
\* and in the words questions are asked in.
ChunksSound == NothingLost /\ SizesKept /\ ParentsAreWhole /\ StoredIsNormal
=============================================================================
