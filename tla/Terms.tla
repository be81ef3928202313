------------------------------- MODULE Terms -------------------------------
(***************************************************************************)
(* The vocabulary of the warehouse (term_service): aliases and the standard*)
(* words they stand for, and the normal form of a text, in which documents *)
(* are cut and questions are asked.                                        *)
(***************************************************************************)
EXTENDS Naturals, SequencesExt

(* A word is a sequence of symbols.  A character of a text has a symbol,    *)
(* the places of the original text it stands for, and, when it is the       *)
(* placeholder of a standard word, the characters it hides.                 *)
Plain(symbol, places) == [sym |-> symbol, at |-> places, hides |-> <<>>]
Placeholder(piece) == [sym |-> "placeholder", at |-> {}, hides |-> piece]

Places(text) == UNION {text[i].at : i \in DOMAIN text}
Text(symbols) == [i \in DOMAIN symbols |-> Plain(symbols[i], {i})]

Occurs(word, text, i) ==
  /\ i + Len(word) - 1 <= Len(text)
  /\ \A k \in DOMAIN word : text[i + k - 1].sym = word[k]

(* What a piece of a text gives way to: the symbols of a standard word, or, *)
(* without any, its placeholder.                                            *)
Instead(piece, symbols) ==
  IF symbols = <<>> THEN <<Placeholder(piece)>>
  ELSE [k \in DOMAIN symbols |-> Plain(symbols[k], Places(piece))]

(* text.replace(word, ...): occurrences from the left that do not overlap. *)
Replaced(text, word, symbols) ==
  LET from[i \in 1 .. Len(text) + 1] ==
        IF i > Len(text) THEN <<>>
        ELSE IF Occurs(word, text, i)
             THEN Instead(SubSeq(text, i, i + Len(word) - 1), symbols) \o from[i + Len(word)]
             ELSE <<text[i]>> \o from[i + 1]
  IN from[1]

(* normalize: standard words are hidden, longest first, aliases are         *)
(* replaced, longest first, and the words are shown again.  What an alias   *)
(* was replaced by is not hidden from the aliases that follow.              *)
Hidden(text, standards) ==
  FoldLeft(LAMBDA t, word : Replaced(t, word, <<>>), text, standards)

Renamed(text, entries) ==
  FoldLeft(LAMBDA t, entry : Replaced(t, entry.alias, entry.standard), text, entries)

Shown(text) ==
  FlattenSeq([i \in DOMAIN text |->
                IF text[i].hides = <<>> THEN <<text[i]>> ELSE text[i].hides])

(* A vocabulary lists its standard words and its entries as sorted(...,     *)
(* key=len, reverse=True) gives them.                                       *)
Normalize(text, vocabulary) ==
  Shown(Renamed(Hidden(text, vocabulary.standards), vocabulary.entries))

(* Some alias can share characters with a standard word without hiding it   *)
(* whole: it is inside the word, ends as the word begins, or begins as the  *)
(* word ends.                                                               *)
Overlaps(alias, word) ==
  ((Suffixes(alias) \cap Prefixes(word)) \cup (Prefixes(alias) \cap Suffixes(word))
     \cup ({alias} \cap SubSeqs(word))) \ {<<>>, word} # {}

Entangled(vocabulary) ==
  \E e, f \in Range(vocabulary.entries) : e.alias # f.standard /\ Overlaps(e.alias, f.standard)
=============================================================================
