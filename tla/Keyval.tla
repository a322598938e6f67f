------------------------------- MODULE Keyval -------------------------------
(***************************************************************************)
(* The values of response tokens (parse_conf.c, "Low-level keyval          *)
(* implementation"): a keyval looks for its word in the text of a response,*)
(* character by character, and collects the value that follows.  What has  *)
(* been matched is kept between calls, so that a word or a value may be    *)
(* spread over packets.                                                    *)
(*                                                                         *)
(* Collected says, of a whole text, what a keyval should have collected.   *)
(***************************************************************************)
EXTENDS Naturals, SequencesExt

CONSTANTS
  Chars,           \* characters that occur
  alphanum_plus,   \* those of words: alphanumerics, '@', '_' and '.'
  Quotes,
  NoChar,          \* the character 0
  VALUE_SIZE       \* 256 in the code

ASSUME CharAssumption ==
  /\ alphanum_plus \subseteq Chars
  /\ Quotes \subseteq Chars \ alphanum_plus
  /\ NoChar \notin Chars
  /\ VALUE_SIZE \in Nat \ {0, 1}

acceptable(c) == c \in alphanum_plus

\* index, last_c and key_found are index, last_c and found of key; buf (whose
\* length is the index), quote and value_found are those of value.
Keyvals(contexts, words) ==
  [context : contexts, word : words, index : Nat, last_c : Chars \cup {NoChar},
   key_found : BOOLEAN, buf : Seq(Chars), quote : Quotes \cup {NoChar},
   value_found : BOOLEAN]

kv_create(context, word) ==
  [context |-> context, word |-> word, index |-> 0, last_c |-> NoChar,
   key_found |-> FALSE, buf |-> <<>>, quote |-> NoChar, value_found |-> FALSE]

\* Everything but the word and the url it belongs to.
kv_init(k) == kv_create(k.context, k.word)
-----------------------------------------------------------------------------
\* A match begins anywhere.
MatchInside(k, c) == \* mutant
  LET complete == k.index = Len(k.word)
      found    == complete /\ ~acceptable(c)
      goes_on  == ~complete /\ c = k.word[k.index + 1]
  IN  [k EXCEPT !.key_found = found,
                !.index = IF found THEN @ ELSE IF goes_on THEN @ + 1 ELSE 0,
                !.last_c = c]

\* A match begins where a run of word characters does; a complete one is
\* spoiled by another word character, and confirmed by any other character.
scan_for_key(k, c) ==
  LET matching == k.index > 0 \/ (acceptable(c) /\ ~acceptable(k.last_c))
      complete == k.index = Len(k.word)
      found    == matching /\ complete /\ ~acceptable(c)
      goes_on  == matching /\ ~complete /\ c = k.word[k.index + 1]
  IN  [k EXCEPT !.key_found = found,
                !.index = IF found THEN @ ELSE IF goes_on THEN @ + 1 ELSE 0,
                !.last_c = c]

\* No room for the 0 that ends a value.
AddWithoutEnd(k, c) == \* mutant
  [k EXCEPT !.buf = IF Len(@) < VALUE_SIZE THEN Append(@, c) ELSE @]

add_to_value(k, c) ==
  [k EXCEPT !.buf = IF Len(@) < VALUE_SIZE - 1 THEN Append(@, c) ELSE @]

\* Up to a quote of the kind it began with, or up to the end of a word.
scan_for_value(k, c) ==
  LET closes == ~acceptable(c) /\ IF k.quote # NoChar THEN c = k.quote
                                  ELSE k.buf # <<>>
      opens  == c \in Quotes /\ k.quote = NoChar /\ k.buf = <<>>
      skipped == ~acceptable(c) /\ k.quote = NoChar
  IN  IF closes THEN [k EXCEPT !.value_found = TRUE]
      ELSE IF opens THEN [k EXCEPT !.quote = c]
      ELSE IF skipped THEN k
      ELSE add_to_value(k, c)

\* One character.
kv_next(k, c) ==
  IF ~k.key_found THEN scan_for_key(k, c)
  ELSE IF ~k.value_found THEN scan_for_value(k, c)
  ELSE k

kv_scan(k, data) ==
  LET after[n \in 0 .. Len(data)] ==
        IF n = 0 THEN k ELSE kv_next(after[n - 1], data[n])
  IN  IF k.value_found THEN k ELSE after[Len(data)]

\* What has been collected when something else than text comes is all there
\* is, also if the word has ended with the text.
kv_flush(k) ==
  [k EXCEPT !.value_found = @ \/ k.key_found \/ k.index = Len(k.word)]
-----------------------------------------------------------------------------
(* Reference: what a whole text has for a word, and whether that is all.   *)

\* The word stands at p, and no longer word ends there.
StandsAt(word, text, p) ==
  /\ p + Len(word) - 1 <= Len(text)
  /\ SubSeq(text, p, p + Len(word) - 1) = word
  /\ p = 1 \/ ~acceptable(text[p - 1])

\* Where a value of the word may begin: behind the character that ends it.
ValueStarts(word, text) ==
  {p + Len(word) + 1 : p \in {q \in 1 .. Len(text) - Len(word) :
                                /\ StandsAt(word, text, q)
                                /\ ~acceptable(text[q + Len(word)])}}

EndsWith(word, text) ==
  Len(word) <= Len(text) /\ StandsAt(word, text, Len(text) - Len(word) + 1)

Least(S) == CHOOSE n \in S : \A m \in S : n <= m

\* The value of text that begins at or behind from, and whether it has ended.
ValueFrom(text, from) ==
  LET begins == {p \in from .. Len(text) :
                   acceptable(text[p]) \/ text[p] \in Quotes}
      begin  == Least(begins)
      quoted == text[begin] \in Quotes
      first  == IF quoted THEN begin + 1 ELSE begin
      ends   == {p \in first .. Len(text) :
                   IF quoted THEN text[p] = text[begin]
                   ELSE ~acceptable(text[p])}
      last   == IF ends = {} THEN Len(text) ELSE Least(ends) - 1
      kept   == IF last - first < VALUE_SIZE - 1 THEN last
                ELSE first + VALUE_SIZE - 2
  IN  IF begins = {} THEN [value |-> <<>>, all |-> FALSE]
      ELSE [value |-> SubSeq(text, first, kept), all |-> ends # {}]

Collected(word, text) ==
  IF ValueStarts(word, text) = {} THEN [value |-> <<>>, all |-> FALSE]
  ELSE ValueFrom(text, Least(ValueStarts(word, text)))
=============================================================================
