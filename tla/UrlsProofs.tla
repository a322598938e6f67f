----------------------------- MODULE UrlsProofs -----------------------------
(***************************************************************************)
(* For every alphabet, every set of words and every load: a keyval has     *)
(* collected what the text it was told has for its word, whatever packets  *)
(* the text came in; clients that fetch the same url send forms and lines  *)
(* of their own; templates are completed with values of the client.        *)
(***************************************************************************)
EXTENDS Urls, SequenceTheorems, NatLemmas

(***************************************************************************)
(* Keyvals.                                                                *)
(***************************************************************************)

GoodKeyvals ==
  {k \in Keyvals(Nat \X Nat, Words) :
     k.index <= Len(k.word) /\ Len(k.buf) < VALUE_SIZE}

\* Words consist of word characters, and there are some.
LEMMA WordFacts ==
  ASSUME NEW w \in Words
  PROVE  /\ w \in Seq(Chars) /\ Len(w) \in Nat /\ Len(w) > 0
         /\ \A j \in 1 .. Len(w) : acceptable(w[j]) /\ w[j] \in Chars
<1>1. w \in Seq(alphanum_plus) /\ w # <<>> BY LoadsAssumption
<1>2. QED BY <1>1, CharAssumption DEF acceptable

\* A fresh keyval.
LEMMA CreatedIsGood ==
  ASSUME NEW c \in Nat \X Nat, NEW w \in Words
  PROVE  /\ kv_create(c, w) \in GoodKeyvals
         /\ kv_create(c, w).context = c /\ kv_create(c, w).word = w
<1>1. Len(w) \in Nat BY WordFacts
<1>2. <<>> \in Seq(Chars) /\ Len(<<>>) = 0 OBVIOUS
<1>3. VALUE_SIZE \in Nat /\ VALUE_SIZE > 1 BY CharAssumption
<1>4. QED BY <1>1, <1>2, <1>3 DEF GoodKeyvals, Keyvals, kv_create

\* The keyval stays one, of the same word and url.
Remains(k, l) ==
  l \in GoodKeyvals /\ l.context = k.context /\ l.word = k.word

LEMMA InitRemains ==
  ASSUME NEW k \in GoodKeyvals
  PROVE  Remains(k, kv_init(k))
<1>1. k.context \in Nat \X Nat /\ k.word \in Words BY DEF GoodKeyvals, Keyvals
<1>2. QED BY <1>1, CreatedIsGood DEF kv_init, Remains

LEMMA FlushRemains ==
  ASSUME NEW k \in GoodKeyvals
  PROVE  Remains(k, kv_flush(k))
<1>1. k \in Keyvals(Nat \X Nat, Words) BY DEF GoodKeyvals
<1>2. /\ k.value_found \in BOOLEAN /\ k.key_found \in BOOLEAN
      /\ (k.value_found \/ k.key_found \/ k.index = Len(k.word)) \in BOOLEAN
  BY <1>1 DEF Keyvals
<1>3. QED BY <1>1, <1>2 DEF GoodKeyvals, Keyvals, kv_flush, Remains

LEMMA KeyRemains ==
  ASSUME NEW k \in GoodKeyvals, NEW c \in Chars
  PROVE  Remains(k, scan_for_key(k, c))
<1>1. k \in Keyvals(Nat \X Nat, Words) BY DEF GoodKeyvals
<1>2. /\ k.index \in Nat /\ k.word \in Words /\ k.index <= Len(k.word)
      /\ Len(k.word) \in Nat
  BY <1>1, WordFacts DEF GoodKeyvals, Keyvals
<1> DEFINE matching == k.index > 0 \/ (acceptable(c) /\ ~acceptable(k.last_c))
           complete == k.index = Len(k.word)
           found    == matching /\ complete /\ ~acceptable(c)
           goes_on  == matching /\ ~complete /\ c = k.word[k.index + 1]
           index    == IF found THEN k.index
                       ELSE IF goes_on THEN k.index + 1 ELSE 0
<1>3. found \in BOOLEAN /\ index \in Nat /\ index <= Len(k.word) BY <1>2
<1>4. scan_for_key(k, c) =
        [k EXCEPT !.key_found = found, !.index = index, !.last_c = c]
  BY DEF scan_for_key
<1> HIDE DEF found, index
<1>5. QED BY <1>1, <1>3, <1>4 DEF GoodKeyvals, Keyvals, Remains

LEMMA ValueRemains ==
  ASSUME NEW k \in GoodKeyvals, NEW c \in Chars
  PROVE  Remains(k, scan_for_value(k, c))
<1>1. k \in Keyvals(Nat \X Nat, Words) BY DEF GoodKeyvals
<1>2. k.buf \in Seq(Chars) /\ Len(k.buf) \in Nat /\ Len(k.buf) < VALUE_SIZE
  BY <1>1 DEF GoodKeyvals, Keyvals
<1>3. Remains(k, [k EXCEPT !.value_found = TRUE])
  BY <1>1 DEF GoodKeyvals, Keyvals, Remains
<1>4. Remains(k, k) BY DEF Remains
<1>5. c \in Quotes => Remains(k, [k EXCEPT !.quote = c])
  BY <1>1 DEF GoodKeyvals, Keyvals, Remains
<1>6. Remains(k, add_to_value(k, c))
  <2> DEFINE buf == IF Len(k.buf) < VALUE_SIZE - 1 THEN Append(k.buf, c)
                    ELSE k.buf
  <2>1. VALUE_SIZE \in Nat BY CharAssumption
  <2>2. Append(k.buf, c) \in Seq(Chars) /\ Len(Append(k.buf, c)) = Len(k.buf) + 1
    BY <1>2, AppendProperties
  <2>3. buf \in Seq(Chars) /\ Len(buf) < VALUE_SIZE BY <1>2, <2>1, <2>2
  <2>4. add_to_value(k, c) = [k EXCEPT !.buf = buf] BY DEF add_to_value
  <2> HIDE DEF buf
  <2>5. QED BY <1>1, <2>3, <2>4 DEF GoodKeyvals, Keyvals, Remains
<1>7. QED BY <1>3, <1>4, <1>5, <1>6, Zenon DEF scan_for_value

LEMMA NextRemains ==
  ASSUME NEW k \in GoodKeyvals, NEW c \in Chars
  PROVE  Remains(k, kv_next(k, c))
<1>1. Remains(k, k) BY DEF Remains
<1>2. QED BY <1>1, KeyRemains, ValueRemains, Zenon DEF kv_next

\* The keyvals that a text leads to, character by character.
Runs(f, k, data) ==
  /\ f \in [0 .. Len(data) -> GoodKeyvals]
  /\ f[0] = k
  /\ \A n \in 1 .. Len(data) : f[n] = kv_next(f[n - 1], data[n])

LEMMA ScanRuns ==
  ASSUME NEW k \in GoodKeyvals, NEW data \in Seq(Chars), ~k.value_found
  PROVE  \E f : Runs(f, k, data) /\ kv_scan(k, data) = f[Len(data)]
<1> DEFINE n == Len(data)
           Goes(f) == f = [j \in 0 .. n |->
                             IF j = 0 THEN k ELSE kv_next(f[j - 1], data[j])]
           u == CHOOSE f : Goes(f)
           step == [jl \in (1 .. n) \X GoodKeyvals |->
                      kv_next(jl[2], data[jl[1]])]
<1>0. n \in Nat /\ \A j \in 1 .. n : data[j] \in Chars OBVIOUS
<1> HIDE DEF n
<1>1. step \in [(1 .. n) \X GoodKeyvals -> GoodKeyvals]
  <2>1. ASSUME NEW j \in 1 .. n, NEW l \in GoodKeyvals
        PROVE  kv_next(l, data[j]) \in GoodKeyvals
    BY <1>0, NextRemains DEF Remains
  <2>2. QED BY <2>1
<1>2. PICK f \in [0 .. n -> GoodKeyvals] : Iterates(f, k, step, n)
  <2> HIDE DEF step
  <2>1. QED BY <1>0, <1>1, Iterated
<1>3. \A j \in 0 .. n : f[j] = IF j = 0 THEN k ELSE kv_next(f[j - 1], data[j])
  <2>1. ASSUME NEW j \in 0 .. n, j # 0
        PROVE  f[j] = kv_next(f[j - 1], data[j])
    <3>1. j \in 1 .. n /\ j - 1 \in 0 .. n /\ f[j - 1] \in GoodKeyvals
      BY <1>0, <2>1
    <3>2. f[j] = step[<<j, f[j - 1]>>] BY <1>2, <2>1 DEF Iterates
    <3>3. QED BY <3>1, <3>2
  <2>2. 0 \in 0 .. n => f[0] = k BY <1>2 DEF Iterates
  <2>3. QED BY <2>1, <2>2
<1>4. Goes(f)
  <2>1. f = [j \in 0 .. n |-> f[j]] OBVIOUS
  <2>2. QED BY <1>3, <2>1
<1>5. Goes(u)
  <2> HIDE DEF Goes
  <2>1. QED BY <1>4
<1>6. kv_scan(k, data) = u[n]
  <2>1. kv_scan(k, data) = IF k.value_found THEN k ELSE u[n]
    BY Zenon DEF kv_scan, n
  <2>2. QED BY <2>1
<1> HIDE DEF u
<1>7. \A j \in Nat : j <= n => u[j] = f[j]
  <2> DEFINE S == {j \in Nat : j <= n => u[j] = f[j]}
  <2>1. \A j \in 0 .. n : u[j] = IF j = 0 THEN k ELSE kv_next(u[j - 1], data[j])
    BY <1>5
  <2>2. 0 \in S BY <1>0, <1>3, <2>1
  <2>3. ASSUME NEW j \in S PROVE j + 1 \in S
    <3>1. SUFFICES ASSUME j + 1 <= n PROVE u[j + 1] = f[j + 1]
      BY <2>3
    <3>2. j \in Nat /\ j + 1 \in 0 .. n /\ j + 1 # 0 /\ j + 1 - 1 = j /\ j <= n
      BY <1>0, <2>3, <3>1
    <3>3. u[j] = f[j] BY <2>3, <3>2
    <3>4. u[j + 1] = kv_next(u[j], data[j + 1]) BY <2>1, <3>2
    <3>5. f[j + 1] = kv_next(f[j], data[j + 1]) BY <1>3, <3>2
    <3>6. QED BY <3>3, <3>4, <3>5
  <2>4. S = Nat
    <3> HIDE DEF S
    <3>1. S \in SUBSET Nat BY DEF S
    <3>2. QED BY <2>2, <2>3, <3>1, NatsBySteps
  <2>5. QED BY <2>4
<1>8. Runs(f, k, data)
  <2>1. \A j \in 1 .. n : j \in 0 .. n /\ j # 0 BY <1>0
  <2>2. 0 \in 0 .. n BY <1>0
  <2>3. QED BY <1>3, <2>1, <2>2 DEF Runs, n
<1>9. u[n] = f[n] BY <1>0, <1>7
<1>10. QED BY <1>6, <1>8, <1>9 DEF n

LEMMA ScanRemains ==
  ASSUME NEW k \in GoodKeyvals, NEW data \in Seq(Chars)
  PROVE  Remains(k, kv_scan(k, data))
<1>1. CASE k.value_found
  BY <1>1 DEF kv_scan, Remains
<1>2. CASE ~k.value_found
  <2>1. PICK f : Runs(f, k, data) /\ kv_scan(k, data) = f[Len(data)]
    BY <1>2, ScanRuns
  <2> DEFINE n == Len(data)
             S == {j \in Nat : j <= n => Remains(k, f[j])}
  <2>2. n \in Nat /\ \A j \in 1 .. n : data[j] \in Chars OBVIOUS
  <2>3. 0 \in S BY <2>1 DEF Runs, Remains
  <2>4. ASSUME NEW j \in S PROVE j + 1 \in S
    <3>1. SUFFICES ASSUME j + 1 <= n PROVE Remains(k, f[j + 1])
      BY <2>4
    <3>2. j \in Nat /\ j + 1 \in 1 .. n /\ j + 1 - 1 = j /\ j <= n
      BY <2>2, <2>4, <3>1
    <3>3. Remains(k, f[j]) BY <2>4, <3>2
    <3>4. f[j + 1] = kv_next(f[j], data[j + 1]) BY <2>1, <3>2 DEF Runs
    <3>5. Remains(f[j], f[j + 1])
      BY <2>2, <3>2, <3>3, <3>4, NextRemains DEF Remains
    <3>6. QED BY <3>3, <3>5 DEF Remains
  <2>5. S = Nat
    <3> HIDE DEF S
    <3>1. S \in SUBSET Nat BY DEF S
    <3>2. QED BY <2>3, <2>4, <3>1, NatsBySteps
  <2>6. QED BY <2>1, <2>2, <2>5
<1>3. QED BY <1>1, <1>2

(***************************************************************************)
(* Matching a word.                                                        *)
(***************************************************************************)

\* The smallest element is what Least says.
LEMMA LeastIs ==
  ASSUME NEW S \in SUBSET Nat, NEW s \in S, \A r \in S : s <= r
  PROVE  Least(S) = s
<1>1. \E n \in S : \A m \in S : n <= m OBVIOUS
<1>2. Least(S) \in S /\ \A m \in S : Least(S) <= m BY <1>1, Zenon DEF Least
<1>3. Least(S) <= s /\ s <= Least(S) BY <1>2
<1>4. Least(S) \in Nat /\ s \in Nat BY <1>2
<1>5. QED BY <1>3, <1>4

\* text2 is the text with one more character.
Longer(text, text2, c) ==
  /\ text \in Seq(Chars) /\ text2 \in Seq(Chars) /\ c \in Chars
  /\ Len(text2) = Len(text) + 1
  /\ \A p \in 1 .. Len(text) : text2[p] = text[p]
  /\ text2[Len(text) + 1] = c

\* A word stands where its characters do.
LEMMA StandsWhere ==
  ASSUME NEW word \in Words, NEW text \in Seq(Chars), NEW p \in Nat, p > 0
  PROVE  StandsAt(word, text, p) <=>
           /\ p + Len(word) - 1 <= Len(text)
           /\ \A j \in 1 .. Len(word) : text[p + j - 1] = word[j]
           /\ p = 1 \/ ~acceptable(text[p - 1])
<1> DEFINE q == p + Len(word) - 1
           sub == SubSeq(text, p, q)
<1>1. word \in Seq(Chars) /\ Len(word) \in Nat /\ Len(word) > 0 BY WordFacts
<1>2. Len(text) \in Nat OBVIOUS
<1>3. SUFFICES ASSUME q <= Len(text)
               PROVE  sub = word <=>
                        \A j \in 1 .. Len(word) : text[p + j - 1] = word[j]
  BY Zenon DEF StandsAt
<1>4. /\ sub \in Seq(Chars) /\ Len(sub) = Len(word)
      /\ \A j \in 1 .. Len(word) : sub[j] = text[p + j - 1]
  <2>1. p \in 1 .. Len(text) + 1 /\ q \in p - 1 .. Len(text)
    BY <1>1, <1>2, <1>3
  <2>2. /\ sub \in Seq(Chars)
        /\ Len(sub) = IF p <= q THEN q - p + 1 ELSE 0
        /\ \A j \in 1 .. q - p + 1 : sub[j] = text[p + j - 1]
    BY <1>1, <1>2, <1>3, <2>1, SubSeqProperties
  <2>3. q - p + 1 = Len(word) /\ p <= q BY <1>1
  <2>4. QED BY <2>2, <2>3
<1> HIDE DEF sub
<1>5. ASSUME \A j \in 1 .. Len(word) : sub[j] = word[j] PROVE sub = word
  BY <1>1, <1>4, <1>5, SeqEqual
<1>6. QED BY <1>4, <1>5

\* The last m characters are the first m of the word, where a run begins.
Partial(word, text, m) ==
  /\ m <= Len(text)
  /\ \A j \in 1 .. m : text[Len(text) - m + j] = word[j]
  /\ m = Len(text) \/ ~acceptable(text[Len(text) - m])

LEMMA EndsWithPartial ==
  ASSUME NEW word \in Words, NEW text \in Seq(Chars)
  PROVE  EndsWith(word, text) <=> Partial(word, text, Len(word))
<1> DEFINE p == Len(text) - Len(word) + 1
<1>1. Len(word) \in Nat /\ Len(word) > 0 /\ Len(text) \in Nat BY WordFacts
<1>2. CASE Len(word) <= Len(text)
  <2>1. p \in Nat /\ p > 0 BY <1>1, <1>2
  <2>2. StandsAt(word, text, p) <=>
           /\ p + Len(word) - 1 <= Len(text)
           /\ \A j \in 1 .. Len(word) : text[p + j - 1] = word[j]
           /\ p = 1 \/ ~acceptable(text[p - 1])
    BY <2>1, StandsWhere
  <2>3. /\ p + Len(word) - 1 = Len(text) /\ p - 1 = Len(text) - Len(word)
        /\ \A j \in 1 .. Len(word) : p + j - 1 = Len(text) - Len(word) + j
        /\ p = 1 <=> Len(word) = Len(text)
    BY <1>1
  <2>4. EndsWith(word, text) <=> StandsAt(word, text, p)
    BY <1>2 DEF EndsWith
  <2>5. Partial(word, text, Len(word)) <=>
           /\ \A j \in 1 .. Len(word) : text[Len(text) - Len(word) + j] = word[j]
           /\ Len(word) = Len(text) \/ ~acceptable(text[Len(text) - Len(word)])
    BY <1>2 DEF Partial
  <2>6. (\A j \in 1 .. Len(word) : text[Len(text) - Len(word) + j] = word[j])
          <=> \A j \in 1 .. Len(word) : text[p + j - 1] = word[j]
    BY <2>3
  <2> HIDE DEF p
  <2>7. QED BY <1>1, <2>2, <2>3, <2>4, <2>5, <2>6
<1>3. QED BY <1>2 DEF EndsWith, Partial

LEMMA PartialGrows ==
  ASSUME NEW word \in Words, NEW text, NEW text2, NEW c,
         Longer(text, text2, c), NEW m \in 1 .. Len(word)
  PROVE  Partial(word, text2, m) <=>
           /\ c = word[m]
           /\ IF m = 1 THEN Len(text) = 0 \/ ~acceptable(text[Len(text)])
              ELSE Partial(word, text, m - 1)
<1> DEFINE n == Len(text)
<1>1. n \in Nat /\ Len(text2) = n + 1 /\ text2[n + 1] = c
      /\ Len(word) \in Nat /\ m \in Nat /\ m >= 1
      /\ \A p \in 1 .. n : text2[p] = text[p]
  BY WordFacts DEF Longer
<1> HIDE DEF n
<1>2. CASE m <= n + 1
  <2>1. /\ \A j \in 1 .. m - 1 :
             /\ n + 1 - m + j \in 1 .. n
             /\ n + 1 - m + j = n - (m - 1) + j
        /\ n + 1 - m + m = n + 1
        /\ \A j \in 1 .. m : j = m \/ j \in 1 .. m - 1
        /\ m \in 1 .. m
        /\ n + 1 - m = n - (m - 1)
    BY <1>1, <1>2
  <2>2. (\A j \in 1 .. m : text2[n + 1 - m + j] = word[j]) <=>
          /\ c = word[m]
          /\ \A j \in 1 .. m - 1 : text[n - (m - 1) + j] = word[j]
    <3>1. ASSUME \A j \in 1 .. m : text2[n + 1 - m + j] = word[j]
          PROVE  /\ c = word[m]
                 /\ \A j \in 1 .. m - 1 : text[n - (m - 1) + j] = word[j]
      <4>1. c = word[m] BY <1>1, <2>1, <3>1
      <4>2. ASSUME NEW j \in 1 .. m - 1
            PROVE  text[n - (m - 1) + j] = word[j]
        <5>1. j \in 1 .. m BY <1>1
        <5>2. QED BY <1>1, <2>1, <3>1, <5>1
      <4>3. QED BY <4>1, <4>2
    <3>2. ASSUME c = word[m],
                 \A j \in 1 .. m - 1 : text[n - (m - 1) + j] = word[j],
                 NEW j \in 1 .. m
          PROVE  text2[n + 1 - m + j] = word[j]
      <4>1. CASE j = m BY <1>1, <2>1, <3>2, <4>1
      <4>2. CASE j \in 1 .. m - 1 BY <1>1, <2>1, <3>2, <4>2
      <4>3. QED BY <2>1, <4>1, <4>2
    <3>3. QED BY <3>1, <3>2
  <2>3. CASE m = 1
    <3>1. Partial(word, text2, m) <=>
            /\ c = word[m]
            /\ 1 = n + 1 \/ ~acceptable(text2[n])
      <4>1. n + 1 - m = n /\ m <= n + 1 BY <1>1, <2>3
      <4>2. (\A j \in 1 .. m - 1 : text[n - (m - 1) + j] = word[j])
        BY <2>3
      <4>3. QED BY <1>1, <2>2, <2>3, <4>1, <4>2 DEF Partial
    <3>2. n # 0 => text2[n] = text[n] BY <1>1
    <3>3. 1 = n + 1 <=> n = 0 BY <1>1
    <3>4. QED BY <2>3, <3>1, <3>2, <3>3 DEF n
  <2>4. CASE m # 1
    <3>1. m - 1 <= n /\ (m = n + 1 <=> m - 1 = n) BY <1>1, <1>2
    <3>2. m # n + 1 => text2[n + 1 - m] = text[n - (m - 1)]
      BY <1>1, <1>2
    <3>3. Partial(word, text, m - 1) <=>
            /\ \A j \in 1 .. m - 1 : text[n - (m - 1) + j] = word[j]
            /\ m - 1 = n \/ ~acceptable(text[n - (m - 1)])
      BY <3>1 DEF Partial, n
    <3>4. Partial(word, text2, m) <=>
            /\ \A j \in 1 .. m : text2[n + 1 - m + j] = word[j]
            /\ m = n + 1 \/ ~acceptable(text2[n + 1 - m])
      BY <1>1, <1>2 DEF Partial
    <3>5. QED BY <2>2, <2>4, <3>1, <3>2, <3>3, <3>4
  <2>5. QED BY <2>3, <2>4
<1>3. CASE ~(m <= n + 1)
  <2>1. ~Partial(word, text2, m) BY <1>1, <1>3 DEF Partial
  <2>2. m # 1 /\ ~(m - 1 <= n) BY <1>1, <1>3
  <2>3. QED BY <2>1, <2>2 DEF Partial, n
<1>4. QED BY <1>2, <1>3

LEMMA StartsType ==
  ASSUME NEW word \in Words, NEW text \in Seq(Chars)
  PROVE  /\ ValueStarts(word, text) \in SUBSET Nat
         /\ \A s \in ValueStarts(word, text) : 1 <= s /\ s <= Len(text) + 1
<1>1. Len(word) \in Nat /\ Len(word) > 0 /\ Len(text) \in Nat BY WordFacts
<1>2. QED BY <1>1 DEF ValueStarts

\* One more character begins a value if it confirms a word.
LEMMA StartsGrow ==
  ASSUME NEW word \in Words, NEW text, NEW text2, NEW c,
         Longer(text, text2, c)
  PROVE  ValueStarts(word, text2) =
           ValueStarts(word, text) \cup
             (IF EndsWith(word, text) /\ ~acceptable(c) THEN {Len(text2) + 1}
              ELSE {})
<1> DEFINE n == Len(text)
           w == Len(word)
           At(t, q) == StandsAt(word, t, q) /\ ~acceptable(t[q + w])
<1>1. n \in Nat /\ Len(text2) = n + 1 /\ text2[n + 1] = c
      /\ w \in Nat /\ w > 0 /\ text \in Seq(Chars) /\ text2 \in Seq(Chars)
      /\ \A p \in 1 .. n : text2[p] = text[p]
  BY WordFacts DEF Longer
<1> HIDE DEF n, w
<1>2. ASSUME NEW q \in Nat, q > 0, q + w - 1 <= n
      PROVE  StandsAt(word, text2, q) <=> StandsAt(word, text, q)
  <2>1. StandsAt(word, text, q) <=>
           /\ \A j \in 1 .. w : text[q + j - 1] = word[j]
           /\ q = 1 \/ ~acceptable(text[q - 1])
    BY <1>1, <1>2, StandsWhere DEF n, w
  <2>2. StandsAt(word, text2, q) <=>
           /\ q + w - 1 <= n + 1
           /\ \A j \in 1 .. w : text2[q + j - 1] = word[j]
           /\ q = 1 \/ ~acceptable(text2[q - 1])
    BY <1>1, <1>2, StandsWhere DEF n, w
  <2>3. q + w - 1 <= n + 1 BY <1>1, <1>2
  <2>4. ASSUME NEW j \in 1 .. w PROVE text2[q + j - 1] = text[q + j - 1]
    <3>1. q + j - 1 \in 1 .. n BY <1>1, <1>2
    <3>2. QED BY <1>1, <3>1
  <2>5. q # 1 => text2[q - 1] = text[q - 1]
    <3>1. q # 1 => q - 1 \in 1 .. n BY <1>1, <1>2
    <3>2. QED BY <1>1, <3>1
  <2>6. QED BY <2>1, <2>2, <2>3, <2>4, <2>5
<1>3. ASSUME NEW q \in 1 .. n - w PROVE At(text2, q) <=> At(text, q)
  <2>1. q \in Nat /\ q > 0 /\ q + w - 1 <= n /\ q + w \in 1 .. n BY <1>1
  <2>2. StandsAt(word, text2, q) <=> StandsAt(word, text, q) BY <1>2, <2>1
  <2>3. text2[q + w] = text[q + w] BY <1>1, <2>1
  <2>4. QED BY <2>2, <2>3
<1>4. ASSUME NEW q \in Nat, q > 0, q = n + 1 - w
      PROVE  At(text2, q) <=> EndsWith(word, text) /\ ~acceptable(c)
  <2>1. q + w - 1 <= n /\ q + w = n + 1 /\ w <= n /\ q = n - w + 1 BY <1>1, <1>4
  <2>2. StandsAt(word, text2, q) <=> StandsAt(word, text, q)
    BY <1>2, <1>4, <2>1
  <2>3. EndsWith(word, text) <=> StandsAt(word, text, q)
    BY <2>1 DEF EndsWith, n, w
  <2>4. text2[q + w] = c BY <1>1, <2>1
  <2>5. QED BY <2>2, <2>3, <2>4
<1>5. EndsWith(word, text) => w <= n BY DEF EndsWith, n, w
<1>6. /\ ValueStarts(word, text) = {p + w + 1 : p \in {q \in 1 .. n - w : At(text, q)}}
      /\ ValueStarts(word, text2) =
           {p + w + 1 : p \in {q \in 1 .. n + 1 - w : At(text2, q)}}
  BY <1>1 DEF ValueStarts, n, w
<1> HIDE DEF At
<1>7. ASSUME NEW s \in ValueStarts(word, text2)
      PROVE  s \in ValueStarts(word, text) \/
             (EndsWith(word, text) /\ ~acceptable(c) /\ s = n + 2)
  <2>1. PICK p \in 1 .. n + 1 - w : At(text2, p) /\ s = p + w + 1 BY <1>6
  <2>2. p \in Nat /\ p > 0 BY <2>1
  <2>3. CASE p = n + 1 - w BY <1>1, <1>4, <2>1, <2>2, <2>3
  <2>4. CASE p # n + 1 - w
    <3>1. p \in 1 .. n - w BY <1>1, <2>1, <2>4
    <3>2. At(text, p) BY <1>3, <2>1, <3>1
    <3>3. QED BY <1>6, <2>1, <3>1, <3>2
  <2>5. QED BY <2>3, <2>4
<1>8. ASSUME NEW s \in ValueStarts(word, text)
      PROVE  s \in ValueStarts(word, text2)
  <2>1. PICK p \in 1 .. n - w : At(text, p) /\ s = p + w + 1 BY <1>6
  <2>2. At(text2, p) /\ p \in 1 .. n + 1 - w BY <1>1, <1>3, <2>1
  <2>3. QED BY <1>6, <2>1, <2>2
<1>9. ASSUME EndsWith(word, text), ~acceptable(c)
      PROVE  n + 2 \in ValueStarts(word, text2)
  <2> DEFINE p == n + 1 - w
  <2>1. p \in Nat /\ p > 0 /\ p \in 1 .. n + 1 - w /\ p + w + 1 = n + 2
    BY <1>1, <1>5, <1>9
  <2>2. At(text2, p) BY <1>4, <1>9, <2>1
  <2> HIDE DEF p
  <2>3. QED BY <1>6, <2>1, <2>2
<1>10. Len(text2) + 1 = n + 2 BY <1>1
<1>11. CASE EndsWith(word, text) /\ ~acceptable(c)
  <2>1. ValueStarts(word, text2) = ValueStarts(word, text) \cup {Len(text2) + 1}
    BY <1>7, <1>8, <1>9, <1>10, <1>11, Zenon
  <2>2. QED BY <1>11, <2>1, Zenon
<1>12. CASE ~(EndsWith(word, text) /\ ~acceptable(c))
  <2>1. ValueStarts(word, text2) = ValueStarts(word, text)
    BY <1>7, <1>8, <1>12, Zenon
  <2>2. QED BY <1>12, <2>1, Zenon
<1>13. QED BY <1>11, <1>12

LastOf(text) == IF Len(text) = 0 THEN NoChar ELSE text[Len(text)]

\* No value has begun; the index is what has come of the word.
Matching(k, text) ==
  /\ k.buf = <<>> /\ k.quote = NoChar /\ ~k.value_found
  /\ ValueStarts(k.word, text) = {}
  /\ k.last_c = LastOf(text)
  /\ \A m \in 1 .. Len(k.word) : m = k.index <=> Partial(k.word, text, m)

LEMMA NothingMatches ==
  ASSUME NEW c, NEW w \in Words
  PROVE  Matching(kv_create(c, w), <<>>)
<1>1. Len(w) \in Nat /\ Len(w) > 0 /\ Len(<<>>) = 0 BY WordFacts
<1>2. ValueStarts(w, <<>>) = {}
  <2>1. 1 .. Len(<<>>) - Len(w) = {} BY <1>1
  <2>2. QED BY <2>1 DEF ValueStarts
<1>3. ASSUME NEW m \in 1 .. Len(w) PROVE m # 0 /\ ~Partial(w, <<>>, m)
  BY <1>1 DEF Partial
<1>4. QED BY <1>1, <1>2, <1>3 DEF Matching, kv_create, LastOf

\* A complete match is a word at the end.
LEMMA MatchingEnds ==
  ASSUME NEW k \in GoodKeyvals, NEW text \in Seq(Chars), Matching(k, text)
  PROVE  k.index = Len(k.word) <=> EndsWith(k.word, text)
<1>1. k.word \in Words BY DEF GoodKeyvals, Keyvals
<1>2. Len(k.word) \in 1 .. Len(k.word) BY <1>1, WordFacts
<1>3. Len(k.word) = k.index <=> Partial(k.word, text, Len(k.word))
  BY <1>2 DEF Matching
<1>4. QED BY <1>1, <1>3, EndsWithPartial

\* One more character, and the keyval either goes on matching, or knows that
\* the value may begin.
LEMMA MatchGoesOn ==
  ASSUME NEW k \in GoodKeyvals, NEW text, NEW text2, NEW c,
         Longer(text, text2, c), Matching(k, text)
  PROVE  LET l == scan_for_key(k, c) IN
         /\ l.word = k.word
         /\ l.buf = <<>> /\ l.quote = NoChar /\ ~l.value_found
         /\ IF l.key_found THEN ValueStarts(k.word, text2) = {Len(text2) + 1}
            ELSE Matching(l, text2)
<1> DEFINE word     == k.word
           w        == Len(word)
           matching == k.index > 0 \/ (acceptable(c) /\ ~acceptable(k.last_c))
           complete == k.index = w
           found    == matching /\ complete /\ ~acceptable(c)
           goes_on  == matching /\ ~complete /\ c = word[k.index + 1]
           index    == IF found THEN k.index
                       ELSE IF goes_on THEN k.index + 1 ELSE 0
           l        == [k EXCEPT !.key_found = found, !.index = index,
                                 !.last_c = c]
<1>1. /\ k \in Keyvals(Nat \X Nat, Words) /\ word \in Words
      /\ k.index \in Nat /\ k.index <= w
  BY DEF GoodKeyvals, Keyvals
<1>2. w \in Nat /\ w > 0 /\ \A j \in 1 .. w : acceptable(word[j])
  BY <1>1, WordFacts
<1>3. scan_for_key(k, c) = l BY DEF scan_for_key
<1>4. /\ l.word = word /\ l.buf = k.buf /\ l.quote = k.quote
      /\ l.value_found = k.value_found /\ l.key_found = found
      /\ l.index = index /\ l.last_c = c
  BY <1>1 DEF Keyvals
<1>5. text \in Seq(Chars) /\ text2 \in Seq(Chars) /\ c \in Chars
      /\ Len(text) \in Nat /\ Len(text2) = Len(text) + 1
      /\ text2[Len(text) + 1] = c
  BY DEF Longer
<1>6. /\ k.buf = <<>> /\ k.quote = NoChar /\ ~k.value_found
      /\ ValueStarts(word, text) = {} /\ k.last_c = LastOf(text)
      /\ \A m \in 1 .. w : m = k.index <=> Partial(word, text, m)
  BY DEF Matching
<1>7. found <=> EndsWith(word, text) /\ ~acceptable(c)
  <2>1. complete <=> EndsWith(word, text) BY <1>5, MatchingEnds
  <2>2. complete => matching BY <1>1, <1>2
  <2>3. QED BY <2>1, <2>2
<1>8. ValueStarts(word, text2) = IF found THEN {Len(text2) + 1} ELSE {}
  <2>1. ValueStarts(word, text2) =
           ValueStarts(word, text) \cup
             (IF EndsWith(word, text) /\ ~acceptable(c) THEN {Len(text2) + 1}
              ELSE {})
    BY <1>1, StartsGrow
  <2> HIDE DEF found
  <2>2. QED BY <1>6, <1>7, <2>1
<1>9. ~acceptable(NoChar) BY CharAssumption DEF acceptable
<1>10. (Len(text) = 0 \/ ~acceptable(text[Len(text)])) <=> ~acceptable(k.last_c)
  BY <1>6, <1>9 DEF LastOf
<1>11. k.index > 0 => acceptable(k.last_c)
  <2>1. SUFFICES ASSUME k.index > 0 PROVE acceptable(k.last_c)
    OBVIOUS
  <2>2. k.index \in 1 .. w BY <1>1, <1>2, <2>1
  <2>3. Partial(word, text, k.index) BY <1>6, <2>2
  <2>4. k.index <= Len(text) /\ text[Len(text) - k.index + k.index] = word[k.index]
    <3>1. /\ k.index <= Len(text)
          /\ \A j \in 1 .. k.index : text[Len(text) - k.index + j] = word[j]
      BY <2>3 DEF Partial
    <3>2. k.index \in 1 .. k.index BY <1>1, <2>1
    <3>3. QED BY <3>1, <3>2
  <2>5. Len(text) - k.index + k.index = Len(text) /\ Len(text) # 0
    BY <1>1, <1>5, <2>1, <2>4
  <2>6. QED BY <1>2, <1>10, <2>2, <2>4, <2>5
<1>12. ASSUME ~found, NEW m \in 1 .. w
       PROVE  m = index <=> Partial(word, text2, m)
  <2>1. Partial(word, text2, m) <=>
           /\ c = word[m]
           /\ IF m = 1 THEN ~acceptable(k.last_c)
              ELSE Partial(word, text, m - 1)
    BY <1>1, <1>10, PartialGrows
  <2>2. m \in Nat /\ m >= 1 /\ m <= w /\ acceptable(word[m]) BY <1>2
  <2>3. index = IF goes_on THEN k.index + 1 ELSE 0 BY <1>12
  <2>4. CASE m = 1
    <3>1. m = index <=> goes_on /\ k.index = 0 BY <1>1, <2>3, <2>4
    <3>2. k.index = 0 => ~complete BY <1>2
    <3>3. k.index = 0 => (goes_on <=> ~acceptable(k.last_c) /\ c = word[1])
      BY <2>2, <2>4, <3>2
    <3>4. ~acceptable(k.last_c) => k.index = 0 BY <1>1, <1>11
    <3>5. QED BY <2>1, <2>4, <3>1, <3>3, <3>4
  <2>5. CASE m # 1
    <3>1. m - 1 \in 1 .. w /\ m - 1 > 0 BY <1>2, <2>2, <2>5
    <3>2. m - 1 = k.index <=> Partial(word, text, m - 1) BY <1>6, <3>1
    <3>3. m = index <=> goes_on /\ m - 1 = k.index BY <1>1, <2>2, <2>3
    <3>4. m - 1 = k.index => matching /\ ~complete /\ k.index + 1 = m
      BY <1>1, <2>2, <3>1
    <3>5. m - 1 = k.index => (goes_on <=> c = word[m]) BY <3>4
    <3> HIDE DEF goes_on, index
    <3>6. QED BY <2>1, <2>5, <3>2, <3>3, <3>5
  <2>6. QED BY <2>4, <2>5
<1>13. ASSUME ~found PROVE Matching(l, text2)
  <2>1. LastOf(text2) = c BY <1>5 DEF LastOf
  <2>2. ValueStarts(word, text2) = {} BY <1>8, <1>13
  <2>3. \A m \in 1 .. w : m = index <=> Partial(word, text2, m)
    BY <1>12, <1>13
  <2> HIDE DEF l, index, found, w, word
  <2>4. QED BY <1>4, <1>6, <2>1, <2>2, <2>3 DEF Matching, w
<1> HIDE DEF l, found
<1>14. QED BY <1>3, <1>4, <1>6, <1>8, <1>13

(***************************************************************************)
(* Collecting a value.                                                     *)
(***************************************************************************)

Begins(c) == acceptable(c) \/ c \in Quotes

\* The value begins at b, the first place from s on where one can.
FirstBegin(text, s, b) ==
  b \in s .. Len(text) /\ Begins(text[b]) /\ \A p \in s .. b - 1 : ~Begins(text[p])

Quoted(text, b) == text[b] \in Quotes
First(text, b) == IF Quoted(text, b) THEN b + 1 ELSE b
Closes(text, b, p) ==
  IF Quoted(text, b) THEN text[p] = text[b] ELSE ~acceptable(text[p])

\* What is kept of the text from first to last.
HasKept(buf, text, first, last) ==
  /\ Len(buf) = IF last - first < VALUE_SIZE - 1 THEN last - first + 1
                ELSE VALUE_SIZE - 1
  /\ \A j \in 1 .. Len(buf) : buf[j] = text[first + j - 1]

Waits(k, text, s) ==
  /\ \A p \in s .. Len(text) : ~Begins(text[p])
  /\ k.buf = <<>> /\ k.quote = NoChar /\ ~k.value_found

Collects(k, text, s, b) ==
  /\ FirstBegin(text, s, b)
  /\ \A p \in First(text, b) .. Len(text) : ~Closes(text, b, p)
  /\ k.quote = IF Quoted(text, b) THEN text[b] ELSE NoChar
  /\ HasKept(k.buf, text, First(text, b), Len(text))
  /\ ~k.value_found

HasEnded(k, text, s, b, e) ==
  /\ FirstBegin(text, s, b)
  /\ e \in First(text, b) .. Len(text) /\ Closes(text, b, e)
  /\ \A p \in First(text, b) .. e - 1 : ~Closes(text, b, p)
  /\ HasKept(k.buf, text, First(text, b), e - 1)
  /\ k.value_found

Collecting(k, text, s) ==
  \/ Waits(k, text, s)
  \/ \E b \in Nat : Collects(k, text, s, b)
  \/ \E b, e \in Nat : HasEnded(k, text, s, b, e)

\* Behind a beginning there is room for a value.
LEMMA BeginPlace ==
  ASSUME NEW text \in Seq(Chars), NEW s \in Nat, s > 0, NEW b,
         FirstBegin(text, s, b)
  PROVE  /\ b \in Nat /\ s <= b /\ b <= Len(text) /\ b > 0
         /\ First(text, b) \in Nat /\ b <= First(text, b)
         /\ First(text, b) <= b + 1
         /\ b \in 1 .. Len(text) /\ text[b] \in Chars
         /\ ~Quoted(text, b) => acceptable(text[b]) /\ ~Closes(text, b, b)
         /\ Quoted(text, b) => text[b] # NoChar /\ ~acceptable(text[b])
<1>1. Len(text) \in Nat OBVIOUS
<1>2. b \in s .. Len(text) /\ Begins(text[b]) BY DEF FirstBegin
<1>3. b \in Nat /\ s <= b /\ b <= Len(text) /\ b \in 1 .. Len(text)
  BY <1>1, <1>2
<1>4. First(text, b) = b \/ First(text, b) = b + 1 BY DEF First
<1>5. text[b] \in Chars BY <1>3
<1>6. ~Quoted(text, b) => acceptable(text[b]) /\ ~Closes(text, b, b)
  BY <1>2 DEF Begins, Quoted, Closes
<1>7. Quoted(text, b) => text[b] # NoChar /\ ~acceptable(text[b])
  BY CharAssumption DEF Quoted, acceptable
<1>8. QED BY <1>3, <1>4, <1>5, <1>6, <1>7

\* What has been found in a text is found in a longer one.
LEMMA BeginStays ==
  ASSUME NEW text, NEW text2, NEW c, Longer(text, text2, c),
         NEW s \in Nat, s > 0, NEW b, FirstBegin(text, s, b)
  PROVE  /\ FirstBegin(text2, s, b)
         /\ Quoted(text2, b) <=> Quoted(text, b)
         /\ First(text2, b) = First(text, b)
         /\ text2[b] = text[b]
         /\ \A p \in 1 .. Len(text) : Closes(text2, b, p) <=> Closes(text, b, p)
<1>1. /\ text \in Seq(Chars) /\ Len(text) \in Nat /\ Len(text2) = Len(text) + 1
      /\ \A p \in 1 .. Len(text) : text2[p] = text[p]
  BY DEF Longer
<1>2. b \in Nat /\ s <= b /\ b <= Len(text) /\ b \in 1 .. Len(text)
  BY <1>1, BeginPlace
<1>3. text2[b] = text[b] BY <1>1, <1>2
<1>4. b \in s .. Len(text2) BY <1>1, <1>2
<1>5. \A p \in s .. b - 1 : p \in 1 .. Len(text) BY <1>1, <1>2
<1>6. FirstBegin(text2, s, b) BY <1>1, <1>3, <1>4, <1>5 DEF FirstBegin
<1>7. Quoted(text2, b) <=> Quoted(text, b) BY <1>3 DEF Quoted
<1>8. First(text2, b) = First(text, b) BY <1>7 DEF First
<1>9. ASSUME NEW p \in 1 .. Len(text)
      PROVE  Closes(text2, b, p) <=> Closes(text, b, p)
  BY <1>1, <1>3, <1>7 DEF Closes
<1>10. QED BY <1>3, <1>6, <1>7, <1>8, <1>9

LEMMA KeptStays ==
  ASSUME NEW text, NEW text2, NEW c, Longer(text, text2, c), NEW buf,
         NEW first \in Nat, first > 0, NEW last \in Nat,
         last <= Len(text), first <= last + 1, HasKept(buf, text, first, last)
  PROVE  HasKept(buf, text2, first, last)
<1>1. /\ Len(text) \in Nat /\ \A p \in 1 .. Len(text) : text2[p] = text[p]
      /\ VALUE_SIZE \in Nat /\ VALUE_SIZE > 1
  BY CharAssumption DEF Longer
<1>2. Len(buf) = (IF last - first < VALUE_SIZE - 1 THEN last - first + 1
                  ELSE VALUE_SIZE - 1)
  BY DEF HasKept
<1>3. Len(buf) <= last - first + 1 /\ Len(buf) \in Nat BY <1>1, <1>2
<1>4. ASSUME NEW j \in 1 .. Len(buf) PROVE buf[j] = text2[first + j - 1]
  <2>1. first + j - 1 \in 1 .. Len(text) BY <1>1, <1>3
  <2>2. buf[j] = text[first + j - 1] BY DEF HasKept
  <2>3. QED BY <1>1, <2>1, <2>2
<1>5. QED BY <1>2, <1>4 DEF HasKept

\* A character is kept if there is room.
LEMMA KeptGrows ==
  ASSUME NEW text, NEW text2, NEW c, Longer(text, text2, c),
         NEW k \in GoodKeyvals, NEW first \in Nat, first > 0,
         first <= Len(text) + 1, HasKept(k.buf, text, first, Len(text))
  PROVE  HasKept(add_to_value(k, c).buf, text2, first, Len(text2))
<1> DEFINE n == Len(text)
           buf == k.buf
           grown == IF Len(buf) < VALUE_SIZE - 1 THEN Append(buf, c) ELSE buf
<1>1. /\ n \in Nat /\ Len(text2) = n + 1 /\ text2[n + 1] = c /\ c \in Chars
      /\ \A p \in 1 .. n : text2[p] = text[p]
      /\ VALUE_SIZE \in Nat /\ VALUE_SIZE > 1
  BY CharAssumption DEF Longer
<1>2. /\ Len(buf) = (IF n - first < VALUE_SIZE - 1 THEN n - first + 1
                     ELSE VALUE_SIZE - 1)
      /\ \A j \in 1 .. Len(buf) : buf[j] = text[first + j - 1]
  BY DEF HasKept
<1>3. k \in Keyvals(Nat \X Nat, Words) /\ buf \in Seq(Chars)
  BY DEF GoodKeyvals, Keyvals
<1>4. Len(buf) \in Nat BY <1>3
<1>5. add_to_value(k, c).buf = grown BY <1>3 DEF add_to_value, Keyvals
<1> HIDE DEF n, buf
<1>6. \A j \in 1 .. Len(buf) : buf[j] = text2[first + j - 1]
  <2>1. ASSUME NEW j \in 1 .. Len(buf)
        PROVE  first + j - 1 \in 1 .. n
    BY <1>1, <1>2, <1>4 DEF n
  <2>2. QED BY <1>1, <1>2, <2>1
<1>7. CASE Len(buf) < VALUE_SIZE - 1
  <2>1. grown = Append(buf, c) /\ Len(grown) = Len(buf) + 1
        /\ grown[Len(buf) + 1] = c
        /\ \A j \in 1 .. Len(buf) : grown[j] = buf[j]
    BY <1>1, <1>3, <1>7, AppendProperties
  <2>2. Len(buf) = n - first + 1 BY <1>1, <1>2, <1>7
  <2>3. Len(grown) = IF n + 1 - first < VALUE_SIZE - 1 THEN n + 1 - first + 1
                     ELSE VALUE_SIZE - 1
    BY <1>1, <1>7, <2>1, <2>2
  <2>4. ASSUME NEW j \in 1 .. Len(grown) PROVE grown[j] = text2[first + j - 1]
    <3>1. CASE j = Len(buf) + 1
      <4>1. first + j - 1 = n + 1 BY <1>1, <2>2, <3>1
      <4>2. QED BY <1>1, <2>1, <3>1, <4>1
    <3>2. CASE j # Len(buf) + 1
      <4>1. j \in 1 .. Len(buf) BY <1>4, <2>1, <3>2
      <4>2. QED BY <1>6, <2>1, <4>1
    <3>3. QED BY <3>1, <3>2
  <2> HIDE DEF grown
  <2>5. QED BY <1>1, <1>5, <2>3, <2>4 DEF HasKept
<1>8. CASE ~(Len(buf) < VALUE_SIZE - 1)
  <2>1. grown = buf BY <1>8
  <2>2. Len(buf) = IF n + 1 - first < VALUE_SIZE - 1 THEN n + 1 - first + 1
                   ELSE VALUE_SIZE - 1
    BY <1>1, <1>2, <1>8
  <2> HIDE DEF grown
  <2>3. QED BY <1>1, <1>5, <1>6, <2>1, <2>2 DEF HasKept
<1>9. QED BY <1>7, <1>8

\* One more character, and the keyval goes on collecting, or it has the value.
LEMMA ValueGoesOn ==
  ASSUME NEW k \in GoodKeyvals, NEW text, NEW text2, NEW c,
         Longer(text, text2, c), NEW s \in Nat, s > 0, s <= Len(text) + 1,
         Collecting(k, text, s)
  PROVE  Collecting(IF k.value_found THEN k ELSE scan_for_value(k, c), text2, s)
<1> DEFINE n == Len(text)
           l == scan_for_value(k, c)
<1>1. /\ text \in Seq(Chars) /\ text2 \in Seq(Chars) /\ c \in Chars
      /\ n \in Nat /\ Len(text2) = n + 1 /\ text2[n + 1] = c
      /\ \A p \in 1 .. n : text2[p] = text[p]
  BY DEF Longer
<1>2. k \in Keyvals(Nat \X Nat, Words) /\ k.buf \in Seq(Chars)
      /\ Len(k.buf) \in Nat
  BY DEF GoodKeyvals, Keyvals
<1>3. VALUE_SIZE \in Nat /\ VALUE_SIZE > 1 /\ NoChar \notin Chars
      /\ \A q \in Quotes : ~acceptable(q) /\ q \in Chars /\ q # NoChar
  BY CharAssumption DEF acceptable
<1>4. /\ add_to_value(k, c).quote = k.quote
      /\ add_to_value(k, c).value_found = k.value_found
  BY <1>2 DEF add_to_value, Keyvals
<1> HIDE DEF n, l
<1>5. ASSUME Waits(k, text, s)
      PROVE  ~k.value_found /\ Collecting(l, text2, s)
  <2>1. /\ \A p \in s .. n : ~Begins(text2[p])
        /\ k.buf = <<>> /\ k.quote = NoChar /\ ~k.value_found
    <3>1. \A p \in s .. n : p \in 1 .. n BY <1>1
    <3>2. QED BY <1>1, <1>5, <3>1 DEF Waits, n
  <2>2. l = IF c \in Quotes THEN [k EXCEPT !.quote = c]
            ELSE IF ~acceptable(c) THEN k ELSE add_to_value(k, c)
    BY <2>1, <1>3 DEF l, scan_for_value
  <2>3. CASE Begins(c)
    <3> DEFINE b == n + 1
    <3>1. FirstBegin(text2, s, b)
      <4>1. b \in s .. Len(text2) /\ b - 1 = n BY <1>1 DEF n
      <4>2. QED BY <1>1, <2>1, <2>3, <4>1 DEF FirstBegin
    <3>2. b \in Nat BY <1>1
    <3>3. CASE c \in Quotes
      <4>1. Quoted(text2, b) /\ First(text2, b) = n + 2
        BY <1>1, <3>3 DEF Quoted, First
      <4>2. l = [k EXCEPT !.quote = c] BY <2>2, <3>3
      <4>3. l.quote = c /\ l.buf = <<>> /\ ~l.value_found
        BY <1>2, <2>1, <4>2 DEF Keyvals
      <4>4. \A p \in n + 2 .. n + 1 : FALSE BY <1>1
      <4>5. HasKept(<<>>, text2, n + 2, n + 1) BY <1>1, <1>3 DEF HasKept
      <4>6. Collects(l, text2, s, b)
        BY <1>1, <3>1, <4>1, <4>3, <4>4, <4>5 DEF Collects
      <4>7. QED BY <2>1, <3>2, <4>6 DEF Collecting
    <3>4. CASE c \notin Quotes
      <4>1. ~Quoted(text2, b) /\ First(text2, b) = n + 1 /\ acceptable(c)
        BY <1>1, <2>3, <3>4 DEF Quoted, First, Begins
      <4>2. l = add_to_value(k, c) BY <2>2, <3>4, <4>1
      <4>3. l.quote = NoChar /\ ~l.value_found BY <1>4, <2>1, <4>2
      <4>4. \A p \in n + 1 .. n + 1 : ~Closes(text2, b, p)
        BY <1>1, <4>1 DEF Closes
      <4>5. HasKept(k.buf, text, n + 1, n)
        <5>1. Len(k.buf) = 0 BY <2>1
        <5>2. n - (n + 1) < VALUE_SIZE - 1 /\ n - (n + 1) + 1 = 0 BY <1>1, <1>3
        <5>3. QED BY <5>1, <5>2 DEF HasKept
      <4>6. HasKept(l.buf, text2, n + 1, n + 1)
        <5>1. n + 1 \in Nat /\ n + 1 > 0 /\ n + 1 <= n + 1 BY <1>1
        <5>2. QED BY <1>1, <4>2, <4>5, <5>1, KeptGrows DEF n
      <4>7. Collects(l, text2, s, b)
        BY <1>1, <3>1, <4>1, <4>3, <4>4, <4>6 DEF Collects
      <4>8. QED BY <2>1, <3>2, <4>7 DEF Collecting
    <3>5. QED BY <2>1, <3>3, <3>4
  <2>4. CASE ~Begins(c)
    <3>1. l = k BY <2>2, <2>4 DEF Begins
    <3>2. ASSUME NEW p \in s .. n + 1 PROVE ~Begins(text2[p])
      <4>1. p = n + 1 \/ p \in s .. n BY <1>1
      <4>2. QED BY <1>1, <2>1, <2>4, <4>1
    <3>3. Waits(k, text2, s) BY <1>1, <2>1, <3>2 DEF Waits
    <3>4. QED BY <2>1, <3>1, <3>3 DEF Collecting
  <2>5. QED BY <2>3, <2>4
<1>6. ASSUME NEW b \in Nat, Collects(k, text, s, b)
      PROVE  ~k.value_found /\ Collecting(l, text2, s)
  <2> DEFINE f == First(text, b)
  <2>1. /\ FirstBegin(text, s, b) /\ ~k.value_found
        /\ \A p \in f .. n : ~Closes(text, b, p)
        /\ k.quote = IF Quoted(text, b) THEN text[b] ELSE NoChar
        /\ HasKept(k.buf, text, f, n)
    BY <1>6 DEF Collects, n
  <2>2. /\ s <= b /\ b <= n /\ b > 0 /\ f \in Nat /\ b <= f /\ f <= b + 1
        /\ text[b] \in Chars
        /\ ~Quoted(text, b) => acceptable(text[b])
        /\ Quoted(text, b) => text[b] # NoChar /\ ~acceptable(text[b])
    BY <1>1, <2>1, BeginPlace DEF n
  <2>3. /\ FirstBegin(text2, s, b)
        /\ Quoted(text2, b) <=> Quoted(text, b)
        /\ First(text2, b) = f
        /\ text2[b] = text[b]
        /\ \A p \in 1 .. n : Closes(text2, b, p) <=> Closes(text, b, p)
    BY <2>1, BeginStays DEF n
  <2>4. f = IF Quoted(text, b) THEN b + 1 ELSE b BY DEF First
  <2> HIDE DEF f
  <2>5. \A p \in f .. n : ~Closes(text2, b, p)
    <3>1. \A p \in f .. n : p \in 1 .. n BY <1>1, <2>2
    <3>2. QED BY <2>1, <2>3, <3>1
  <2>6. Closes(text2, b, n + 1) <=> IF Quoted(text, b) THEN c = text[b]
                                    ELSE ~acceptable(c)
    BY <1>1, <2>3 DEF Closes
  <2>7. ~Quoted(text, b) => k.buf # <<>>
    <3>1. SUFFICES ASSUME ~Quoted(text, b) PROVE Len(k.buf) > 0
      BY <1>2
    <3>2. Len(k.buf) = IF n - b < VALUE_SIZE - 1 THEN n - b + 1
                       ELSE VALUE_SIZE - 1
      BY <2>1, <2>4, <3>1 DEF HasKept
    <3>3. QED BY <1>1, <1>3, <2>2, <3>2
  <2>8. CASE Closes(text2, b, n + 1)
    <3>1. l = [k EXCEPT !.value_found = TRUE]
      BY <2>1, <2>2, <2>6, <2>7, <2>8 DEF l, scan_for_value
    <3>2. l.value_found /\ l.buf = k.buf BY <1>2, <3>1 DEF Keyvals
    <3>3. HasKept(k.buf, text2, f, n)
      <4>1. f > 0 /\ n <= n /\ f <= n + 1 BY <1>1, <2>2
      <4>2. QED BY <1>1, <2>1, <2>2, <4>1, KeptStays DEF n
    <3>4. n + 1 \in f .. Len(text2) /\ (n + 1) - 1 = n /\ n + 1 \in Nat
      BY <1>1, <2>2
    <3>5. HasEnded(l, text2, s, b, n + 1)
      <4>1. HasKept(l.buf, text2, First(text2, b), (n + 1) - 1)
        BY <2>3, <3>2, <3>3, <3>4
      <4>2. \A p \in First(text2, b) .. (n + 1) - 1 : ~Closes(text2, b, p)
        BY <2>3, <2>5, <3>4
      <4>3. n + 1 \in First(text2, b) .. Len(text2) BY <2>3, <3>4
      <4>4. FirstBegin(text2, s, b) /\ l.value_found BY <2>3, <3>2
      <4>5. QED BY <2>8, <4>1, <4>2, <4>3, <4>4, Zenon DEF HasEnded
    <3>6. QED BY <2>1, <3>4, <3>5 DEF Collecting
  <2>9. CASE ~Closes(text2, b, n + 1)
    <3>1. l = add_to_value(k, c)
      <4>1. CASE Quoted(text, b)
        <5>1. k.quote = text[b] /\ k.quote # NoChar /\ c # k.quote
          BY <2>1, <2>2, <2>6, <2>9, <4>1
        <5>2. QED BY <5>1 DEF l, scan_for_value
      <4>2. CASE ~Quoted(text, b)
        <5>1. acceptable(c) /\ c \notin Quotes
          BY <1>3, <2>6, <2>9, <4>2
        <5>2. QED BY <5>1 DEF l, scan_for_value
      <4>3. QED BY <4>1, <4>2
    <3>2. HasKept(l.buf, text2, f, n + 1)
      <4>1. f > 0 /\ f <= n + 1 BY <1>1, <2>2
      <4>2. QED BY <1>1, <2>1, <2>2, <3>1, <4>1, KeptGrows DEF n
    <3>3. ASSUME NEW p \in f .. n + 1 PROVE ~Closes(text2, b, p)
      <4>1. p = n + 1 \/ p \in f .. n BY <1>1, <2>2
      <4>2. QED BY <2>5, <2>9, <4>1
    <3>4. l.quote = k.quote /\ ~l.value_found BY <1>4, <2>1, <3>1
    <3>5. Collects(l, text2, s, b)
      BY <1>1, <2>1, <2>3, <3>2, <3>3, <3>4 DEF Collects
    <3>6. QED BY <2>1, <3>5 DEF Collecting
  <2>10. QED BY <2>8, <2>9
<1>7. ASSUME NEW b \in Nat, NEW e \in Nat, HasEnded(k, text, s, b, e)
      PROVE  k.value_found /\ Collecting(k, text2, s)
  <2> DEFINE f == First(text, b)
  <2>1. /\ FirstBegin(text, s, b) /\ k.value_found
        /\ e \in f .. n /\ Closes(text, b, e)
        /\ \A p \in f .. e - 1 : ~Closes(text, b, p)
        /\ HasKept(k.buf, text, f, e - 1)
    BY <1>7 DEF HasEnded, n
  <2>2. s <= b /\ b <= n /\ b > 0 /\ f \in Nat /\ b <= f
    BY <1>1, <2>1, BeginPlace DEF n
  <2>3. /\ FirstBegin(text2, s, b) /\ First(text2, b) = f
        /\ \A p \in 1 .. n : Closes(text2, b, p) <=> Closes(text, b, p)
    BY <2>1, BeginStays DEF n
  <2> HIDE DEF f
  <2>4. e \in 1 .. n /\ e \in f .. Len(text2) /\ \A p \in f .. e - 1 : p \in 1 .. n
    BY <1>1, <2>1, <2>2
  <2>5. HasKept(k.buf, text2, f, e - 1)
    <3>1. f > 0 /\ e - 1 \in Nat /\ e - 1 <= n /\ f <= e - 1 + 1
      BY <1>1, <2>1, <2>2
    <3>2. QED BY <1>1, <2>1, <2>2, <3>1, KeptStays DEF n
  <2>6. HasEnded(k, text2, s, b, e)
    BY <2>1, <2>3, <2>4, <2>5 DEF HasEnded
  <2>7. QED BY <2>1, <2>6 DEF Collecting
<1>8. QED BY <1>5, <1>6, <1>7 DEF Collecting, l

\* What is kept is the beginning of the value.
LEMMA KeptIs ==
  ASSUME NEW text \in Seq(Chars), NEW buf \in Seq(Chars),
         NEW first \in Nat, first > 0, NEW last \in Nat,
         last <= Len(text), first <= last + 1, HasKept(buf, text, first, last)
  PROVE  buf = SubSeq(text, first,
                      IF last - first < VALUE_SIZE - 1 THEN last
                      ELSE first + VALUE_SIZE - 2)
<1> DEFINE kept == IF last - first < VALUE_SIZE - 1 THEN last
                   ELSE first + VALUE_SIZE - 2
           sub == SubSeq(text, first, kept)
<1>1. VALUE_SIZE \in Nat /\ VALUE_SIZE > 1 /\ Len(text) \in Nat
  BY CharAssumption
<1>2. /\ Len(buf) = IF last - first < VALUE_SIZE - 1 THEN last - first + 1
                    ELSE VALUE_SIZE - 1
      /\ \A j \in 1 .. Len(buf) : buf[j] = text[first + j - 1]
  BY DEF HasKept
<1>3. /\ kept \in Nat /\ kept <= Len(text) /\ first <= kept + 1
      /\ Len(buf) = kept - first + 1
  BY <1>1, <1>2
<1> HIDE DEF kept
<1>4. /\ sub \in Seq(Chars)
      /\ Len(sub) = IF first <= kept THEN kept - first + 1 ELSE 0
      /\ \A j \in 1 .. kept - first + 1 : sub[j] = text[first + j - 1]
  <2>1. first \in 1 .. Len(text) + 1 /\ kept \in first - 1 .. Len(text)
    BY <1>1, <1>3
  <2>2. QED BY <2>1, SubSeqProperties
<1>5. Len(sub) = Len(buf) /\ \A j \in 1 .. Len(buf) : sub[j] = buf[j]
  BY <1>2, <1>3, <1>4
<1> HIDE DEF sub
<1>6. buf = sub BY <1>4, <1>5, SeqEqual
<1>7. QED BY <1>6 DEF sub, kept

\* A keyval that collects has what the text has from s on.
LEMMA ValueFromIs ==
  ASSUME NEW k \in GoodKeyvals, NEW text \in Seq(Chars),
         NEW s \in Nat, s > 0, Collecting(k, text, s)
  PROVE  ValueFrom(text, s) = [value |-> k.buf, all |-> k.value_found]
<1> DEFINE n == Len(text)
           begins == {p \in s .. n : acceptable(text[p]) \/ text[p] \in Quotes}
           begin  == Least(begins)
           quoted == text[begin] \in Quotes
           first  == IF quoted THEN begin + 1 ELSE begin
           ends   == {p \in first .. n :
                        IF quoted THEN text[p] = text[begin]
                        ELSE ~acceptable(text[p])}
           last   == IF ends = {} THEN n ELSE Least(ends) - 1
           kept   == IF last - first < VALUE_SIZE - 1 THEN last
                     ELSE first + VALUE_SIZE - 2
<1>1. ValueFrom(text, s) =
        IF begins = {} THEN [value |-> <<>>, all |-> FALSE]
        ELSE [value |-> SubSeq(text, first, kept), all |-> ends # {}]
  BY Zenon DEF ValueFrom
<1>2. n \in Nat /\ k \in Keyvals(Nat \X Nat, Words) /\ k.buf \in Seq(Chars)
      /\ k.value_found \in BOOLEAN
  BY DEF GoodKeyvals, Keyvals
<1>3. ASSUME NEW b \in Nat, FirstBegin(text, s, b)
      PROVE  /\ begins # {} /\ begin = b /\ first = First(text, b)
             /\ ends = {p \in First(text, b) .. n : Closes(text, b, p)}
  <2>1. b \in s .. n /\ Begins(text[b]) /\ \A p \in s .. b - 1 : ~Begins(text[p])
    BY <1>3 DEF FirstBegin
  <2>2. b \in begins BY <2>1 DEF Begins
  <2>3. ASSUME NEW r \in begins PROVE b <= r
    <3>1. r \in s .. n /\ Begins(text[r]) BY DEF Begins
    <3>2. r \notin s .. b - 1 BY <2>1, <3>1
    <3>3. QED BY <1>2, <2>1, <3>1, <3>2
  <2>4. begins \in SUBSET Nat BY <1>2
  <2>5. begin = b
    <3> HIDE DEF begins
    <3>1. QED BY <2>2, <2>3, <2>4, LeastIs
  <2> HIDE DEF begin
  <2>6. first = First(text, b) BY <2>5 DEF First, Quoted
  <2>7. ends = {p \in First(text, b) .. n : Closes(text, b, p)}
    <3>1. ends = {p \in first .. n : Closes(text, b, p)}
      BY <2>5 DEF Closes, Quoted
    <3> HIDE DEF ends, first
    <3>2. QED BY <2>6, <3>1
  <2>8. QED BY <2>2, <2>5, <2>6, <2>7
<1> HIDE DEF begin, first, ends
<1>4. CASE Waits(k, text, s)
  <2>1. begins = {} BY <1>4 DEF Waits, Begins
  <2>2. k.buf = <<>> /\ k.value_found = FALSE BY <1>2, <1>4 DEF Waits
  <2>3. QED BY <1>1, <2>1, <2>2
<1>5. ASSUME NEW b \in Nat, Collects(k, text, s, b)
      PROVE  ValueFrom(text, s) = [value |-> k.buf, all |-> k.value_found]
  <2>1. /\ FirstBegin(text, s, b) /\ k.value_found = FALSE
        /\ \A p \in First(text, b) .. n : ~Closes(text, b, p)
        /\ HasKept(k.buf, text, First(text, b), n)
    BY <1>2, <1>5 DEF Collects
  <2>2. begins # {} /\ first = First(text, b) /\ ends = {}
    BY <1>3, <2>1
  <2>3. first \in Nat /\ first > 0 /\ first <= n + 1
    BY <1>2, <2>1, <2>2, BeginPlace
  <2>4. last = n BY <2>2
  <2>5. k.buf = SubSeq(text, first, kept)
    <3> HIDE DEF last
    <3>1. HasKept(k.buf, text, first, last) BY <2>1, <2>2, <2>4
    <3>2. last \in Nat /\ last <= Len(text) /\ first <= last + 1
      BY <1>2, <2>3, <2>4
    <3>3. k.buf \in Seq(Chars) BY <1>2
    <3> HIDE DEF n
    <3>4. QED BY <2>3, <3>1, <3>2, <3>3, KeptIs
  <2> HIDE DEF begins, kept, last
  <2>6. QED BY <1>1, <2>1, <2>2, <2>5
<1>6. ASSUME NEW b \in Nat, NEW e \in Nat, HasEnded(k, text, s, b, e)
      PROVE  ValueFrom(text, s) = [value |-> k.buf, all |-> k.value_found]
  <2>1. /\ FirstBegin(text, s, b) /\ k.value_found = TRUE
        /\ e \in First(text, b) .. n /\ Closes(text, b, e)
        /\ \A p \in First(text, b) .. e - 1 : ~Closes(text, b, p)
        /\ HasKept(k.buf, text, First(text, b), e - 1)
    BY <1>2, <1>6 DEF HasEnded
  <2>2. /\ begins # {} /\ first = First(text, b)
        /\ ends = {p \in first .. n : Closes(text, b, p)}
    BY <1>3, <2>1
  <2>3. first \in Nat /\ first > 0 BY <1>2, <2>1, <2>2, BeginPlace
  <2>4. e \in ends BY <2>1, <2>2
  <2>5. ASSUME NEW r \in ends PROVE e <= r
    <3>1. r \in first .. n /\ Closes(text, b, r) BY <2>2
    <3>2. r \notin first .. e - 1 BY <2>1, <2>2, <3>1
    <3>3. QED BY <1>2, <2>3, <3>1, <3>2
  <2>6. ends \in SUBSET Nat BY <1>2, <2>2, <2>3
  <2>7. Least(ends) = e BY <2>4, <2>5, <2>6, LeastIs
  <2>8. last = e - 1 BY <2>4, <2>7
  <2>9. last \in Nat /\ last <= n /\ first <= last + 1
    <3>1. e \in first .. n BY <2>1, <2>2
    <3>2. QED BY <1>2, <2>3, <2>8, <3>1
  <2>10. HasKept(k.buf, text, first, last) BY <2>1, <2>2, <2>8
  <2>11. k.buf = SubSeq(text, first, kept)
    <3> HIDE DEF last
    <3>1. QED BY <1>2, <2>3, <2>9, <2>10, KeptIs
  <2>12. ends # {} BY <2>4
  <2> HIDE DEF begins, kept, last
  <2>13. QED BY <1>1, <2>1, <2>2, <2>11, <2>12
<1>7. QED BY <1>4, <1>5, <1>6 DEF Collecting

(***************************************************************************)
(* A keyval and the text it was told.                                      *)
(***************************************************************************)

Follows(k, text) ==
  IF k.key_found
  THEN \E s \in ValueStarts(k.word, text) :
         (\A r \in ValueStarts(k.word, text) : s <= r) /\ Collecting(k, text, s)
  ELSE Matching(k, text)

\* Nothing changes a keyval that has its value.
LEMMA FoundStays ==
  ASSUME NEW k \in GoodKeyvals, NEW text, Follows(k, text), k.value_found, NEW c
  PROVE  kv_next(k, c) = k
<1>1. k.key_found BY DEF Follows, Matching
<1>2. QED BY <1>1 DEF kv_next

LEMMA FollowsNext ==
  ASSUME NEW k \in GoodKeyvals, NEW text, NEW text2, NEW c,
         Longer(text, text2, c), Follows(k, text)
  PROVE  Follows(kv_next(k, c), text2)
<1>1. k \in Keyvals(Nat \X Nat, Words) /\ k.word \in Words
  BY DEF GoodKeyvals, Keyvals
<1>2. /\ text \in Seq(Chars) /\ text2 \in Seq(Chars) /\ c \in Chars
      /\ Len(text) \in Nat /\ Len(text2) = Len(text) + 1
  BY DEF Longer
<1>3. CASE ~k.key_found
  <2> DEFINE l == scan_for_key(k, c)
  <2>1. kv_next(k, c) = l BY <1>3 DEF kv_next
  <2>2. /\ l.word = k.word
        /\ l.buf = <<>> /\ l.quote = NoChar /\ ~l.value_found
        /\ IF l.key_found THEN ValueStarts(k.word, text2) = {Len(text2) + 1}
           ELSE Matching(l, text2)
    BY <1>3, MatchGoesOn DEF Follows
  <2> HIDE DEF l
  <2>3. CASE l.key_found
    <3> DEFINE s == Len(text2) + 1
    <3>1. ValueStarts(l.word, text2) = {s} BY <2>2, <2>3
    <3>2. s .. Len(text2) = {} /\ s <= s BY <1>2
    <3>3. Waits(l, text2, s) BY <2>2, <3>2 DEF Waits
    <3> HIDE DEF s
    <3>4. QED BY <2>1, <2>3, <3>1, <3>2, <3>3 DEF Follows, Collecting
  <2>4. CASE ~l.key_found BY <2>1, <2>2, <2>4 DEF Follows
  <2>5. QED BY <2>3, <2>4
<1>4. CASE k.key_found
  <2> DEFINE l == IF k.value_found THEN k ELSE scan_for_value(k, c)
  <2>1. kv_next(k, c) = l BY <1>4 DEF kv_next
  <2>2. PICK s \in ValueStarts(k.word, text) :
          /\ \A r \in ValueStarts(k.word, text) : s <= r
          /\ Collecting(k, text, s)
    BY <1>4 DEF Follows
  <2>3. s \in Nat /\ 1 <= s /\ s <= Len(text) + 1 BY <1>1, <1>2, <2>2, StartsType
  <2>4. Collecting(l, text2, s)
    <3>1. s > 0 BY <2>3
    <3>2. QED BY <2>2, <2>3, <3>1, ValueGoesOn
  <2>5. l.key_found = k.key_found /\ l.word = k.word
    BY <1>1 DEF scan_for_value, add_to_value, Keyvals
  <2> HIDE DEF l
  <2>6. ValueStarts(k.word, text2) =
           ValueStarts(k.word, text) \cup
             (IF EndsWith(k.word, text) /\ ~acceptable(c)
              THEN {Len(text2) + 1} ELSE {})
    BY <1>1, StartsGrow
  <2>7. s \in ValueStarts(k.word, text2)
        /\ \A r \in ValueStarts(k.word, text2) : s <= r
    <3>1. s <= Len(text2) + 1 BY <1>2, <2>3
    <3>2. QED BY <2>2, <2>6, <3>1
  <2>8. QED BY <1>4, <2>1, <2>4, <2>5, <2>7 DEF Follows
<1>5. QED BY <1>3, <1>4

\* However many characters come.
LEMMA FollowsScan ==
  ASSUME NEW k \in GoodKeyvals, NEW text \in Seq(Chars),
         NEW data \in Seq(Chars), Follows(k, text)
  PROVE  Follows(kv_scan(k, data), text \o data)
<1> DEFINE n == Len(data)
           whole == text \o data
           T(j) == SubSeq(whole, 1, Len(text) + j)
<1>1. n \in Nat /\ Len(text) \in Nat BY DEF n
<1>2. /\ whole \in Seq(Chars) /\ Len(whole) = Len(text) + n
      /\ \A i \in 1 .. Len(text) : whole[i] = text[i]
      /\ \A i \in 1 .. n : whole[Len(text) + i] = data[i]
  <2>1. /\ whole \in Seq(Chars) /\ Len(whole) = Len(text) + n
        /\ \A i \in 1 .. Len(whole) :
             whole[i] = IF i <= Len(text) THEN text[i] ELSE data[i - Len(text)]
    BY ConcatProperties
  <2> HIDE DEF whole
  <2>2. \A i \in 1 .. Len(text) : whole[i] = text[i] BY <1>1, <2>1
  <2>3. ASSUME NEW i \in 1 .. n PROVE whole[Len(text) + i] = data[i]
    <3>1. /\ Len(text) + i \in 1 .. Len(whole) /\ ~(Len(text) + i <= Len(text))
          /\ (Len(text) + i) - Len(text) = i
      BY <1>1, <2>1
    <3>2. QED BY <2>1, <3>1
  <2>4. QED BY <2>1, <2>2, <2>3
<1> HIDE DEF whole, n
<1>3. ASSUME NEW j \in 0 .. n
      PROVE  /\ T(j) \in Seq(Chars) /\ Len(T(j)) = Len(text) + j
             /\ \A i \in 1 .. Len(text) + j : T(j)[i] = whole[i]
  <2>1. 1 \in 1 .. Len(whole) + 1 /\ Len(text) + j \in 1 - 1 .. Len(whole)
    BY <1>1, <1>2
  <2> DEFINE q == Len(text) + j
  <2>2. /\ SubSeq(whole, 1, q) \in Seq(Chars)
        /\ Len(SubSeq(whole, 1, q)) = IF 1 <= q THEN q - 1 + 1 ELSE 0
        /\ \A i \in 1 .. q - 1 + 1 : SubSeq(whole, 1, q)[i] = whole[1 + i - 1]
    BY <1>2, <2>1, SubSeqProperties
  <2>3. q \in Nat BY <1>1
  <2>4. q - 1 + 1 = q /\ (~(1 <= q) => q = 0) BY <2>3
  <2>5. \A i \in 1 .. q : 1 + i - 1 = i BY <2>3
  <2> HIDE DEF q
  <2>6. Len(SubSeq(whole, 1, q)) = q BY <2>2, <2>4
  <2>7. \A i \in 1 .. q : SubSeq(whole, 1, q)[i] = whole[i]
    BY <2>2, <2>4, <2>5
  <2>8. QED BY <2>2, <2>6, <2>7 DEF q
<1>4. ASSUME NEW j \in 0 .. n, j + 1 <= n
      PROVE  Longer(T(j), T(j + 1), data[j + 1])
  <2>1. j + 1 \in 0 .. n /\ j + 1 \in 1 .. n BY <1>1, <1>4
  <2>2. data[j + 1] \in Chars BY <2>1 DEF n
  <2>3. Len(T(j + 1)) = Len(T(j)) + 1 BY <1>1, <1>3, <2>1
  <2>4. \A i \in 1 .. Len(T(j)) : T(j + 1)[i] = T(j)[i]
    <3>1. \A i \in 1 .. Len(T(j)) :
            i \in 1 .. Len(text) + j /\ i \in 1 .. Len(text) + (j + 1)
      BY <1>1, <1>3
    <3>2. QED BY <1>3, <2>1, <3>1
  <2>5. T(j + 1)[Len(T(j)) + 1] = data[j + 1]
    <3>1. Len(T(j)) + 1 = Len(text) + (j + 1)
          /\ Len(text) + (j + 1) \in 1 .. Len(text) + (j + 1)
      BY <1>1, <1>3, <2>1
    <3>2. QED BY <1>2, <1>3, <2>1, <3>1
  <2>6. T(j) \in Seq(Chars) /\ T(j + 1) \in Seq(Chars) BY <1>3, <2>1
  <2> HIDE DEF T
  <2>7. QED BY <2>2, <2>3, <2>4, <2>5, <2>6 DEF Longer
<1>5. T(0) = text /\ T(n) = whole
  <2>1. 0 \in 0 .. n /\ n \in 0 .. n BY <1>1
  <2>2. Len(T(0)) = Len(text) /\ Len(T(n)) = Len(whole) BY <1>1, <1>2, <1>3, <2>1
  <2>3. \A i \in 1 .. Len(text) : T(0)[i] = text[i]
    BY <1>1, <1>2, <1>3, <2>1
  <2>4. \A i \in 1 .. Len(whole) : T(n)[i] = whole[i]
    BY <1>2, <1>3, <2>1
  <2>5. T(0) \in Seq(Chars) /\ T(n) \in Seq(Chars) BY <1>3, <2>1
  <2> HIDE DEF T
  <2>6. T(0) = text BY <2>2, <2>3, <2>5, SeqEqual
  <2>7. T(n) = whole BY <1>2, <2>2, <2>4, <2>5, SeqEqual
  <2>8. QED BY <2>6, <2>7
<1> HIDE DEF T
<1>6. ASSUME NEW f, Runs(f, k, data) PROVE Follows(f[n], whole)
  <2> DEFINE S == {j \in Nat : j <= n => Follows(f[j], T(j))}
  <2>1. 0 \in S BY <1>5, <1>6 DEF Runs
  <2>2. ASSUME NEW j \in S PROVE j + 1 \in S
    <3>1. SUFFICES ASSUME j + 1 <= n PROVE Follows(f[j + 1], T(j + 1))
      BY <2>2
    <3>2. j \in Nat /\ j \in 0 .. n /\ j + 1 \in 1 .. n /\ (j + 1) - 1 = j
      BY <1>1, <2>2, <3>1
    <3>3. Follows(f[j], T(j)) BY <2>2, <3>2
    <3>4. f[j] \in GoodKeyvals /\ f[j + 1] = kv_next(f[j], data[j + 1])
      BY <1>6, <3>2 DEF Runs, n
    <3>5. Longer(T(j), T(j + 1), data[j + 1]) BY <1>4, <3>1, <3>2
    <3>6. QED BY <3>3, <3>4, <3>5, FollowsNext
  <2>3. S = Nat
    <3> HIDE DEF S
    <3>1. S \in SUBSET Nat BY DEF S
    <3>2. QED BY <2>1, <2>2, <3>1, NatsBySteps
  <2>4. QED BY <1>1, <1>5, <2>3
<1>7. CASE k.value_found
  <2> DEFINE f == [j \in 0 .. Len(data) |-> k]
  <2>1. \A c : kv_next(k, c) = k BY <1>7, FoundStays
  <2>2. Runs(f, k, data)
    <3>1. f \in [0 .. Len(data) -> GoodKeyvals] OBVIOUS
    <3>2. 0 \in 0 .. Len(data) BY <1>1 DEF n
    <3>3. ASSUME NEW i \in 1 .. Len(data) PROVE f[i] = kv_next(f[i - 1], data[i])
      <4>1. i \in 0 .. Len(data) /\ i - 1 \in 0 .. Len(data) BY <1>1 DEF n
      <4>2. QED BY <2>1, <4>1
    <3>4. QED BY <3>1, <3>2, <3>3 DEF Runs
  <2>3. f[n] = k BY <1>1 DEF n
  <2> HIDE DEF f
  <2>4. Follows(k, whole) BY <1>6, <2>2, <2>3
  <2>5. QED BY <1>7, <2>4 DEF kv_scan, whole
<1>8. CASE ~k.value_found
  <2>1. PICK f : Runs(f, k, data) /\ kv_scan(k, data) = f[Len(data)]
    BY <1>8, ScanRuns
  <2>2. QED BY <1>6, <2>1 DEF n, whole
<1>9. QED BY <1>7, <1>8

\* It has what the whole text has.
LEMMA FollowsCollected ==
  ASSUME NEW k \in GoodKeyvals, NEW text \in Seq(Chars), Follows(k, text)
  PROVE  Collected(k.word, text) = [value |-> k.buf, all |-> k.value_found]
<1>1. k \in Keyvals(Nat \X Nat, Words) /\ k.word \in Words
      /\ k.value_found \in BOOLEAN
  BY DEF GoodKeyvals, Keyvals
<1>2. CASE ~k.key_found
  <2>1. ValueStarts(k.word, text) = {} /\ k.buf = <<>> /\ k.value_found = FALSE
    BY <1>1, <1>2 DEF Follows, Matching
  <2>2. QED BY <2>1 DEF Collected
<1>3. CASE k.key_found
  <2>1. PICK s \in ValueStarts(k.word, text) :
          /\ \A r \in ValueStarts(k.word, text) : s <= r
          /\ Collecting(k, text, s)
    BY <1>3 DEF Follows
  <2>2. ValueStarts(k.word, text) \in SUBSET Nat /\ s \in Nat /\ s > 0
    BY <1>1, <2>1, StartsType
  <2>3. Least(ValueStarts(k.word, text)) = s BY <2>1, <2>2, LeastIs
  <2>4. ValueFrom(text, s) = [value |-> k.buf, all |-> k.value_found]
    BY <2>1, <2>2, ValueFromIs
  <2>5. ValueStarts(k.word, text) # {} BY <2>1
  <2>6. QED BY <2>3, <2>4, <2>5 DEF Collected
<1>4. QED BY <1>2, <1>3

(***************************************************************************)
(* A keyval and the text it was told, with interruptions.                  *)
(***************************************************************************)

Histories ==
  {h \in [text : Seq(Chars), cuts : SUBSET Nat] :
     \A p \in h.cuts : p <= Len(h.text)}

HasWord(word, text) == ValueStarts(word, text) # {} \/ EndsWith(word, text)

UpTo(h, p) == SubSeq(h.text, 1, p)

\* Interruptions that end what is collected.
EndsOf(word, h) == {p \in h.cuts : HasWord(word, UpTo(h, p))}

\* After the first of them the keyval does not change any more.
Agree(k, h) ==
  IF EndsOf(k.word, h) = {} THEN Follows(k, h.text)
  ELSE /\ k.value_found
       /\ k.buf = Collected(k.word, UpTo(h, Least(EndsOf(k.word, h)))).value

LEMMA HistoryFacts ==
  ASSUME NEW h \in Histories
  PROVE  /\ h.text \in Seq(Chars) /\ Len(h.text) \in Nat
         /\ h.cuts \in SUBSET Nat
         /\ \A p \in h.cuts : p \in Nat /\ p <= Len(h.text)
         /\ h = [text |-> h.text, cuts |-> h.cuts]
  BY DEF Histories

LEMMA AgreeHeard ==
  ASSUME NEW k \in GoodKeyvals, NEW h \in Histories, Agree(k, h)
  PROVE  [value |-> k.buf, all |-> k.value_found] = Heard(k.word, h)
<1> DEFINE ends == EndsOf(k.word, h)
           was  == Collected(k.word, UpTo(h, Least(ends)))
<1>1. Heard(k.word, h) =
        IF ends = {} THEN Collected(k.word, h.text)
        ELSE [value |-> was.value, all |-> TRUE]
  BY Zenon DEF Heard, EndsOf, HasWord, UpTo
<1>2. h.text \in Seq(Chars) /\ k.value_found \in BOOLEAN
  BY HistoryFacts DEF GoodKeyvals, Keyvals
<1>3. CASE ends = {}
  <2>1. Follows(k, h.text) BY <1>3 DEF Agree
  <2>2. QED BY <1>1, <1>2, <1>3, <2>1, FollowsCollected
<1>4. CASE ends # {}
  <2>1. k.value_found = TRUE /\ k.buf = was.value BY <1>2, <1>4 DEF Agree
  <2> HIDE DEF was, ends
  <2>2. QED BY <1>1, <1>4, <2>1
<1>5. QED BY <1>3, <1>4

\* Nothing has been heard.
LEMMA AgreeFresh ==
  ASSUME NEW c, NEW w \in Words
  PROVE  Nothing \in Histories /\ Agree(kv_create(c, w), Nothing)
<1>1. Nothing \in Histories BY DEF Nothing, Histories
<1>2. EndsOf(w, Nothing) = {} BY DEF EndsOf, Nothing
<1>3. Matching(kv_create(c, w), <<>>) BY NothingMatches
<1>4. /\ kv_create(c, w).word = w /\ ~kv_create(c, w).key_found
      /\ Nothing.text = <<>>
  BY DEF kv_create, Nothing
<1>5. Follows(kv_create(c, w), <<>>) BY <1>3, <1>4 DEF Follows
<1>6. QED BY <1>1, <1>2, <1>4, <1>5 DEF Agree

\* What is behind an interruption does not matter for it.
LEMMA UpToStays ==
  ASSUME NEW text \in Seq(Chars), NEW data \in Seq(Chars),
         NEW p \in Nat, p <= Len(text)
  PROVE  SubSeq(text \o data, 1, p) = SubSeq(text, 1, p)
<1> DEFINE n == Len(text)
           whole == text \o data
           a == SubSeq(whole, 1, p)
           b == SubSeq(text, 1, p)
<1>1. n \in Nat /\ Len(data) \in Nat OBVIOUS
<1>2. /\ whole \in Seq(Chars) /\ Len(whole) = n + Len(data)
      /\ \A i \in 1 .. Len(whole) :
           whole[i] = IF i <= n THEN text[i] ELSE data[i - n]
  BY ConcatProperties
<1> HIDE DEF whole
<1>3. /\ 1 \in 1 .. Len(whole) + 1 /\ p \in 1 - 1 .. Len(whole)
      /\ 1 \in 1 .. n + 1 /\ p \in 1 - 1 .. n
  BY <1>1, <1>2
<1>4. /\ a \in Seq(Chars) /\ Len(a) = (IF 1 <= p THEN p - 1 + 1 ELSE 0)
      /\ \A i \in 1 .. p - 1 + 1 : a[i] = whole[1 + i - 1]
  BY <1>2, <1>3, SubSeqProperties
<1>5. /\ b \in Seq(Chars) /\ Len(b) = (IF 1 <= p THEN p - 1 + 1 ELSE 0)
      /\ \A i \in 1 .. p - 1 + 1 : b[i] = text[1 + i - 1]
  BY <1>3, SubSeqProperties
<1> HIDE DEF a, b
<1>6. p - 1 + 1 = p /\ (IF 1 <= p THEN p - 1 + 1 ELSE 0) = p OBVIOUS
<1>7. ASSUME NEW i \in 1 .. Len(a) PROVE a[i] = b[i]
  <2>1. i \in 1 .. p - 1 + 1 /\ 1 + i - 1 = i /\ i \in 1 .. Len(whole) /\ i <= n
    BY <1>1, <1>2, <1>4, <1>6
  <2>2. QED BY <1>2, <1>4, <1>5, <2>1
<1>8. a = b
  <2>1. Len(a) = Len(b) BY <1>4, <1>5
  <2>2. QED BY <1>4, <1>5, <1>7, <2>1, SeqEqual
<1>9. QED BY <1>8 DEF a, b, whole

\* A packet of text.
LEMMA AgreeScan ==
  ASSUME NEW k \in GoodKeyvals, NEW h \in Histories, NEW data \in Seq(Chars),
         Agree(k, h), NEW h2, h2 = [h EXCEPT !.text = @ \o data]
  PROVE  h2 \in Histories /\ Agree(kv_scan(k, data), h2)
<1> DEFINE l == kv_scan(k, data)
<1>1. /\ h.text \in Seq(Chars) /\ Len(h.text) \in Nat /\ h.cuts \in SUBSET Nat
      /\ \A p \in h.cuts : p \in Nat /\ p <= Len(h.text)
      /\ h = [text |-> h.text, cuts |-> h.cuts]
  BY HistoryFacts
<1>2. h2 = [text |-> h.text \o data, cuts |-> h.cuts] BY <1>1
<1>3. h2.text = h.text \o data /\ h2.cuts = h.cuts BY <1>2
<1>4. h.text \o data \in Seq(Chars) /\ Len(h.text \o data) = Len(h.text) + Len(data)
      /\ Len(data) \in Nat
  BY <1>1, ConcatProperties
<1>5. h2 \in Histories
  <2>1. \A p \in h2.cuts : p <= Len(h2.text) BY <1>1, <1>3, <1>4
  <2>2. h2 \in [text : Seq(Chars), cuts : SUBSET Nat] BY <1>1, <1>2, <1>4
  <2>3. QED BY <2>1, <2>2 DEF Histories
<1>6. \A p \in h.cuts : UpTo(h2, p) = UpTo(h, p)
  BY <1>1, <1>3, UpToStays DEF UpTo
<1>7. EndsOf(k.word, h2) = EndsOf(k.word, h)
  BY <1>3, <1>6 DEF EndsOf
<1>8. Remains(k, l) BY ScanRemains
<1>9. CASE EndsOf(k.word, h) = {}
  <2>1. Follows(l, h2.text) BY <1>1, <1>3, <1>9, FollowsScan DEF Agree
  <2>2. QED BY <1>5, <1>7, <1>8, <1>9, <2>1 DEF Agree, Remains
<1>10. CASE EndsOf(k.word, h) # {}
  <2>1. l = k BY <1>10 DEF kv_scan, Agree
  <2>2. Least(EndsOf(k.word, h)) \in h.cuts
    <3>1. EndsOf(k.word, h) \in SUBSET Nat /\ EndsOf(k.word, h) \subseteq h.cuts
      BY <1>1 DEF EndsOf
    <3>2. PICK s \in EndsOf(k.word, h) : \A j \in EndsOf(k.word, h) : s <= j
      BY <1>10, <3>1, SmallestOfNats
    <3>3. Least(EndsOf(k.word, h)) = s BY <3>1, <3>2, LeastIs
    <3>4. QED BY <3>1, <3>2, <3>3
  <2>3. QED BY <1>5, <1>6, <1>7, <1>10, <2>1, <2>2 DEF Agree
<1>11. QED BY <1>9, <1>10

\* An interruption ends what is collected if the word has come.
LEMMA AgreeFlush ==
  ASSUME NEW k \in GoodKeyvals, NEW h \in Histories, Agree(k, h),
         NEW h2, h2 = [h EXCEPT !.cuts = @ \cup {Len(h.text)}]
  PROVE  h2 \in Histories /\ Agree(kv_flush(k), h2)
<1> DEFINE l == kv_flush(k)
           n == Len(h.text)
           ends == EndsOf(k.word, h)
           ends2 == EndsOf(k.word, h2)
<1>1. /\ h.text \in Seq(Chars) /\ n \in Nat /\ h.cuts \in SUBSET Nat
      /\ \A p \in h.cuts : p \in Nat /\ p <= n
      /\ h = [text |-> h.text, cuts |-> h.cuts]
  BY HistoryFacts
<1>2. h2 = [text |-> h.text, cuts |-> h.cuts \cup {n}] BY <1>1
<1>3. h2.text = h.text /\ h2.cuts = h.cuts \cup {n} BY <1>2
<1>4. h2 \in Histories
  <2>1. \A p \in h2.cuts : p <= Len(h2.text) BY <1>1, <1>3
  <2>2. h2 \in [text : Seq(Chars), cuts : SUBSET Nat] BY <1>1, <1>2
  <2>3. QED BY <2>1, <2>2 DEF Histories
<1>5. \A p : UpTo(h2, p) = UpTo(h, p) BY <1>3 DEF UpTo
<1>6. UpTo(h, n) = h.text BY <1>1, SubSeqFull DEF UpTo
<1>7. ends2 = ends \cup (IF HasWord(k.word, h.text) THEN {n} ELSE {})
  BY <1>3, <1>5, <1>6 DEF EndsOf
<1>8. ends \in SUBSET Nat /\ \A p \in ends : p <= n BY <1>1 DEF EndsOf
<1>9. k \in Keyvals(Nat \X Nat, Words) /\ k.word \in Words
      /\ k.value_found \in BOOLEAN /\ k.key_found \in BOOLEAN
  BY DEF GoodKeyvals, Keyvals
<1>10. /\ l.word = k.word /\ l.buf = k.buf
       /\ l.value_found = (k.value_found \/ k.key_found \/ k.index = Len(k.word))
       /\ l = [k EXCEPT !.value_found =
                 k.value_found \/ k.key_found \/ k.index = Len(k.word)]
  BY <1>9 DEF kv_flush, Keyvals
<1> HIDE DEF n, ends, ends2, l
<1>11. CASE ends # {}
  <2>1. PICK s \in ends : \A r \in ends : s <= r
    BY <1>8, <1>11, SmallestOfNats
  <2>2. Least(ends) = s BY <1>8, <2>1, LeastIs
  <2>3. ends2 \in SUBSET Nat /\ s \in ends2 /\ \A r \in ends2 : s <= r
    BY <1>1, <1>7, <1>8, <2>1
  <2>4. Least(ends2) = s BY <2>3, LeastIs
  <2>5. k.value_found /\ k.buf = Collected(k.word, UpTo(h, s)).value
    BY <1>11, <2>2 DEF Agree, ends
  <2>6. l.value_found /\ l.buf = Collected(k.word, UpTo(h2, s)).value
    BY <1>5, <1>10, <2>5
  <2>7. ends2 # {} BY <2>3
  <2>8. QED BY <1>4, <1>10, <2>4, <2>6, <2>7 DEF Agree, ends2, l
<1>12. CASE ends = {}
  <2>1. Follows(k, h.text) BY <1>12 DEF Agree, ends
  <2>2. Collected(k.word, h.text) = [value |-> k.buf, all |-> k.value_found]
    BY <1>1, <2>1, FollowsCollected
  <2>3. HasWord(k.word, h.text) <=> k.key_found \/ k.index = Len(k.word)
    <3>1. CASE k.key_found
      <4>1. ValueStarts(k.word, h.text) # {} BY <2>1, <3>1 DEF Follows
      <4>2. QED BY <3>1, <4>1 DEF HasWord
    <3>2. CASE ~k.key_found
      <4>1. Matching(k, h.text) BY <2>1, <3>2 DEF Follows
      <4>2. ValueStarts(k.word, h.text) = {} BY <4>1 DEF Matching
      <4>3. k.index = Len(k.word) <=> EndsWith(k.word, h.text)
        BY <1>1, <4>1, MatchingEnds
      <4>4. QED BY <3>2, <4>2, <4>3 DEF HasWord
    <3>3. QED BY <3>1, <3>2
  <2>4. CASE HasWord(k.word, h.text)
    <3>1. ends2 = {n} BY <1>7, <1>12, <2>4
    <3>2. Least(ends2) = n
      <4>1. ends2 \in SUBSET Nat /\ n \in ends2 /\ \A r \in ends2 : n <= r
        BY <1>1, <3>1
      <4>2. QED BY <4>1, LeastIs
    <3>3. l.value_found BY <1>10, <2>3, <2>4
    <3>4. UpTo(h2, n) = h.text BY <1>5, <1>6
    <3>5. l.buf = Collected(k.word, UpTo(h2, n)).value BY <1>10, <2>2, <3>4
    <3>6. ends2 # {} BY <3>1
    <3>7. QED BY <1>4, <1>10, <3>2, <3>3, <3>5, <3>6 DEF Agree, ends2, l
  <2>5. CASE ~HasWord(k.word, h.text)
    <3>1. ends2 = {} BY <1>7, <1>12, <2>5
    <3>2. l = [k EXCEPT !.value_found = k.value_found]
      <4>1. (k.value_found \/ k.key_found \/ k.index = Len(k.word)) = k.value_found
        BY <1>9, <2>3, <2>5
      <4>2. QED BY <1>10, <4>1
    <3>3. l = k BY <1>9, <3>2 DEF Keyvals
    <3>4. QED BY <1>3, <1>4, <2>1, <3>1, <3>3 DEF Agree, ends2, l
  <2>6. QED BY <2>4, <2>5
<1>13. QED BY <1>11, <1>12

(***************************************************************************)
(* The keyvals of a load.                                                  *)
(***************************************************************************)

\* The sequences come one behind the other.
LEMMA Flattened ==
  ASSUME NEW V, NEW seqs \in Seq(Seq(V)), Len(seqs) > 0
  PROVE  \E f \in [0 .. Len(seqs) -> Seq(V)] :
           /\ f[0] = <<>>
           /\ \A i \in 1 .. Len(seqs) : f[i] = f[i - 1] \o seqs[i]
           /\ FlattenSeq(seqs) = f[Len(seqs)]
<1> DEFINE n == Len(seqs)
           Goes(f) == f = [i \in 1 .. n |->
                             IF i = 1 THEN seqs[i] ELSE f[i - 1] \o seqs[i]]
           u == CHOOSE f : Goes(f)
           step == [js \in (1 .. n) \X Seq(V) |-> js[2] \o seqs[js[1]]]
<1>0. n \in Nat /\ n > 0 /\ \A i \in 1 .. n : seqs[i] \in Seq(V) OBVIOUS
<1> HIDE DEF n
<1>1. step \in [(1 .. n) \X Seq(V) -> Seq(V)]
  <2>1. ASSUME NEW i \in 1 .. n, NEW s \in Seq(V)
        PROVE  s \o seqs[i] \in Seq(V)
    BY <1>0, ConcatProperties
  <2>2. QED BY <2>1
<1>2. PICK f \in [0 .. n -> Seq(V)] : Iterates(f, <<>>, step, n)
  <2> HIDE DEF step
  <2>1. <<>> \in Seq(V) OBVIOUS
  <2>2. QED BY <1>0, <1>1, <2>1, Iterated
<1>3. f[0] = <<>> /\ \A i \in 1 .. n : f[i] = f[i - 1] \o seqs[i]
  <2>1. 0 \in 0 .. n BY <1>0
  <2>2. f[0] = <<>> BY <1>2, <2>1 DEF Iterates
  <2>3. ASSUME NEW i \in 1 .. n PROVE f[i] = f[i - 1] \o seqs[i]
    <3>1. i \in 0 .. n /\ i # 0 /\ i - 1 \in 0 .. n /\ f[i - 1] \in Seq(V)
      BY <1>0
    <3>2. f[i] = step[<<i, f[i - 1]>>] BY <1>2, <3>1 DEF Iterates
    <3>3. QED BY <3>1, <3>2
  <2>4. QED BY <2>2, <2>3
<1>4. f[1] = seqs[1]
  <2>1. 1 \in 1 .. n /\ 1 - 1 = 0 BY <1>0
  <2>2. f[1] = <<>> \o seqs[1] BY <1>3, <2>1
  <2>3. QED BY <1>0, <2>1, <2>2, ConcatEmptySeq
<1>5. Goes([i \in 1 .. n |-> f[i]])
  <2>1. ASSUME NEW i \in 1 .. n, i # 1 PROVE i - 1 \in 1 .. n BY <1>0, <2>1
  <2>2. QED BY <1>3, <1>4, <2>1
<1>6. Goes(u)
  <2> HIDE DEF Goes
  <2>1. QED BY <1>5
<1>7. FlattenSeq(seqs) = u[n]
  <2>1. FlattenSeq(seqs) = IF Len(seqs) = 0 THEN seqs ELSE u[n]
    BY Zenon DEF FlattenSeq, n
  <2>2. QED BY <1>0, <2>1 DEF n
<1> HIDE DEF u
<1>8. \A i \in Nat : i + 1 <= n => u[i + 1] = f[i + 1]
  <2> DEFINE S == {i \in Nat : i + 1 <= n => u[i + 1] = f[i + 1]}
  <2>1. \A i \in 1 .. n :
          u[i] = IF i = 1 THEN seqs[i] ELSE u[i - 1] \o seqs[i]
    BY <1>6
  <2>2. 0 \in S BY <1>0, <1>4, <2>1
  <2>3. ASSUME NEW i \in S PROVE i + 1 \in S
    <3>1. SUFFICES ASSUME (i + 1) + 1 <= n
                   PROVE  u[(i + 1) + 1] = f[(i + 1) + 1]
      BY <2>3
    <3>2. /\ i \in Nat /\ i + 1 <= n /\ (i + 1) + 1 \in 1 .. n
          /\ (i + 1) + 1 # 1 /\ ((i + 1) + 1) - 1 = i + 1
      BY <1>0, <2>3, <3>1
    <3>3. u[i + 1] = f[i + 1] BY <2>3, <3>2
    <3>4. u[(i + 1) + 1] = u[i + 1] \o seqs[(i + 1) + 1] BY <2>1, <3>2
    <3>5. f[(i + 1) + 1] = f[i + 1] \o seqs[(i + 1) + 1] BY <1>3, <3>2
    <3>6. QED BY <3>3, <3>4, <3>5
  <2>4. S = Nat
    <3> HIDE DEF S
    <3>1. S \in SUBSET Nat BY DEF S
    <3>2. QED BY <2>2, <2>3, <3>1, NatsBySteps
  <2>5. QED BY <2>4
<1>9. u[n] = f[n]
  <2>1. n - 1 \in Nat /\ (n - 1) + 1 = n /\ (n - 1) + 1 <= n BY <1>0
  <2>2. u[(n - 1) + 1] = f[(n - 1) + 1] BY <1>8, <2>1
  <2>3. QED BY <2>1, <2>2
<1>10. QED BY <1>3, <1>7, <1>9 DEF n

TokenOf(l, u, t) == kv_create(<<0, u>>, l.urls[u].tokens[t])
Tokens(l, u) == 1 .. Len(l.urls[u].tokens)
UrlsOf(l) == 1 .. Len(l.urls)

\* What LoadsAssumption says of one load.
LEMMA LoadFacts ==
  ASSUME NEW l \in Loads
  PROVE  /\ l.threads \in Nat /\ l.clients \in Nat /\ l.clients > 0
         /\ l.urls \in Seq(UrlContexts) /\ Len(l.urls) \in Nat
         /\ Len(l.urls) > 0 /\ DOMAIN l.urls = UrlsOf(l)
         /\ l.pieces \subseteq Seq(Chars)
         /\ Accepted(l) /\ FirstSetsUp(l)
         /\ \A u \in UrlsOf(l) :
              /\ l.urls[u] \in UrlContexts
              /\ l.urls[u].tokens \in Seq(Words)
              /\ DOMAIN l.urls[u].tokens = Tokens(l, u)
              /\ \A t \in Tokens(l, u) : l.urls[u].tokens[t] \in Words
              /\ l.urls[u].names \in Seq(Words)
              /\ l.urls[u].cents \in Nat /\ l.urls[u].lines \in Nat
              /\ l.urls[u].form \in Usages /\ l.urls[u].records \in Nat
              /\ l.urls[u].use_current \in BOOLEAN
              /\ l.urls[u].form = "random" => l.urls[u].records > 0
<1>1. /\ l.threads \in Nat /\ l.clients \in Nat \ {0}
      /\ l.urls \in Seq(UrlContexts) \ {<<>>} /\ l.pieces \subseteq Seq(Chars)
      /\ Accepted(l) /\ FirstSetsUp(l)
      /\ \A u \in DOMAIN l.urls : l.urls[u].form = "random" =>
           l.urls[u].records > 0
  BY LoadsAssumption
<1>2. DOMAIN l.urls = UrlsOf(l) /\ Len(l.urls) \in Nat BY <1>1 DEF UrlsOf
<1>3. Len(l.urls) > 0
  <2>1. l.urls # <<>> /\ l.urls \in Seq(UrlContexts) BY <1>1
  <2>2. QED BY <2>1
<1>4. ASSUME NEW u \in UrlsOf(l)
      PROVE  /\ l.urls[u] \in UrlContexts
             /\ l.urls[u].tokens \in Seq(Words)
             /\ DOMAIN l.urls[u].tokens = Tokens(l, u)
             /\ \A t \in Tokens(l, u) : l.urls[u].tokens[t] \in Words
             /\ l.urls[u].names \in Seq(Words)
             /\ l.urls[u].cents \in Nat /\ l.urls[u].lines \in Nat
             /\ l.urls[u].form \in Usages /\ l.urls[u].records \in Nat
             /\ l.urls[u].use_current \in BOOLEAN
  <2>1. l.urls[u] \in UrlContexts BY <1>1 DEF UrlsOf
  <2>2. l.urls[u].tokens \in Seq(Words) BY <2>1 DEF UrlContexts
  <2>3. QED BY <2>1, <2>2 DEF UrlContexts, Tokens
<1>5. QED BY <1>1, <1>2, <1>3, <1>4

\* The keyvals are those of the tokens, url by url.
AreTokens(l, q, m) ==
  /\ q \in Seq(GoodKeyvals)
  /\ \A p \in 1 .. Len(q) : \E u \in 1 .. m : \E t \in Tokens(l, u) :
       q[p] = TokenOf(l, u, t)
  /\ \A u \in 1 .. m : \A t \in Tokens(l, u) : \E p \in 1 .. Len(q) :
       q[p] = TokenOf(l, u, t)
  /\ \A p, r \in 1 .. Len(q) : p <= r => q[p].context[2] <= q[r].context[2]

LEMMA TokenFacts ==
  ASSUME NEW l \in Loads, NEW u \in UrlsOf(l), NEW t \in Tokens(l, u)
  PROVE  /\ TokenOf(l, u, t) \in GoodKeyvals
         /\ TokenOf(l, u, t).context = <<0, u>>
         /\ TokenOf(l, u, t).word = l.urls[u].tokens[t]
         /\ TokenOf(l, u, t).word \in Words
<1>1. l.urls[u].tokens[t] \in Words /\ <<0, u>> \in Nat \X Nat
  BY LoadFacts DEF UrlsOf
<1>2. QED BY <1>1, CreatedIsGood DEF TokenOf

LEMMA ParsedTokens ==
  ASSUME NEW l \in Loads
  PROVE  AreTokens(l, ParsedKeyvals(l), Len(l.urls))
<1> DEFINE n == Len(l.urls)
           seqs == [u \in DOMAIN l.urls |->
                      [t \in DOMAIN l.urls[u].tokens |->
                         kv_create(<<0, u>>, l.urls[u].tokens[t])]]
<1>1. n \in Nat /\ n > 0 /\ DOMAIN l.urls = 1 .. n BY LoadFacts DEF UrlsOf
<1>2. ASSUME NEW u \in 1 .. n
      PROVE  /\ Len(l.urls[u].tokens) \in Nat
             /\ seqs[u] = [t \in Tokens(l, u) |-> TokenOf(l, u, t)]
             /\ seqs[u] \in Seq(GoodKeyvals)
             /\ Len(seqs[u]) = Len(l.urls[u].tokens)
             /\ \A t \in Tokens(l, u) : seqs[u][t] = TokenOf(l, u, t)
  <2>1. u \in UrlsOf(l) BY DEF UrlsOf
  <2>2. l.urls[u].tokens \in Seq(Words) /\ DOMAIN l.urls[u].tokens = Tokens(l, u)
    BY <2>1, LoadFacts
  <2>3. Len(l.urls[u].tokens) \in Nat BY <2>2
  <2>4. seqs[u] = [t \in Tokens(l, u) |-> TokenOf(l, u, t)]
    BY <1>1, <2>2 DEF TokenOf
  <2> HIDE DEF seqs
  <2>5. \A t \in Tokens(l, u) : TokenOf(l, u, t) \in GoodKeyvals
    BY <2>1, TokenFacts
  <2>6. seqs[u] \in Seq(GoodKeyvals) /\ Len(seqs[u]) = Len(l.urls[u].tokens)
    BY <2>3, <2>4, <2>5, IsASeq DEF Tokens
  <2>7. QED BY <2>3, <2>4, <2>6
<1>3. seqs \in Seq(Seq(GoodKeyvals)) /\ Len(seqs) = n
  <2>1. seqs = [u \in 1 .. n |-> seqs[u]] BY <1>1
  <2> HIDE DEF seqs, n
  <2>2. QED BY <1>1, <1>2, <2>1, IsASeq
<1>4. ParsedKeyvals(l) = FlattenSeq(seqs) BY Zenon DEF ParsedKeyvals
<1> HIDE DEF seqs, n
<1>5. PICK f \in [0 .. n -> Seq(GoodKeyvals)] :
        /\ f[0] = <<>>
        /\ \A i \in 1 .. n : f[i] = f[i - 1] \o seqs[i]
        /\ FlattenSeq(seqs) = f[n]
  BY <1>1, <1>3, Flattened
<1>6. ASSUME NEW i \in Nat, i + 1 <= n, AreTokens(l, f[i], i)
      PROVE  AreTokens(l, f[i + 1], i + 1)
  <2> DEFINE s == f[i]
             a == seqs[i + 1]
             q == f[i + 1]
  <2>1. i \in 0 .. n /\ i + 1 \in 1 .. n /\ (i + 1) - 1 = i
        /\ i + 1 \in UrlsOf(l)
    BY <1>1, <1>6 DEF UrlsOf, n
  <2>2. /\ q = s \o a /\ s \in Seq(GoodKeyvals) /\ a \in Seq(GoodKeyvals)
        /\ Len(s) \in Nat /\ Len(a) \in Nat /\ Tokens(l, i + 1) = 1 .. Len(a)
        /\ \A t \in 1 .. Len(a) : a[t] = TokenOf(l, i + 1, t)
    <3>1. q = s \o a BY <1>5, <2>1
    <3>2. s \in Seq(GoodKeyvals) BY <1>5, <2>1
    <3>3. /\ a \in Seq(GoodKeyvals) /\ Len(a) = Len(l.urls[i + 1].tokens)
          /\ \A t \in Tokens(l, i + 1) : a[t] = TokenOf(l, i + 1, t)
      BY <1>2, <2>1
    <3>4. Tokens(l, i + 1) = 1 .. Len(a) BY <3>3 DEF Tokens
    <3> HIDE DEF s, a, q
    <3>5. QED BY <3>1, <3>2, <3>3, <3>4
  <2> HIDE DEF s, a, q
  <2>3. /\ q \in Seq(GoodKeyvals) /\ Len(q) = Len(s) + Len(a)
        /\ \A p \in 1 .. Len(q) :
             q[p] = IF p <= Len(s) THEN s[p] ELSE a[p - Len(s)]
    BY <2>2, ConcatProperties
  <2>4. \A p \in 1 .. Len(s) : p \in 1 .. Len(q) /\ q[p] = s[p]
    BY <2>2, <2>3
  <2>5. ASSUME NEW t \in 1 .. Len(a)
        PROVE  Len(s) + t \in 1 .. Len(q) /\ q[Len(s) + t] = a[t]
    <3>1. /\ Len(s) + t \in 1 .. Len(q) /\ ~(Len(s) + t <= Len(s))
          /\ (Len(s) + t) - Len(s) = t
      BY <2>2, <2>3
    <3>2. QED BY <2>3, <3>1
  <2>6. ASSUME NEW p \in 1 .. Len(q)
        PROVE  p \in 1 .. Len(s) \/
               (p > Len(s) /\ \E t \in 1 .. Len(a) : q[p] = TokenOf(l, i + 1, t))
    <3>1. CASE p <= Len(s) BY <2>2, <3>1
    <3>2. CASE ~(p <= Len(s))
      <4>1. p - Len(s) \in 1 .. Len(a) /\ p > Len(s) BY <2>2, <2>3, <3>2
      <4>2. q[p] = a[p - Len(s)] BY <2>3, <3>2
      <4>3. QED BY <2>2, <4>1, <4>2
    <3>3. QED BY <3>1, <3>2
  <2>7. /\ \A p \in 1 .. Len(s) : \E u \in 1 .. i : \E t \in Tokens(l, u) :
             s[p] = TokenOf(l, u, t)
        /\ \A u \in 1 .. i : \A t \in Tokens(l, u) : \E p \in 1 .. Len(s) :
             s[p] = TokenOf(l, u, t)
        /\ \A p, r \in 1 .. Len(s) : p <= r =>
             s[p].context[2] <= s[r].context[2]
    BY <1>6 DEF AreTokens, s
  <2>8. ASSUME NEW p \in 1 .. Len(q)
        PROVE  \E u \in 1 .. i + 1 : \E t \in Tokens(l, u) :
                 q[p] = TokenOf(l, u, t)
    <3>1. CASE p \in 1 .. Len(s)
      <4>1. PICK u \in 1 .. i : \E t \in Tokens(l, u) : s[p] = TokenOf(l, u, t)
        BY <2>7, <3>1
      <4>2. u \in 1 .. i + 1 BY <1>6
      <4>3. QED BY <2>4, <3>1, <4>1, <4>2
    <3>2. CASE \E t \in 1 .. Len(a) : q[p] = TokenOf(l, i + 1, t)
      <4>1. i + 1 \in 1 .. i + 1 BY <1>6
      <4>2. QED BY <2>2, <3>2, <4>1
    <3>3. QED BY <2>6, <3>1, <3>2
  <2>9. ASSUME NEW u \in 1 .. i + 1, NEW t \in Tokens(l, u)
        PROVE  \E p \in 1 .. Len(q) : q[p] = TokenOf(l, u, t)
    <3>1. CASE u = i + 1
      <4>1. t \in 1 .. Len(a) BY <2>2, <3>1
      <4>2. q[Len(s) + t] = TokenOf(l, u, t) /\ Len(s) + t \in 1 .. Len(q)
        BY <2>2, <2>5, <3>1, <4>1
      <4>3. QED BY <4>2
    <3>2. CASE u # i + 1
      <4>1. u \in 1 .. i BY <1>6, <3>2
      <4>2. PICK p \in 1 .. Len(s) : s[p] = TokenOf(l, u, t) BY <2>7, <4>1
      <4>3. QED BY <2>4, <4>2
    <3>3. QED BY <3>1, <3>2
  <2>10. ASSUME NEW p \in 1 .. Len(q), NEW r \in 1 .. Len(q), p <= r
         PROVE  q[p].context[2] <= q[r].context[2]
    <3>1. \A t \in Tokens(l, i + 1) : TokenOf(l, i + 1, t).context[2] = i + 1
      BY <2>1, TokenFacts
    <3>2. CASE r \in 1 .. Len(s)
      <4>1. p \in 1 .. Len(s) BY <2>2, <2>3, <2>10, <3>2
      <4>2. QED BY <2>4, <2>7, <2>10, <3>2, <4>1
    <3>3. CASE \E t \in 1 .. Len(a) : q[r] = TokenOf(l, i + 1, t)
      <4>1. q[r].context[2] = i + 1 BY <2>2, <3>1, <3>3
      <4>2. PICK u \in 1 .. i + 1 : \E t \in Tokens(l, u) :
              q[p] = TokenOf(l, u, t)
        BY <2>8
      <4>3. u \in UrlsOf(l) BY <1>1, <1>6, <2>1 DEF UrlsOf, n
      <4>4. q[p].context[2] = u BY <4>2, <4>3, TokenFacts
      <4>5. QED BY <1>6, <4>1, <4>4
    <3>4. QED BY <2>6, <3>2, <3>3
  <2>11. QED BY <2>3, <2>8, <2>9, <2>10 DEF AreTokens, q
<1>7. AreTokens(l, f[0], 0)
  <2>1. f[0] \in Seq(GoodKeyvals) /\ Len(f[0]) = 0 BY <1>5
  <2>2. 1 .. 0 = {} OBVIOUS
  <2>3. QED BY <2>1, <2>2 DEF AreTokens
<1>8. AreTokens(l, f[n], n)
  <2> DEFINE S == {i \in Nat : i <= n => AreTokens(l, f[i], i)}
  <2>1. 0 \in S BY <1>7
  <2>2. ASSUME NEW i \in S PROVE i + 1 \in S
    <3>1. SUFFICES ASSUME i + 1 <= n PROVE AreTokens(l, f[i + 1], i + 1)
      BY <2>2
    <3>2. i \in Nat /\ i <= n BY <1>1, <2>2, <3>1
    <3>3. AreTokens(l, f[i], i) BY <2>2, <3>2
    <3>4. QED BY <1>6, <3>1, <3>2, <3>3
  <2>3. S = Nat
    <3> HIDE DEF S
    <3>1. S \in SUBSET Nat BY DEF S
    <3>2. QED BY <2>1, <2>2, <3>1, NatsBySteps
  <2>4. QED BY <1>1, <2>3
<1>9. QED BY <1>4, <1>5, <1>8 DEF n

(***************************************************************************)
(* The types of the variables.                                             *)
(***************************************************************************)

Parsed == ParsedKeyvals(load)

\* The queue has the keyvals of the load.
IsQueue(q) ==
  /\ q \in Seq(GoodKeyvals) /\ Len(q) = Len(Parsed)
  /\ \A p \in 1 .. Len(Parsed) : Remains(Parsed[p], q[p])

IsRequest(r) ==
  /\ r = [url |-> r.url, values |-> r.values, line |-> r.line,
          record |-> r.record]
  /\ r.url \in BOOLEAN /\ r.line \in Int /\ r.record \in Int

QueuesOK ==
  /\ load \in Loads
  /\ DOMAIN que_array = ClientIndexes
  /\ \A i \in ClientIndexes : IsQueue(que_array[i])
  /\ heard \in [Clients \X UrlIndexes -> Histories]

RequestsOK ==
  /\ ended \subseteq Threads
  /\ lookups \in [Threads -> [index : ClientIndexes \cup {-1}, done : Nat]]
  /\ url_curr_index \in [Clients -> UrlIndexes \cup {0}]
  /\ fetching \subseteq Clients
  /\ previous_type \in [Clients -> {"none", "text", "other"}]
  /\ form_index \in [Threads \X UrlIndexes -> Nat]
  /\ set_index \in [Threads \X UrlIndexes -> Int]
  /\ DOMAIN request = Clients /\ \A c \in Clients : IsRequest(request[c])
  /\ DOMAIN values = UrlIndexes
  /\ \A u \in UrlIndexes : DOMAIN values[u] = 1 .. load.urls[u].cents
  /\ crashed \in BOOLEAN

UrlsType == QueuesOK /\ RequestsOK

LEMMA IndexFacts ==
  ASSUME load \in Loads
  PROVE  /\ ClientIndexes \subseteq Nat /\ \A i \in ClientIndexes : i < load.clients
         /\ Threads \subseteq Nat /\ 0 \in Threads
         /\ UrlIndexes = 1 .. Len(load.urls) /\ UrlIndexes = UrlsOf(load)
         /\ Len(load.urls) \in Nat /\ UrlIndexes \subseteq Nat
         /\ \A c \in Clients :
              c = <<c[1], c[2]>> /\ c[1] \in Threads /\ c[2] \in ClientIndexes
         /\ load.clients \in Nat /\ load.clients > 0 /\ load.threads \in Nat
<1>1. /\ load.clients \in Nat /\ load.clients > 0 /\ load.threads \in Nat
      /\ DOMAIN load.urls = UrlsOf(load) /\ Len(load.urls) \in Nat
  BY LoadFacts
<1>2. ClientIndexes \subseteq Nat /\ \A i \in ClientIndexes : i < load.clients
  BY <1>1 DEF ClientIndexes
<1>3. Threads \subseteq Nat /\ 0 \in Threads BY <1>1 DEF Threads
<1>4. UrlIndexes = 1 .. Len(load.urls) /\ UrlIndexes = UrlsOf(load)
      /\ UrlIndexes \subseteq Nat
  BY <1>1 DEF UrlIndexes, UrlsOf
<1>5. ASSUME NEW c \in Clients
      PROVE  c = <<c[1], c[2]>> /\ c[1] \in Threads /\ c[2] \in ClientIndexes
  BY DEF Clients
<1>6. QED BY <1>1, <1>2, <1>3, <1>4, <1>5

\* The keyvals of a load belong to its urls.
LEMMA ParsedFacts ==
  ASSUME load \in Loads
  PROVE  /\ Parsed \in Seq(GoodKeyvals) /\ Len(Parsed) \in Nat
         /\ \A p \in 1 .. Len(Parsed) :
              /\ Parsed[p] \in GoodKeyvals /\ Parsed[p].context \in Contexts
              /\ Parsed[p].context = <<0, Parsed[p].context[2]>>
              /\ Parsed[p].context[2] \in UrlIndexes
              /\ Parsed[p].word \in Words
              /\ Parsed[p] = kv_create(Parsed[p].context, Parsed[p].word)
<1>1. AreTokens(load, Parsed, Len(load.urls)) BY ParsedTokens DEF Parsed
<1>2. /\ Parsed \in Seq(GoodKeyvals)
      /\ \A p \in 1 .. Len(Parsed) :
           \E u \in 1 .. Len(load.urls) : \E t \in Tokens(load, u) :
             Parsed[p] = TokenOf(load, u, t)
  BY <1>1 DEF AreTokens
<1>3. Len(Parsed) \in Nat BY <1>2
<1>4. ASSUME NEW p \in 1 .. Len(Parsed)
      PROVE  /\ Parsed[p] \in GoodKeyvals /\ Parsed[p].context \in Contexts
             /\ Parsed[p].context = <<0, Parsed[p].context[2]>>
             /\ Parsed[p].context[2] \in UrlIndexes
             /\ Parsed[p].word \in Words
             /\ Parsed[p] = kv_create(Parsed[p].context, Parsed[p].word)
  <2>1. PICK u \in 1 .. Len(load.urls) : \E t \in Tokens(load, u) :
          Parsed[p] = TokenOf(load, u, t)
    BY <1>2
  <2>2. PICK t \in Tokens(load, u) : Parsed[p] = TokenOf(load, u, t) BY <2>1
  <2>3. u \in UrlsOf(load) /\ u \in UrlIndexes BY IndexFacts DEF UrlsOf
  <2>4. /\ Parsed[p] \in GoodKeyvals /\ Parsed[p].context = <<0, u>>
        /\ Parsed[p].word = load.urls[u].tokens[t] /\ Parsed[p].word \in Words
    BY <2>2, <2>3, TokenFacts
  <2>5. Parsed[p] = kv_create(Parsed[p].context, Parsed[p].word)
    BY <2>2, <2>4 DEF TokenOf
  <2>6. <<0, u>>[2] = u /\ <<0, u>> \in Contexts BY <2>3 DEF Contexts
  <2>7. QED BY <2>3, <2>4, <2>5, <2>6
<1>5. QED BY <1>2, <1>3, <1>4

LEMMA QueueFacts ==
  ASSUME QueuesOK, NEW i \in ClientIndexes
  PROVE  /\ DOMAIN que_array[i] = 1 .. Len(Parsed)
         /\ \A p \in 1 .. Len(Parsed) :
              /\ que_array[i][p] \in GoodKeyvals
              /\ que_array[i][p].context = Parsed[p].context
              /\ que_array[i][p].word = Parsed[p].word
<1>1. IsQueue(que_array[i]) BY DEF QueuesOK
<1>2. QED BY <1>1 DEF IsQueue, Remains

Agreement ==
  \A i \in ClientIndexes : \A p \in 1 .. Len(Parsed) :
    Agree(que_array[i][p], heard[<<<<0, i>>, Parsed[p].context[2]>>])

\* The keyvals of one client and url change, with what it has heard.
LEMMA QueuesChange ==
  ASSUME QueuesOK, Agreement, NEW c \in Clients, NEW u \in UrlIndexes,
         NEW new, NEW h2 \in Histories, load' = load,
         \A p \in 1 .. Len(Parsed) :
           /\ Remains(que_array[c[2]][p], new[p])
           /\ Agree(que_array[c[2]][p], heard[<<c, u>>]) => Agree(new[p], h2),
         que_array' = with_keyvals(c[1], c[2], u, new),
         heard' = [heard EXCEPT ![<<c, u>>] = h2]
  PROVE  QueuesOK' /\ Agreement'
<1> DEFINE b == c[1]
           i == c[2]
           m == Len(Parsed)
<1>1. load \in Loads /\ c = <<b, i>> /\ b \in Threads /\ i \in ClientIndexes
  BY IndexFacts DEF QueuesOK
<1>2. /\ ClientIndexes' = ClientIndexes /\ Clients' = Clients
      /\ UrlIndexes' = UrlIndexes /\ Parsed' = Parsed
  BY DEF ClientIndexes, Clients, Threads, UrlIndexes, Parsed
<1>3. /\ m \in Nat
      /\ \A p \in 1 .. m :
           /\ Parsed[p].context = <<0, Parsed[p].context[2]>>
           /\ Parsed[p].context[2] \in UrlIndexes
  BY <1>1, ParsedFacts
<1> HIDE DEF m, b, i
<1>4. /\ DOMAIN que_array = ClientIndexes
      /\ \A j \in ClientIndexes : IsQueue(que_array[j])
      /\ heard \in [Clients \X UrlIndexes -> Histories]
  BY DEF QueuesOK
<1>5. /\ DOMAIN que_array[i] = 1 .. m
      /\ \A p \in 1 .. m : que_array[i][p].context = Parsed[p].context
  BY <1>1, QueueFacts DEF m
<1>6. /\ DOMAIN que_array' = ClientIndexes
      /\ \A j \in ClientIndexes : j # i => que_array'[j] = que_array[j]
      /\ que_array'[i] = [p \in 1 .. m |->
                            IF Parsed[p].context = <<b, u>> THEN new[p]
                            ELSE que_array[i][p]]
  <2>1. que_array' = [que_array EXCEPT ![i] =
          [p \in DOMAIN que_array[i] |->
             IF que_array[i][p].context = <<b, u>> THEN new[p]
             ELSE que_array[i][p]]]
    BY DEF with_keyvals, b, i
  <2> DEFINE q == [p \in DOMAIN que_array[i] |->
                     IF que_array[i][p].context = <<b, u>> THEN new[p]
                     ELSE que_array[i][p]]
  <2>2. q = [p \in 1 .. m |-> IF Parsed[p].context = <<b, u>> THEN new[p]
                              ELSE que_array[i][p]]
    BY <1>5
  <2> HIDE DEF q
  <2>3. que_array' = [que_array EXCEPT ![i] = q] BY <2>1 DEF q
  <2>4. QED BY <1>1, <1>4, <2>2, <2>3
<1>7. \A p \in 1 .. m :
        que_array'[i][p] = IF Parsed[p].context = <<b, u>> THEN new[p]
                           ELSE que_array[i][p]
  BY <1>6
<1>8. IsQueue(que_array'[i])
  <2>1. IsQueue(que_array[i]) BY <1>1, <1>4
  <2>2. ASSUME NEW p \in 1 .. m
        PROVE  Remains(Parsed[p], que_array'[i][p]) /\ que_array'[i][p] \in GoodKeyvals
    <3>1. Remains(Parsed[p], que_array[i][p]) BY <2>1 DEF IsQueue, m
    <3>2. Remains(que_array[i][p], new[p]) BY DEF m, i
    <3>3. QED BY <1>7, <3>1, <3>2 DEF Remains
  <2>3. que_array'[i] = [p \in 1 .. m |-> que_array'[i][p]] BY <1>6, <1>7
  <2> DEFINE q == que_array'[i]
  <2>4. q \in Seq(GoodKeyvals) /\ Len(q) = m
    <3> HIDE DEF q
    <3>1. q = [p \in 1 .. m |-> q[p]] /\ \A p \in 1 .. m : q[p] \in GoodKeyvals
      BY <2>2, <2>3 DEF q
    <3>2. QED BY <1>3, <3>1, IsASeq
  <2>5. QED BY <2>2, <2>4 DEF IsQueue, m
<1>9. heard' \in [Clients \X UrlIndexes -> Histories] BY <1>4
<1>10. QueuesOK'
  <2>1. ASSUME NEW j \in ClientIndexes PROVE IsQueue(que_array'[j])
    BY <1>4, <1>6, <1>8
  <2>2. \A j \in ClientIndexes' : IsQueue(que_array[j])'
    BY <1>2, <2>1 DEF IsQueue
  <2>3. QED BY <1>1, <1>2, <1>6, <1>9, <2>2 DEF QueuesOK
<1>11. ASSUME NEW j \in ClientIndexes, NEW p \in 1 .. m
       PROVE  Agree(que_array'[j][p], heard'[<<<<0, j>>, Parsed[p].context[2]>>])
  <2> DEFINE v == Parsed[p].context[2]
             cu == <<<<0, j>>, v>>
  <2>1. v \in UrlIndexes /\ Parsed[p].context = <<0, v>> BY <1>3
  <2>2. 0 \in Threads BY <1>1, IndexFacts
  <2>3. cu \in Clients \X UrlIndexes BY <2>1, <2>2 DEF Clients
  <2>4. Agree(que_array[j][p], heard[cu]) BY DEF Agreement, m
  <2>5. CASE j = i /\ b = 0 /\ v = u
    <3>1. cu = <<c, u>> BY <1>1, <2>5
    <3>2. heard'[cu] = h2 BY <1>4, <2>3, <3>1
    <3>3. que_array'[j][p] = new[p] BY <1>7, <2>1, <2>5
    <3>4. Agree(que_array[i][p], heard[<<c, u>>]) => Agree(new[p], h2)
      BY DEF m, i
    <3>5. QED BY <2>4, <2>5, <3>1, <3>2, <3>3, <3>4
  <2>6. CASE ~(j = i /\ b = 0 /\ v = u)
    <3>1. cu # <<c, u>>
      <4>1. cu = <<c, u>> => <<0, j>> = <<b, i>> /\ v = u BY <1>1
      <4>2. QED BY <2>6, <4>1
    <3>2. heard'[cu] = heard[cu] BY <1>4, <2>3, <3>1
    <3>3. que_array'[j][p] = que_array[j][p]
      <4>1. CASE j # i BY <1>6, <4>1
      <4>2. CASE j = i
        <5>1. Parsed[p].context # <<b, u>> BY <2>1, <2>6, <4>2
        <5>2. QED BY <1>7, <4>2, <5>1
      <4>3. QED BY <4>1, <4>2
    <3> HIDE DEF cu
    <3>4. Agree(que_array'[j][p], heard'[cu]) BY <2>4, <3>2, <3>3
    <3>5. QED BY <3>4 DEF cu
  <2>7. QED BY <2>5, <2>6
<1>12. Agreement' BY <1>2, <1>11 DEF Agreement, m
<1>13. QED BY <1>10, <1>12

(***************************************************************************)
(* What is handed over.                                                    *)
(***************************************************************************)

\* A request of the client for the url has the record and line it should have.
Sends(r, c, u) ==
  r.url =>
    /\ load.urls[u].form = "file" => r.record = c[2]
    /\ load.urls[u].form \in {"random", "cycle"} =>
         r.record \in 0 .. load.urls[u].records - 1
    /\ (load.urls[u].lines # 0 /\ ~load.urls[u].use_current) =>
         r.line = c[2] % load.urls[u].lines

HandOut ==
  \A c \in fetching :
    url_curr_index[c] \in UrlIndexes /\ Sends(request[c], c, url_curr_index[c])

\* A template that is being completed.
Completing(c) ==
  /\ c \in Clients /\ c \notin fetching /\ url_curr_index[c] \in UrlIndexes
  /\ is_template(Url(c)) /\ Url(c).lines = 0 /\ ~Url(c).use_current
  /\ Len(Url(c).names) = Url(c).cents
  /\ lookups[c[1]].done <= Url(c).cents

Completes ==
  \A b \in Threads : Busy(b) => Completing(<<b, lookups[b].index>>)

Requested == RequestsOK /\ HandOut /\ Completes

\* There is a record for every client.
LEMMA RecordsSuffice ==
  ASSUME load \in Loads, NEW u \in UrlIndexes,
         load.urls[u].form \in {"file", "cycle"}
  PROVE  load.urls[u].records \in Nat /\ load.urls[u].records >= load.clients
<1>1. /\ Accepted(load) /\ load.clients \in Nat /\ load.threads \in Nat
      /\ load.urls[u].records \in Nat
  BY LoadFacts, IndexFacts
<1>2. load.urls[u].records >=
        IF load.threads = 0 THEN load.clients ELSE load.threads * load.clients
  BY <1>1 DEF Accepted, UrlIndexes
<1>3. CASE load.threads = 0 BY <1>1, <1>2, <1>3
<1>4. CASE load.threads # 0
  <2>1. load.threads >= 1 BY <1>1, <1>4
  <2>2. load.threads * load.clients >= load.clients
    <3>1. \A m, n \in Nat : (m + 1) * n = m * n + n /\ m * n \in Nat OBVIOUS
    <3>2. load.threads - 1 \in Nat /\ (load.threads - 1) + 1 = load.threads
      BY <1>1, <2>1
    <3>3. /\ ((load.threads - 1) + 1) * load.clients
              = (load.threads - 1) * load.clients + load.clients
          /\ (load.threads - 1) * load.clients \in Nat
      BY <1>1, <3>1, <3>2
    <3>4. load.threads * load.clients
              = (load.threads - 1) * load.clients + load.clients
      BY <3>2, <3>3
    <3>5. QED BY <1>1, <3>3, <3>4
  <2>3. load.threads * load.clients \in Nat BY <1>1
  <2>4. QED BY <1>1, <1>2, <1>4, <2>2, <2>3
<1>5. QED BY <1>3, <1>4

LEMMA HandOver ==
  ASSUME load \in Loads, RequestsOK, NEW c \in Clients, NEW u \in UrlIndexes,
         NEW got, IsRequest(got), handed_over(c, u, got)
  PROVE  /\ \E record \in Int :
              /\ request' = [request EXCEPT ![c] =
                   [url |-> got.url, values |-> got.values, line |-> got.line,
                    record |-> record]]
              /\ load.urls[u].form = "file" => record = c[2]
              /\ load.urls[u].form \in {"random", "cycle"} =>
                   record \in 0 .. load.urls[u].records - 1
         /\ form_index' \in [Threads \X UrlIndexes -> Nat]
         /\ fetching' = fetching \cup {c}
<1> DEFINE url == load.urls[u]
           bu  == <<c[1], u>>
           now == form_index[bu]
<1>1. /\ url.form \in Usages /\ url.records \in Nat
      /\ url.form = "random" => url.records > 0
  BY IndexFacts, LoadFacts
<1>2. url.form \in {"file", "cycle"} => url.records >= load.clients
  BY RecordsSuffice
<1>3. load.clients \in Nat /\ load.clients > 0 /\ c[1] \in Threads
      /\ c[2] \in ClientIndexes /\ c[2] \in Nat
  BY IndexFacts
<1>4. form_index \in [Threads \X UrlIndexes -> Nat] /\ DOMAIN request = Clients
  BY DEF RequestsOK
<1>5. bu \in Threads \X UrlIndexes /\ now \in Nat BY <1>3, <1>4
<1>6. /\ next_form_index(url, now) \in Nat
      /\ url.records > 0 => next_form_index(url, now) < url.records
  BY <1>1, <1>5 DEF next_form_index
<1>7. PICK record \in FormRecords(url, c[2], now) :
        request' = [request EXCEPT ![c] = [got EXCEPT !.record = record]]
  BY DEF handed_over
<1>8. form_index' = IF url.form = "cycle"
                    THEN [form_index EXCEPT ![bu] = next_form_index(url, @)]
                    ELSE form_index
  BY DEF handed_over
<1>9. fetching' = fetching \cup {c} BY DEF handed_over
<1> HIDE DEF now, url
<1>10. /\ record \in Int
       /\ url.form = "file" => record = c[2]
       /\ url.form \in {"random", "cycle"} => record \in 0 .. url.records - 1
  <2>1. CASE url.form = "unique" BY <1>7, <2>1 DEF FormRecords
  <2>2. CASE url.form = "file" BY <1>3, <1>7, <2>2 DEF FormRecords
  <2>3. CASE url.form = "random"
    <3>1. record \in 0 .. url.records - 1 BY <1>7, <2>3 DEF FormRecords
    <3>2. QED BY <1>1, <2>3, <3>1
  <2>4. CASE url.form = "cycle"
    <3>1. record = next_form_index(url, now) BY <1>7, <2>4 DEF FormRecords
    <3>2. url.records > 0 BY <1>1, <1>2, <1>3, <2>4
    <3>3. QED BY <1>1, <1>6, <2>4, <3>1, <3>2
  <2>5. CASE url.form \in {"none", "as_is"}
    <3>1. record = -1 BY <1>7, <2>5 DEF FormRecords
    <3>2. QED BY <2>5, <3>1
  <2>6. QED BY <1>1, <2>1, <2>2, <2>3, <2>4, <2>5 DEF Usages
<1>11. [got EXCEPT !.record = record] =
         [url |-> got.url, values |-> got.values, line |-> got.line,
          record |-> record]
  BY DEF IsRequest
<1>12. form_index' \in [Threads \X UrlIndexes -> Nat]
  <2>1. CASE url.form = "cycle" BY <1>4, <1>5, <1>6, <1>8, <2>1 DEF now
  <2>2. CASE url.form # "cycle" BY <1>4, <1>8, <2>2
  <2>3. QED BY <2>1, <2>2
<1>13. QED BY <1>7, <1>9, <1>10, <1>11, <1>12 DEF url

\* The request of a client is set up for a url.
LEMMA SetUp ==
  ASSUME load \in Loads, Requested, NEW c \in Clients, NEW u \in UrlIndexes,
         Free(c), c \notin fetching, load' = load,
         url_curr_index' = [url_curr_index EXCEPT ![c] = u],
         NEW r, IsRequest(r), Sends(r, c, u),
         DOMAIN request' = Clients, request'[c] = r,
         \A d \in Clients : d # c => request'[d] = request[d],
         fetching' = fetching \cup {c}, lookups' = lookups,
         form_index' \in [Threads \X UrlIndexes -> Nat],
         set_index' \in [Threads \X UrlIndexes -> Int],
         UNCHANGED <<ended, values, previous_type, crashed>>
  PROVE  Requested'
<1>1. /\ ClientIndexes' = ClientIndexes /\ Clients' = Clients
      /\ Threads' = Threads /\ UrlIndexes' = UrlIndexes
  BY DEF ClientIndexes, Clients, Threads, UrlIndexes
<1>2. RequestsOK /\ HandOut /\ Completes BY DEF Requested
<1>3. /\ DOMAIN request = Clients /\ \A d \in Clients : IsRequest(request[d])
      /\ url_curr_index \in [Clients -> UrlIndexes \cup {0}]
      /\ fetching \subseteq Clients
  BY <1>2 DEF RequestsOK
<1>4. /\ DOMAIN request' = Clients /\ request'[c] = r
      /\ \A d \in Clients : d # c => request'[d] = request[d]
  OBVIOUS
<1>5. /\ url_curr_index' \in [Clients -> UrlIndexes \cup {0}]
      /\ url_curr_index'[c] = u
      /\ \A d \in Clients : d # c => url_curr_index'[d] = url_curr_index[d]
  BY <1>3
<1>6. \A d \in Clients : IsRequest(request'[d]) BY <1>3, <1>4
<1>7. RequestsOK' BY <1>1, <1>2, <1>3, <1>4, <1>5, <1>6 DEF RequestsOK, IsRequest
<1>8. ASSUME NEW d \in fetching'
      PROVE  /\ url_curr_index'[d] \in UrlIndexes
             /\ Sends(request'[d], d, url_curr_index'[d])
  <2>1. CASE d = c BY <1>4, <1>5, <2>1
  <2>2. CASE d # c
    <3>1. d \in fetching /\ d \in Clients BY <1>3, <2>2
    <3>2. QED BY <1>2, <1>4, <1>5, <2>2, <3>1 DEF HandOut
  <2>3. QED BY <2>1, <2>2
<1>9. HandOut' BY <1>1, <1>8 DEF HandOut, Sends
<1>10. ASSUME NEW b \in Threads, Busy(b)'
       PROVE  Completing(<<b, lookups[b].index>>)'
  <2> DEFINE d == <<b, lookups[b].index>>
  <2>1. Busy(b) BY <1>10 DEF Busy
  <2>2. Completing(d) BY <1>2, <2>1 DEF Completes
  <2>3. b # c[1] BY <2>1 DEF Free
  <2>4. d[1] = b /\ d' = d OBVIOUS
  <2> HIDE DEF d
  <2>5. d # c BY <2>3, <2>4
  <2>6. /\ d \in Clients /\ d \notin fetching'
        /\ url_curr_index'[d] = url_curr_index[d]
    BY <1>5, <2>2, <2>5 DEF Completing
  <2>7. Url(d)' = Url(d) BY <2>4, <2>6 DEF Url
  <2>8. Completing(d)'
    BY <1>1, <2>2, <2>4, <2>6, <2>7 DEF Completing, is_template
  <2>9. QED BY <2>8 DEF d
<1>11. Completes' BY <1>1, <1>10 DEF Completes
<1>12. QED BY <1>7, <1>9, <1>11 DEF Requested

UrlsInv == QueuesOK /\ Agreement /\ Requested

(***************************************************************************)
(* Setting up a url.                                                       *)
(***************************************************************************)

LEMMA AUrlFacts ==
  ASSUME NEW texts, NEW line \in Int
  PROVE  /\ IsRequest(AUrl(texts, line)) /\ AUrl(texts, line).url = TRUE
         /\ AUrl(texts, line).values = texts /\ AUrl(texts, line).line = line
         /\ IsRequest(NoRequest) /\ NoRequest.url = FALSE
<1> DEFINE S == [url : BOOLEAN, values : {<<>>, texts}, line : Int, record : Int]
<1>1. NoRequest \in S /\ NoRequest.url = FALSE BY DEF NoRequest
<1>2. /\ AUrl(texts, line) \in S /\ AUrl(texts, line).url = TRUE
      /\ AUrl(texts, line).values = texts /\ AUrl(texts, line).line = line
  BY <1>1 DEF AUrl
<1>3. ASSUME NEW r \in S PROVE IsRequest(r) BY DEF IsRequest
<1>4. QED BY <1>1, <1>2, <1>3

\* What SetUp asks of the request, if it is handed over.
LEMMA HandedOverSends ==
  ASSUME load \in Loads, RequestsOK, NEW c \in Clients, NEW u \in UrlIndexes,
         NEW got, IsRequest(got), handed_over(c, u, got),
         (load.urls[u].lines # 0 /\ ~load.urls[u].use_current) =>
           got.line = c[2] % load.urls[u].lines
  PROVE  /\ \E r : /\ IsRequest(r) /\ Sends(r, c, u)
                   /\ r.url = got.url /\ r.values = got.values
                   /\ DOMAIN request' = Clients /\ request'[c] = r
                   /\ \A d \in Clients : d # c => request'[d] = request[d]
         /\ form_index' \in [Threads \X UrlIndexes -> Nat]
         /\ fetching' = fetching \cup {c}
<1>1. PICK record \in Int :
        /\ request' = [request EXCEPT ![c] =
             [url |-> got.url, values |-> got.values, line |-> got.line,
              record |-> record]]
        /\ load.urls[u].form = "file" => record = c[2]
        /\ load.urls[u].form \in {"random", "cycle"} =>
             record \in 0 .. load.urls[u].records - 1
  BY HandOver
<1> DEFINE r == [url |-> got.url, values |-> got.values, line |-> got.line,
                 record |-> record]
<1>2. /\ r.url = got.url /\ r.values = got.values /\ r.line = got.line
      /\ r.record = record
      /\ r = [url |-> r.url, values |-> r.values, line |-> r.line,
              record |-> r.record]
  OBVIOUS
<1>3. DOMAIN request = Clients BY DEF RequestsOK
<1>4. request' = [request EXCEPT ![c] = r] BY <1>1
<1> HIDE DEF r
<1>5. IsRequest(r) BY <1>1, <1>2 DEF IsRequest
<1>6. Sends(r, c, u) BY <1>1, <1>2 DEF Sends
<1>7. /\ DOMAIN request' = Clients /\ request'[c] = r
      /\ \A d \in Clients : d # c => request'[d] = request[d]
  BY <1>3, <1>4
<1>8. /\ form_index' \in [Threads \X UrlIndexes -> Nat]
      /\ fetching' = fetching \cup {c}
  BY HandOver
<1>9. QED BY <1>2, <1>5, <1>6, <1>7, <1>8

\* The keyvals of the url are initialized.
LEMMA Initialized ==
  ASSUME QueuesOK, Agreement, NEW c \in Clients, NEW u \in UrlIndexes,
         initializes(c, u)
  PROVE  QueuesOK' /\ Agreement'
<1> DEFINE i == c[2]
           new == [p \in DOMAIN que_array[i] |-> kv_init(que_array[i][p])]
<1>1. load \in Loads /\ i \in ClientIndexes BY IndexFacts DEF QueuesOK
<1>2. /\ load' = load /\ heard' = [heard EXCEPT ![<<c, u>>] = Nothing]
      /\ que_array' = with_keyvals(c[1], c[2], u, new)
  BY Zenon DEF initializes, picks_up, keyval_init
<1>3. /\ DOMAIN que_array[i] = 1 .. Len(Parsed)
      /\ \A p \in 1 .. Len(Parsed) : que_array[i][p] \in GoodKeyvals
  BY <1>1, QueueFacts
<1>4. ASSUME NEW p \in 1 .. Len(Parsed)
      PROVE  /\ new[p] = kv_init(que_array[i][p])
             /\ Remains(que_array[i][p], new[p]) /\ Agree(new[p], Nothing)
             /\ Nothing \in Histories
  <2> DEFINE k == que_array[i][p]
  <2>1. k \in GoodKeyvals /\ new[p] = kv_init(k) BY <1>3
  <2> HIDE DEF k, new
  <2>2. k.word \in Words BY <2>1 DEF GoodKeyvals, Keyvals
  <2>3. Agree(new[p], Nothing) /\ Nothing \in Histories
    BY <2>1, <2>2, AgreeFresh DEF kv_init
  <2>4. Remains(k, new[p]) BY <2>1, InitRemains
  <2>5. QED BY <2>1, <2>3, <2>4 DEF k
<1>5. Nothing \in Histories BY DEF Nothing, Histories
<1> HIDE DEF new
<1>6. QED BY <1>2, <1>4, <1>5, QueuesChange

LEMMA QueuesStay ==
  ASSUME QueuesOK, Agreement, UNCHANGED <<load, que_array, heard>>
  PROVE  QueuesOK' /\ Agreement'
  BY DEF QueuesOK, Agreement, ClientIndexes, Clients, Threads, UrlIndexes,
         IsQueue, Parsed

LEMMA CurrentKeeps ==
  ASSUME UrlsInv, NEW c \in Clients, NEW u \in UrlIndexes, setup_current(c, u)
  PROVE  UrlsInv'
<1>1. QueuesOK /\ Agreement /\ Requested /\ load \in Loads
  BY DEF UrlsInv, QueuesOK
<1>2. RequestsOK BY <1>1 DEF Requested
<1>3. /\ Free(c) /\ c \notin fetching /\ load' = load
      /\ url_curr_index' = [url_curr_index EXCEPT ![c] = u]
      /\ UNCHANGED <<ended, values, previous_type, crashed>>
      /\ UNCHANGED <<que_array, lookups, set_index, heard>>
      /\ load.urls[u].use_current
  BY DEF setup_current, picks_up
<1>4. /\ set_index \in [Threads \X UrlIndexes -> Int] /\ IsRequest(request[c])
      /\ form_index \in [Threads \X UrlIndexes -> Nat]
      /\ DOMAIN request = Clients
  BY <1>2 DEF RequestsOK
<1>5. QueuesOK' /\ Agreement' BY <1>1, <1>3, QueuesStay
<1>6. Requested'
  <2>1. CASE load.urls[u].form # "none"
    <3>1. handed_over(c, u, request[c]) BY <2>1 DEF setup_current
    <3>2. /\ \E r : /\ IsRequest(r) /\ Sends(r, c, u)
                    /\ DOMAIN request' = Clients /\ request'[c] = r
                    /\ \A d \in Clients : d # c => request'[d] = request[d]
          /\ form_index' \in [Threads \X UrlIndexes -> Nat]
          /\ fetching' = fetching \cup {c}
      BY <1>1, <1>2, <1>3, <1>4, <3>1, HandedOverSends
    <3>3. set_index' \in [Threads \X UrlIndexes -> Int] BY <1>3, <1>4
    <3>4. QED BY <1>1, <1>3, <3>2, <3>3, SetUp
  <2>2. CASE load.urls[u].form = "none"
    <3>1. fetching' = fetching \cup {c} /\ UNCHANGED <<request, form_index>>
      BY <2>2 DEF setup_current
    <3>2. Sends(request[c], c, u) BY <1>3, <2>2 DEF Sends
    <3>3. set_index' \in [Threads \X UrlIndexes -> Int]
          /\ form_index' \in [Threads \X UrlIndexes -> Nat]
          /\ DOMAIN request' = Clients /\ request'[c] = request[c]
          /\ \A d \in Clients : d # c => request'[d] = request[d]
      BY <1>3, <1>4, <3>1
    <3>4. QED BY <1>1, <1>3, <1>4, <3>1, <3>2, <3>3, SetUp
  <2>3. QED BY <2>1, <2>2
<1>7. QED BY <1>5, <1>6 DEF UrlsInv

\* Everything of the picking up that the others share.
LEMMA PicksUp ==
  ASSUME UrlsInv, NEW c \in Clients, NEW u \in UrlIndexes, initializes(c, u)
  PROVE  /\ load \in Loads /\ QueuesOK' /\ Agreement' /\ Requested /\ RequestsOK
         /\ Free(c) /\ c \notin fetching /\ load' = load
         /\ url_curr_index' = [url_curr_index EXCEPT ![c] = u]
         /\ UNCHANGED <<ended, values, previous_type, crashed>>
         /\ ~load.urls[u].use_current
         /\ set_index \in [Threads \X UrlIndexes -> Int]
         /\ form_index \in [Threads \X UrlIndexes -> Nat]
         /\ DOMAIN request = Clients
<1>1. QueuesOK /\ Agreement /\ Requested /\ RequestsOK /\ load \in Loads
  BY DEF UrlsInv, QueuesOK, Requested
<1>2. QueuesOK' /\ Agreement' BY <1>1, Initialized
<1>3. QED BY <1>1, <1>2 DEF initializes, picks_up, RequestsOK

LEMMA PlainKeeps ==
  ASSUME UrlsInv, NEW c \in Clients, NEW u \in UrlIndexes, setup_plain(c, u)
  PROVE  UrlsInv'
<1>1. /\ initializes(c, u) /\ handed_over(c, u, AUrl(<<>>, -1))
      /\ UNCHANGED <<lookups, set_index>> /\ ~is_template(load.urls[u])
  BY DEF setup_plain
<1>2. load.urls[u].lines = 0
  <2>1. Accepted(load) BY <1>1, PicksUp, LoadFacts
  <2>2. QED BY <1>1, <2>1 DEF Accepted, UrlIndexes, is_template
<1>3. IsRequest(AUrl(<<>>, -1))
  <2>1. -1 \in Int OBVIOUS
  <2>2. QED BY <2>1, AUrlFacts
<1>4. load \in Loads /\ RequestsOK BY <1>1, PicksUp
<1>5. /\ \E r : /\ IsRequest(r) /\ Sends(r, c, u)
                /\ DOMAIN request' = Clients /\ request'[c] = r
                /\ \A d \in Clients : d # c => request'[d] = request[d]
      /\ form_index' \in [Threads \X UrlIndexes -> Nat]
      /\ fetching' = fetching \cup {c}
  BY <1>1, <1>2, <1>3, <1>4, HandedOverSends
<1>6. set_index' \in [Threads \X UrlIndexes -> Int] BY <1>1, PicksUp
<1>7. /\ Requested /\ Free(c) /\ c \notin fetching /\ load' = load
      /\ url_curr_index' = [url_curr_index EXCEPT ![c] = u]
      /\ UNCHANGED <<ended, values, previous_type, crashed>>
      /\ QueuesOK' /\ Agreement'
  BY <1>1, PicksUp
<1>8. Requested' BY <1>1, <1>4, <1>5, <1>6, <1>7, SetUp
<1>9. QED BY <1>7, <1>8 DEF UrlsInv

LEMMA LineKeeps ==
  ASSUME UrlsInv, NEW c \in Clients, NEW u \in UrlIndexes,
         pick_url_from_set(c, u)
  PROVE  UrlsInv'
<1> DEFINE line == c[2] % load.urls[u].lines
<1>1. /\ initializes(c, u) /\ load.urls[u].lines # 0
      /\ set_index' = [set_index EXCEPT ![<<c[1], u>>] = line]
      /\ handed_over(c, u, AUrl(<<>>, set_index'[<<c[1], u>>]))
      /\ UNCHANGED lookups
  BY DEF pick_url_from_set
<1>2. /\ load \in Loads /\ RequestsOK
      /\ set_index \in [Threads \X UrlIndexes -> Int]
  BY <1>1, PicksUp
<1>3. /\ <<c[1], u>> \in Threads \X UrlIndexes /\ c[2] \in Nat
      /\ load.urls[u].lines \in Nat
  BY <1>2, IndexFacts, LoadFacts
<1>4. line \in Int BY <1>1, <1>3
<1> HIDE DEF line
<1>5. set_index'[<<c[1], u>>] = line
      /\ set_index' \in [Threads \X UrlIndexes -> Int]
  BY <1>1, <1>2, <1>3, <1>4
<1>6. IsRequest(AUrl(<<>>, line)) /\ AUrl(<<>>, line).line = line
  BY <1>4, AUrlFacts
<1>7. handed_over(c, u, AUrl(<<>>, line)) BY <1>1, <1>5
<1>8. /\ \E r : /\ IsRequest(r) /\ Sends(r, c, u)
                /\ DOMAIN request' = Clients /\ request'[c] = r
                /\ \A d \in Clients : d # c => request'[d] = request[d]
      /\ form_index' \in [Threads \X UrlIndexes -> Nat]
      /\ fetching' = fetching \cup {c}
  BY <1>2, <1>6, <1>7, HandedOverSends DEF line
<1>9. /\ Requested /\ Free(c) /\ c \notin fetching /\ load' = load
      /\ url_curr_index' = [url_curr_index EXCEPT ![c] = u]
      /\ UNCHANGED <<ended, values, previous_type, crashed>>
      /\ QueuesOK' /\ Agreement'
  BY <1>1, PicksUp
<1>10. Requested' BY <1>1, <1>2, <1>5, <1>8, <1>9, SetUp
<1>11. QED BY <1>9, <1>10 DEF UrlsInv

\* A template is another matter: the next step of its thread begins to look up
\* its values, unless there are too few names.
LEMMA TemplateKeeps ==
  ASSUME UrlsInv, NEW c \in Clients, NEW u \in UrlIndexes,
         complete_url_from_response(c, u)
  PROVE  UrlsInv'
<1>1. /\ initializes(c, u) /\ is_template(load.urls[u])
      /\ load.urls[u].lines = 0 /\ UNCHANGED <<set_index, form_index>>
  BY DEF complete_url_from_response
<1>2. /\ load \in Loads /\ RequestsOK /\ Requested /\ Free(c)
      /\ c \notin fetching /\ load' = load
      /\ url_curr_index' = [url_curr_index EXCEPT ![c] = u]
      /\ UNCHANGED <<ended, values, previous_type, crashed>>
      /\ ~load.urls[u].use_current /\ DOMAIN request = Clients
      /\ QueuesOK' /\ Agreement'
  BY <1>1, PicksUp
<1>3. /\ set_index' \in [Threads \X UrlIndexes -> Int]
      /\ form_index' \in [Threads \X UrlIndexes -> Nat]
  BY <1>1, PicksUp
<1>4. /\ ClientIndexes' = ClientIndexes /\ Clients' = Clients
      /\ Threads' = Threads /\ UrlIndexes' = UrlIndexes
  BY <1>2 DEF ClientIndexes, Clients, Threads, UrlIndexes
<1>5. CASE Len(load.urls[u].names) # load.urls[u].cents
  <2>1. handed_over_empty(c) /\ UNCHANGED lookups
    BY <1>5 DEF complete_url_from_response
  <2>2. IsRequest(NoRequest) /\ NoRequest.url = FALSE
    <3>1. 0 \in Int OBVIOUS
    <3>2. QED BY <3>1, AUrlFacts
  <2>3. Sends(NoRequest, c, u) BY <2>2 DEF Sends
  <2>4. /\ DOMAIN request' = Clients /\ request'[c] = NoRequest
        /\ \A d \in Clients : d # c => request'[d] = request[d]
        /\ fetching' = fetching \cup {c}
    BY <1>2, <2>1 DEF handed_over_empty
  <2>5. Requested' BY <1>2, <1>3, <2>1, <2>2, <2>3, <2>4, SetUp
  <2>6. QED BY <1>2, <2>5 DEF UrlsInv
<1>6. CASE Len(load.urls[u].names) = load.urls[u].cents
  <2>1. /\ lookups' = [lookups EXCEPT ![c[1]] = [index |-> c[2], done |-> 0]]
        /\ UNCHANGED <<fetching, request>>
    BY <1>6 DEF complete_url_from_response
  <2>2. c = <<c[1], c[2]>> /\ c[1] \in Threads /\ c[2] \in ClientIndexes
    BY <1>2, IndexFacts
  <2>3. RequestsOK /\ HandOut /\ Completes BY <1>2 DEF Requested
  <2>4. lookups \in [Threads -> [index : ClientIndexes \cup {-1}, done : Nat]]
        /\ url_curr_index \in [Clients -> UrlIndexes \cup {0}]
        /\ fetching \subseteq Clients
    BY <2>3 DEF RequestsOK
  <2>5. /\ lookups' \in [Threads -> [index : ClientIndexes \cup {-1}, done : Nat]]
        /\ lookups'[c[1]].index = c[2] /\ lookups'[c[1]].done = 0
        /\ \A b \in Threads : b # c[1] => lookups'[b] = lookups[b]
    BY <2>1, <2>2, <2>4
  <2>6. /\ url_curr_index' \in [Clients -> UrlIndexes \cup {0}]
        /\ url_curr_index'[c] = u
        /\ \A d \in Clients : d # c => url_curr_index'[d] = url_curr_index[d]
    BY <1>2, <2>4
  <2>7. RequestsOK'
    BY <1>2, <1>3, <1>4, <2>1, <2>3, <2>5, <2>6 DEF RequestsOK, IsRequest
  <2>8. HandOut'
    <3>1. ASSUME NEW d \in fetching
          PROVE  /\ url_curr_index'[d] \in UrlIndexes
                 /\ Sends(request'[d], d, url_curr_index'[d])
      <4>1. d # c /\ d \in Clients BY <1>2, <2>4
      <4>2. QED BY <2>1, <2>3, <2>6, <4>1 DEF HandOut
    <3>2. QED BY <1>2, <1>4, <2>1, <3>1 DEF HandOut, Sends
  <2>9. ASSUME NEW b \in Threads, Busy(b)'
        PROVE  Completing(<<b, lookups[b].index>>)'
    <3> DEFINE d == <<b, lookups'[b].index>>
    <3>1. CASE b = c[1]
      <4>1. <<b, lookups[b].index>>' = c /\ b = c[1] BY <2>2, <2>5, <3>1
      <4>2. load.urls[u].cents \in Nat BY <1>2, LoadFacts, IndexFacts
      <4>3. load'.urls[url_curr_index'[c]] = load.urls[u] BY <1>2, <2>6
      <4>4. /\ c \in Clients' /\ c \notin fetching'
            /\ url_curr_index'[c] \in UrlIndexes'
            /\ lookups'[c[1]].done <= load.urls[u].cents
        BY <1>2, <1>4, <2>1, <2>5, <2>6, <4>2
      <4>5. Completing(<<b, lookups[b].index>>)'
        BY <1>1, <1>2, <1>6, <4>1, <4>3, <4>4 DEF Completing, Url, is_template
      <4>6. QED BY <4>5
    <3>2. CASE b # c[1]
      <4>1. lookups'[b] = lookups[b] BY <2>5, <3>2
      <4>2. Busy(b) BY <1>4, <2>9, <4>1 DEF Busy
      <4>3. Completing(<<b, lookups[b].index>>) BY <2>3, <4>2 DEF Completes
      <4>4. <<b, lookups[b].index>>' = <<b, lookups[b].index>> BY <4>1
      <4> DEFINE e == <<b, lookups[b].index>>
      <4>5. e[1] = b /\ e' = e BY <4>1
      <4> HIDE DEF e
      <4>6. e # c BY <3>2, <4>5
      <4>7. Completing(e) BY <4>3 DEF e
      <4>8. /\ e \in Clients /\ e \notin fetching'
            /\ url_curr_index'[e] = url_curr_index[e]
        BY <2>1, <2>6, <4>6, <4>7 DEF Completing
      <4>9. Url(e)' = Url(e) BY <1>2, <4>5, <4>8 DEF Url
      <4>10. lookups'[e[1]] = lookups[e[1]] BY <4>1, <4>5
      <4>11. Completing(e)'
        BY <1>4, <4>5, <4>7, <4>8, <4>9, <4>10 DEF Completing, is_template
      <4>12. QED BY <4>11 DEF e
    <3>3. QED BY <3>1, <3>2
  <2>10. Completes' BY <1>4, <2>9 DEF Completes
  <2>11. QED BY <1>2, <2>7, <2>8, <2>10 DEF UrlsInv, Requested
<1>7. QED BY <1>5, <1>6

(***************************************************************************)
(* Completing a template.                                                  *)
(***************************************************************************)

\* A template is done with, or given up.
LEMMA Completed ==
  ASSUME load \in Loads, Requested, NEW b \in Threads, Busy(b), load' = load,
         NEW c, c = <<b, lookups[b].index>>,
         NEW r, IsRequest(r), Sends(r, c, url_curr_index[c]),
         DOMAIN request' = Clients, request'[c] = r,
         \A d \in Clients : d # c => request'[d] = request[d],
         fetching' = fetching \cup {c},
         lookups' = [lookups EXCEPT ![b] = NoLookup],
         form_index' \in [Threads \X UrlIndexes -> Nat],
         previous_type' \in [Clients -> {"none", "text", "other"}],
         UNCHANGED <<ended, values, url_curr_index, set_index, crashed>>
  PROVE  Requested'
<1>1. /\ ClientIndexes' = ClientIndexes /\ Clients' = Clients
      /\ Threads' = Threads /\ UrlIndexes' = UrlIndexes
  BY DEF ClientIndexes, Clients, Threads, UrlIndexes
<1>2. RequestsOK /\ HandOut /\ Completes BY DEF Requested
<1>3. Completing(c) BY <1>2 DEF Completes
<1>4. c \in Clients /\ url_curr_index[c] \in UrlIndexes BY <1>3 DEF Completing
<1>5. /\ lookups \in [Threads -> [index : ClientIndexes \cup {-1}, done : Nat]]
      /\ fetching \subseteq Clients /\ \A d \in Clients : IsRequest(request[d])
  BY <1>2 DEF RequestsOK
<1>6. NoLookup \in [index : ClientIndexes \cup {-1}, done : Nat] BY DEF NoLookup
<1>7. /\ lookups' \in [Threads -> [index : ClientIndexes \cup {-1}, done : Nat]]
      /\ lookups'[b] = NoLookup
      /\ \A a \in Threads : a # b => lookups'[a] = lookups[a]
  BY <1>5, <1>6
<1>8. \A d \in Clients : IsRequest(request'[d]) BY <1>5
<1>9. RequestsOK'
  BY <1>1, <1>2, <1>4, <1>5, <1>7, <1>8 DEF RequestsOK, IsRequest
<1>10. HandOut'
  <2>1. ASSUME NEW d \in fetching'
        PROVE  /\ url_curr_index[d] \in UrlIndexes
               /\ Sends(request'[d], d, url_curr_index[d])
    <3>1. CASE d = c BY <1>4, <3>1
    <3>2. CASE d # c
      <4>1. d \in fetching /\ d \in Clients BY <1>5, <3>2
      <4>2. QED BY <1>2, <3>2, <4>1 DEF HandOut
    <3>3. QED BY <3>1, <3>2
  <2>2. QED BY <1>1, <2>1 DEF HandOut, Sends
<1>11. ASSUME NEW a \in Threads, Busy(a)'
       PROVE  Completing(<<a, lookups[a].index>>)'
  <2> DEFINE e == <<a, lookups[a].index>>
  <2>1. a # b BY <1>7, <1>11 DEF Busy, NoLookup
  <2>2. lookups'[a] = lookups[a] BY <1>7, <2>1
  <2>3. Busy(a) BY <1>11, <2>2 DEF Busy
  <2>4. Completing(e) BY <1>2, <2>3 DEF Completes
  <2>5. e[1] = a /\ e' = e /\ c[1] = b BY <2>2
  <2> HIDE DEF e
  <2>6. e \in Clients /\ e \notin fetching' BY <2>1, <2>4, <2>5 DEF Completing
  <2>7. Url(e)' = Url(e) /\ lookups'[e[1]] = lookups[e[1]]
    BY <2>2, <2>5 DEF Url
  <2>8. Completing(e)'
    BY <1>1, <2>4, <2>5, <2>6, <2>7 DEF Completing, is_template
  <2>9. QED BY <2>8 DEF e
<1>12. Completes' BY <1>1, <1>11 DEF Completes
<1>13. QED BY <1>9, <1>10, <1>12 DEF Requested

LEMMA ConstructKeeps ==
  ASSUME UrlsInv, NEW b \in Threads, construct_url(b)
  PROVE  UrlsInv'
<1> DEFINE c == <<b, lookups[b].index>>
           u == url_curr_index[c]
           texts == [n \in 1 .. load.urls[u].cents |->
                       que_array[values[u][n][1]][values[u][n][2]].buf]
<1>1. /\ Busy(b) /\ handed_over(c, u, AUrl(texts, -1))
      /\ previous_type' = [previous_type EXCEPT ![c] = "none"]
      /\ lookups' = [lookups EXCEPT ![b] = NoLookup]
      /\ UNCHANGED <<load, que_array, ended, values, url_curr_index, set_index,
                     crashed, setups, heard>>
  BY Zenon DEF construct_url
<1> HIDE DEF texts, c, u
<1>2. QueuesOK /\ Agreement /\ Requested /\ RequestsOK /\ load \in Loads
  BY DEF UrlsInv, QueuesOK, Requested
<1>3. Completing(c) BY <1>1, <1>2 DEF Requested, Completes, c
<1>4. /\ c \in Clients /\ u \in UrlIndexes /\ load.urls[u].lines = 0
  BY <1>3 DEF Completing, Url, u
<1>5. IsRequest(AUrl(texts, -1))
  <2>1. -1 \in Int OBVIOUS
  <2>2. QED BY <2>1, AUrlFacts
<1>6. /\ \E r : /\ IsRequest(r) /\ Sends(r, c, u)
                /\ DOMAIN request' = Clients /\ request'[c] = r
                /\ \A d \in Clients : d # c => request'[d] = request[d]
      /\ form_index' \in [Threads \X UrlIndexes -> Nat]
      /\ fetching' = fetching \cup {c}
  BY <1>1, <1>2, <1>4, <1>5, HandedOverSends
<1>7. previous_type' \in [Clients -> {"none", "text", "other"}]
  BY <1>1, <1>2 DEF RequestsOK
<1>8. c = <<b, lookups[b].index>> BY DEF c
<1>9. Requested' BY <1>1, <1>2, <1>6, <1>7, <1>8, Completed DEF u
<1>10. QueuesOK' /\ Agreement' BY <1>1, <1>2, QueuesStay
<1>11. QED BY <1>9, <1>10 DEF UrlsInv

LEMMA LookUpKeeps ==
  ASSUME UrlsInv, NEW b \in Threads, LookUp(b)
  PROVE  UrlsInv'
<1> DEFINE i == lookups[b].index
           c == <<b, i>>
           n == lookups[b].done + 1
           u == url_curr_index[c]
           p == keyval_lookup(load.urls[u].names[n], i)
<1>1. /\ Busy(b) /\ n <= load.urls[u].cents
      /\ IF p = 0
         THEN /\ lookups' = [lookups EXCEPT ![b] = NoLookup]
              /\ handed_over_empty(c)
              /\ UNCHANGED values
         ELSE /\ lookups' = [lookups EXCEPT ![b].done = n]
              /\ values' = [values EXCEPT ![u][n] = <<i, p>>]
              /\ UNCHANGED <<fetching, request>>
      /\ UNCHANGED <<load, que_array, ended, url_curr_index, previous_type,
                     set_index, form_index, crashed, setups, heard>>
  BY Zenon DEF LookUp
<1> HIDE DEF p
<1>2. QueuesOK /\ Agreement /\ Requested /\ RequestsOK /\ load \in Loads
      /\ HandOut /\ Completes
  BY DEF UrlsInv, QueuesOK, Requested
<1>3. QueuesOK' /\ Agreement' BY <1>1, <1>2, QueuesStay
<1>4. Completing(c) BY <1>1, <1>2 DEF Completes
<1>5. c \in Clients /\ u \in UrlIndexes BY <1>4 DEF Completing
<1>6. /\ form_index \in [Threads \X UrlIndexes -> Nat]
      /\ previous_type \in [Clients -> {"none", "text", "other"}]
      /\ DOMAIN request = Clients
      /\ lookups \in [Threads -> [index : ClientIndexes \cup {-1}, done : Nat]]
      /\ DOMAIN values = UrlIndexes
      /\ \A v \in UrlIndexes : DOMAIN values[v] = 1 .. load.urls[v].cents
  BY <1>2 DEF RequestsOK
<1>7. CASE p = 0
  <2>1. IsRequest(NoRequest) /\ NoRequest.url = FALSE
    <3>1. 0 \in Int OBVIOUS
    <3>2. QED BY <3>1, AUrlFacts
  <2>2. Sends(NoRequest, c, u) BY <2>1 DEF Sends
  <2>3. /\ DOMAIN request' = Clients /\ request'[c] = NoRequest
        /\ \A d \in Clients : d # c => request'[d] = request[d]
        /\ fetching' = fetching \cup {c}
    BY <1>1, <1>5, <1>6, <1>7 DEF handed_over_empty
  <2>4. /\ lookups' = [lookups EXCEPT ![b] = NoLookup] /\ UNCHANGED values
        /\ form_index' \in [Threads \X UrlIndexes -> Nat]
        /\ previous_type' \in [Clients -> {"none", "text", "other"}]
    BY <1>1, <1>6, <1>7
  <2> HIDE DEF c
  <2>5. c = <<b, lookups[b].index>> BY DEF c
  <2>6. Requested' BY <1>1, <1>2, <2>1, <2>2, <2>3, <2>4, <2>5, Completed
  <2>7. QED BY <1>3, <2>6 DEF UrlsInv
<1>8. CASE p # 0
  <2>1. /\ lookups' = [lookups EXCEPT ![b].done = n]
        /\ values' = [values EXCEPT ![u][n] = <<i, p>>]
        /\ UNCHANGED <<fetching, request>>
    BY <1>1, <1>8
  <2>2. /\ ClientIndexes' = ClientIndexes /\ Clients' = Clients
        /\ Threads' = Threads /\ UrlIndexes' = UrlIndexes
    BY <1>1 DEF ClientIndexes, Clients, Threads, UrlIndexes
  <2>3. n \in Nat BY <1>6
  <2>4. /\ lookups' \in [Threads -> [index : ClientIndexes \cup {-1}, done : Nat]]
        /\ lookups'[b].index = lookups[b].index /\ lookups'[b].done = n
        /\ \A a \in Threads : a # b => lookups'[a] = lookups[a]
    BY <1>6, <2>1, <2>3
  <2>5. /\ DOMAIN values' = UrlIndexes
        /\ \A v \in UrlIndexes : DOMAIN values'[v] = 1 .. load.urls[v].cents
    BY <1>5, <1>6, <2>1
  <2>6. RequestsOK' BY <1>1, <1>2, <2>1, <2>2, <2>4, <2>5
    DEF RequestsOK, IsRequest
  <2>7. HandOut' BY <1>1, <1>2, <2>1, <2>2 DEF HandOut, Sends
  <2>8. ASSUME NEW a \in Threads, Busy(a)'
        PROVE  Completing(<<a, lookups[a].index>>)'
    <3> DEFINE e == <<a, lookups[a].index>>
    <3>1. Busy(a) BY <1>1, <2>4, <2>8 DEF Busy
    <3>2. Completing(e) BY <1>2, <3>1 DEF Completes
    <3>3. e' = e /\ e[1] = a BY <2>4
    <3>4. lookups'[a].done <= Url(e).cents
      <4>1. CASE a = b BY <1>1, <2>4, <4>1 DEF Url
      <4>2. CASE a # b BY <2>4, <3>2, <3>3, <4>2 DEF Completing
      <4>3. QED BY <4>1, <4>2
    <3> HIDE DEF e
    <3>5. Url(e)' = Url(e) BY <1>1, <3>3 DEF Url
    <3>6. Completing(e)'
      BY <2>1, <2>2, <3>2, <3>3, <3>4, <3>5, <1>1 DEF Completing, is_template
    <3>7. QED BY <3>6 DEF e
  <2>9. Completes' BY <2>2, <2>8 DEF Completes
  <2>10. QED BY <1>3, <2>6, <2>7, <2>9 DEF UrlsInv, Requested
<1>9. QED BY <1>7, <1>8

(***************************************************************************)
(* What comes in, ends, or crashes.                                        *)
(***************************************************************************)

\* Nothing is set up.
LEMMA RequestsStay ==
  ASSUME load \in Loads, Requested,
         UNCHANGED <<load, values, lookups, url_curr_index, set_index,
                     form_index, request>>,
         ended' \subseteq Threads, fetching' \subseteq fetching,
         previous_type' \in [Clients -> {"none", "text", "other"}],
         crashed' \in BOOLEAN
  PROVE  Requested'
<1>1. /\ ClientIndexes' = ClientIndexes /\ Clients' = Clients
      /\ Threads' = Threads /\ UrlIndexes' = UrlIndexes
  BY DEF ClientIndexes, Clients, Threads, UrlIndexes
<1>2. RequestsOK /\ HandOut /\ Completes BY DEF Requested
<1>3. RequestsOK' BY <1>1, <1>2 DEF RequestsOK, IsRequest
<1>4. HandOut' BY <1>1, <1>2 DEF HandOut, Sends
<1>5. ASSUME NEW b \in Threads, Busy(b)
      PROVE  Completing(<<b, lookups[b].index>>)'
  <2> DEFINE e == <<b, lookups[b].index>>
  <2>1. Completing(e) BY <1>2, <1>5 DEF Completes
  <2>2. e' = e OBVIOUS
  <2> HIDE DEF e
  <2>3. Url(e)' = Url(e) BY <2>2 DEF Url
  <2>4. Completing(e)' BY <1>1, <2>1, <2>2, <2>3 DEF Completing, is_template
  <2>5. QED BY <2>4 DEF e
<1>6. Completes' BY <1>1, <1>5 DEF Completes, Busy
<1>7. QED BY <1>3, <1>4, <1>6 DEF Requested

LEMMA CrashKeeps ==
  ASSUME UrlsInv, Crash
  PROVE  UrlsInv'
<1>1. QueuesOK /\ Agreement /\ Requested /\ RequestsOK /\ load \in Loads
  BY DEF UrlsInv, QueuesOK, Requested
<1>2. crashed' = TRUE
      /\ UNCHANGED <<load, que_array, ended, values, lookups, url_curr_index,
                     fetching, previous_type, set_index, form_index, request,
                     setups, heard>>
  BY DEF Crash
<1>3. QueuesOK' /\ Agreement' BY <1>1, <1>2, QueuesStay
<1>4. Requested'
  <2>1. /\ ended' \subseteq Threads /\ fetching' \subseteq fetching
        /\ previous_type' \in [Clients -> {"none", "text", "other"}]
        /\ crashed' \in BOOLEAN
    BY <1>1, <1>2 DEF RequestsOK
  <2>2. QED BY <1>1, <1>2, <2>1, RequestsStay
<1>5. QED BY <1>3, <1>4 DEF UrlsInv

LEMMA EndKeeps ==
  ASSUME UrlsInv, NEW b \in Threads, thread_ends(b)
  PROVE  UrlsInv'
<1>1. QueuesOK /\ Agreement /\ Requested /\ RequestsOK /\ load \in Loads
  BY DEF UrlsInv, QueuesOK, Requested
<1>2. /\ ended' = ended \cup {b} /\ fetching' = {c \in fetching : c[1] # b}
      /\ UNCHANGED <<load, que_array, values, lookups, url_curr_index,
                     previous_type, set_index, form_index, request, crashed,
                     setups, heard>>
  BY DEF thread_ends
<1>3. QueuesOK' /\ Agreement' BY <1>1, <1>2, QueuesStay
<1>4. Requested'
  <2>1. /\ ended' \subseteq Threads /\ fetching' \subseteq fetching
        /\ previous_type' \in [Clients -> {"none", "text", "other"}]
        /\ crashed' \in BOOLEAN
    BY <1>1, <1>2 DEF RequestsOK
  <2>2. QED BY <1>1, <1>2, <2>1, RequestsStay
<1>5. QED BY <1>3, <1>4 DEF UrlsInv

LEMMA FetchEndKeeps ==
  ASSUME UrlsInv, NEW c \in Clients, FetchEnds(c)
  PROVE  UrlsInv'
<1>1. QueuesOK /\ Agreement /\ Requested /\ RequestsOK /\ load \in Loads
  BY DEF UrlsInv, QueuesOK, Requested
<1>2. /\ fetching' = fetching \ {c}
      /\ UNCHANGED <<load, que_array, ended, values, lookups, url_curr_index,
                     previous_type, set_index, form_index, request, crashed,
                     setups, heard>>
  BY DEF FetchEnds
<1>3. QueuesOK' /\ Agreement' BY <1>1, <1>2, QueuesStay
<1>4. Requested'
  <2>1. /\ ended' \subseteq Threads /\ fetching' \subseteq fetching
        /\ previous_type' \in [Clients -> {"none", "text", "other"}]
        /\ crashed' \in BOOLEAN
    BY <1>1, <1>2 DEF RequestsOK
  <2>2. QED BY <1>1, <1>2, <2>1, RequestsStay
<1>5. QED BY <1>3, <1>4 DEF UrlsInv

\* The url of a client that scans, and what the client has heard of it.
LEMMA Scanning ==
  ASSUME QueuesOK, Requested, NEW c \in Clients, Scans(c)
  PROVE  /\ url_curr_index[c] \in UrlIndexes
         /\ heard[<<c, url_curr_index[c]>>] \in Histories
         /\ DOMAIN que_array[c[2]] = 1 .. Len(Parsed)
         /\ \A p \in 1 .. Len(Parsed) : que_array[c[2]][p] \in GoodKeyvals
<1>1. c \in fetching BY DEF Scans
<1>2. url_curr_index[c] \in UrlIndexes BY <1>1 DEF Requested, HandOut
<1>3. c[2] \in ClientIndexes BY IndexFacts DEF QueuesOK
<1>4. QED BY <1>2, <1>3, QueueFacts DEF QueuesOK

LEMMA TextAdded ==
  ASSUME NEW h \in Histories, NEW data \in Seq(Chars)
  PROVE  [h EXCEPT !.text = @ \o data] \in Histories
<1> DEFINE h2 == [h EXCEPT !.text = @ \o data]
<1>1. h \in [text : Seq(Chars), cuts : SUBSET Nat]
      /\ \A p \in h.cuts : p \in Nat /\ p <= Len(h.text)
      /\ Len(h.text) \in Nat
  BY HistoryFacts DEF Histories
<1>2. /\ h.text \o data \in Seq(Chars) /\ Len(data) \in Nat
      /\ Len(h.text \o data) = Len(h.text) + Len(data)
  BY <1>1, ConcatProperties
<1>3. h2 \in [text : Seq(Chars), cuts : SUBSET Nat] BY <1>1, <1>2
<1>4. h2.text = h.text \o data /\ h2.cuts = h.cuts BY <1>1
<1> HIDE DEF h2
<1>5. \A p \in h2.cuts : p <= Len(h2.text) BY <1>1, <1>2, <1>4
<1>6. h2 \in Histories BY <1>3, <1>5 DEF Histories
<1>7. QED BY <1>6 DEF h2

LEMMA CutAdded ==
  ASSUME NEW h \in Histories
  PROVE  [h EXCEPT !.cuts = @ \cup {Len(h.text)}] \in Histories
<1> DEFINE h2 == [h EXCEPT !.cuts = @ \cup {Len(h.text)}]
<1>1. h \in [text : Seq(Chars), cuts : SUBSET Nat]
      /\ \A p \in h.cuts : p \in Nat /\ p <= Len(h.text)
      /\ Len(h.text) \in Nat
  BY HistoryFacts DEF Histories
<1>2. h2 \in [text : Seq(Chars), cuts : SUBSET Nat] BY <1>1
<1>3. h2.text = h.text /\ h2.cuts = h.cuts \cup {Len(h.text)} BY <1>1
<1> HIDE DEF h2
<1>4. \A p \in h2.cuts : p <= Len(h2.text) BY <1>1, <1>3
<1>5. h2 \in Histories BY <1>2, <1>4 DEF Histories
<1>6. QED BY <1>5 DEF h2

LEMMA TextKeeps ==
  ASSUME UrlsInv, NEW c \in Clients, TextComes(c)
  PROVE  UrlsInv'
<1> DEFINE u  == url_curr_index[c]
           cu == <<c, u>>
           q  == que_array[c[2]]
<1>1. QueuesOK /\ Agreement /\ Requested /\ RequestsOK /\ load \in Loads
  BY DEF UrlsInv, QueuesOK, Requested
<1>2. PICK data \in load.pieces :
        /\ que_array' = keyval_scan(c[1], c[2], u, data)
        /\ heard' = [heard EXCEPT ![cu].text = @ \o data]
  BY DEF TextComes
<1>3. /\ Scans(c) /\ previous_type' = [previous_type EXCEPT ![c] = "text"]
      /\ UNCHANGED <<load, ended, values, lookups, url_curr_index, fetching,
                     set_index, form_index, request, crashed, setups>>
  BY DEF TextComes
<1>4. /\ u \in UrlIndexes /\ heard[cu] \in Histories
      /\ DOMAIN q = 1 .. Len(Parsed)
      /\ \A p \in 1 .. Len(Parsed) : q[p] \in GoodKeyvals
  BY <1>1, <1>3, Scanning
<1>5. data \in Seq(Chars) BY <1>1, LoadFacts
<1> DEFINE new == [p \in DOMAIN q |-> kv_scan(q[p], data)]
           h   == heard[cu]
           h2  == [h EXCEPT !.text = @ \o data]
<1>6. que_array' = with_keyvals(c[1], c[2], u, new)
  BY <1>2, Zenon DEF keyval_scan
<1>7. heard' = [heard EXCEPT ![cu] = h2] BY <1>2
<1>8. h2 \in Histories
  <2> HIDE DEF h
  <2>1. h \in Histories BY <1>4 DEF h
  <2>2. QED BY <1>5, <2>1, TextAdded
<1>9. ASSUME NEW p \in 1 .. Len(Parsed)
      PROVE  Remains(q[p], new[p]) /\ (Agree(q[p], h) => Agree(new[p], h2))
  <2>1. new[p] = kv_scan(q[p], data) /\ q[p] \in GoodKeyvals BY <1>4
  <2> HIDE DEF q, new
  <2>2. Remains(q[p], new[p]) BY <1>5, <2>1, ScanRemains
  <2>3. ASSUME Agree(q[p], h) PROVE Agree(new[p], h2)
    <3> DEFINE k == q[p]
               l == kv_scan(k, data)
    <3>1. k \in GoodKeyvals /\ h \in Histories /\ Agree(k, h)
      BY <1>4, <2>1, <2>3
    <3>2. h2 = [h EXCEPT !.text = @ \o data] OBVIOUS
    <3> HIDE DEF k, h, h2
    <3>3. Agree(kv_scan(k, data), h2) BY <1>5, <3>1, <3>2, AgreeScan
    <3>4. QED BY <2>1, <3>3 DEF k
  <2>4. QED BY <2>2, <2>3
<1>10. QueuesOK' /\ Agreement'
  <2> HIDE DEF new, h2
  <2>1. QED BY <1>1, <1>3, <1>4, <1>6, <1>7, <1>8, <1>9, QueuesChange
<1>11. Requested'
  <2>1. /\ ended' \subseteq Threads /\ fetching' \subseteq fetching
        /\ previous_type' \in [Clients -> {"none", "text", "other"}]
        /\ crashed' \in BOOLEAN
    BY <1>1, <1>3 DEF RequestsOK
  <2>2. QED BY <1>1, <1>3, <2>1, RequestsStay
<1>12. QED BY <1>10, <1>11 DEF UrlsInv

LEMMA OtherKeeps ==
  ASSUME UrlsInv, NEW c \in Clients, OtherComes(c)
  PROVE  UrlsInv'
<1> DEFINE u  == url_curr_index[c]
           cu == <<c, u>>
           q  == que_array[c[2]]
<1>1. QueuesOK /\ Agreement /\ Requested /\ RequestsOK /\ load \in Loads
  BY DEF UrlsInv, QueuesOK, Requested
<1>2. /\ Scans(c) /\ previous_type' = [previous_type EXCEPT ![c] = "other"]
      /\ UNCHANGED <<load, ended, values, lookups, url_curr_index, fetching,
                     set_index, form_index, request, crashed, setups>>
      /\ \/ /\ que_array' = keyval_flush(c[1], c[2], u)
            /\ heard' = [heard EXCEPT ![cu].cuts = @ \cup {Len(heard[cu].text)}]
         \/ UNCHANGED <<que_array, heard>>
  BY DEF OtherComes
<1>3. /\ u \in UrlIndexes /\ heard[cu] \in Histories
      /\ DOMAIN q = 1 .. Len(Parsed)
      /\ \A p \in 1 .. Len(Parsed) : q[p] \in GoodKeyvals
  BY <1>1, <1>2, Scanning
<1>4. Requested'
  <2>1. /\ ended' \subseteq Threads /\ fetching' \subseteq fetching
        /\ previous_type' \in [Clients -> {"none", "text", "other"}]
        /\ crashed' \in BOOLEAN
    BY <1>1, <1>2 DEF RequestsOK
  <2>2. QED BY <1>1, <1>2, <2>1, RequestsStay
<1>5. CASE /\ que_array' = keyval_flush(c[1], c[2], u)
           /\ heard' = [heard EXCEPT ![cu].cuts = @ \cup {Len(heard[cu].text)}]
  <2> DEFINE new == [p \in DOMAIN q |-> kv_flush(q[p])]
             h   == heard[cu]
             h2  == [h EXCEPT !.cuts = @ \cup {Len(h.text)}]
  <2>1. que_array' = with_keyvals(c[1], c[2], u, new)
    BY <1>5, Zenon DEF keyval_flush
  <2>2. heard' = [heard EXCEPT ![cu] = h2] BY <1>5
  <2>3. h2 \in Histories
    <3> HIDE DEF h
    <3>1. h \in Histories BY <1>3 DEF h
    <3>2. QED BY <3>1, CutAdded
  <2>4. ASSUME NEW p \in 1 .. Len(Parsed)
        PROVE  Remains(q[p], new[p]) /\ (Agree(q[p], h) => Agree(new[p], h2))
    <3>1. new[p] = kv_flush(q[p]) /\ q[p] \in GoodKeyvals BY <1>3
    <3> HIDE DEF q, new
    <3>2. Remains(q[p], new[p]) BY <3>1, FlushRemains
    <3>3. ASSUME Agree(q[p], h) PROVE Agree(new[p], h2)
      <4> DEFINE k == q[p]
      <4>1. k \in GoodKeyvals /\ h \in Histories /\ Agree(k, h)
        BY <1>3, <3>1, <3>3
      <4>2. h2 = [h EXCEPT !.cuts = @ \cup {Len(h.text)}] OBVIOUS
      <4> HIDE DEF k, h, h2
      <4>3. Agree(kv_flush(k), h2) BY <4>1, <4>2, AgreeFlush
      <4>4. QED BY <3>1, <4>3 DEF k
    <3>4. QED BY <3>2, <3>3
  <2>5. QueuesOK' /\ Agreement'
    <3> HIDE DEF new, h2
    <3>1. QED BY <1>1, <1>2, <1>3, <2>1, <2>2, <2>3, <2>4, QueuesChange
  <2>6. QED BY <1>4, <2>5 DEF UrlsInv
<1>6. CASE UNCHANGED <<que_array, heard>>
  <2>1. QueuesOK' /\ Agreement' BY <1>1, <1>2, <1>6, QueuesStay
  <2>2. QED BY <1>4, <2>1 DEF UrlsInv
<1>7. QED BY <1>2, <1>5, <1>6

(***************************************************************************)
(* The invariant, from the initial states on.                              *)
(***************************************************************************)

LEMMA InitHolds ==
  ASSUME Init
  PROVE  UrlsInv
<1>1. load \in Loads BY DEF Init
<1>2. /\ que_array = [i \in ClientIndexes |-> Parsed] /\ ended = {}
      /\ values = [u \in UrlIndexes |->
                     [n \in 1 .. load.urls[u].cents |-> <<0, 0>>]]
      /\ lookups = [b \in Threads |-> NoLookup]
      /\ url_curr_index = [c \in Clients |-> 0] /\ fetching = {}
      /\ previous_type = [c \in Clients |-> "none"]
      /\ set_index = [bu \in Threads \X UrlIndexes |-> -1]
      /\ form_index = [bu \in Threads \X UrlIndexes |-> 0]
      /\ request = [c \in Clients |-> NoRequest] /\ crashed = FALSE
      /\ heard = [cu \in Clients \X UrlIndexes |-> Nothing]
  BY DEF Init, Parsed
<1>3. /\ Parsed \in Seq(GoodKeyvals)
      /\ \A p \in 1 .. Len(Parsed) :
           /\ Parsed[p] \in GoodKeyvals /\ Parsed[p].word \in Words
           /\ Parsed[p].context[2] \in UrlIndexes
           /\ Parsed[p] = kv_create(Parsed[p].context, Parsed[p].word)
  BY <1>1, ParsedFacts
<1>4. Nothing \in Histories BY DEF Nothing, Histories
<1>5. QueuesOK
  <2>1. IsQueue(Parsed) BY <1>3 DEF IsQueue, Remains
  <2>2. QED BY <1>1, <1>2, <1>4, <2>1 DEF QueuesOK
<1>6. Agreement
  <2>1. ASSUME NEW i \in ClientIndexes, NEW p \in 1 .. Len(Parsed)
        PROVE  Agree(que_array[i][p], heard[<<<<0, i>>, Parsed[p].context[2]>>])
    <3>1. que_array[i][p] = kv_create(Parsed[p].context, Parsed[p].word)
      BY <1>2, <1>3
    <3>2. <<<<0, i>>, Parsed[p].context[2]>> \in Clients \X UrlIndexes
      BY <1>1, <1>3, IndexFacts DEF Clients
    <3>3. heard[<<<<0, i>>, Parsed[p].context[2]>>] = Nothing BY <1>2, <3>2
    <3>4. Agree(kv_create(Parsed[p].context, Parsed[p].word), Nothing)
      BY <1>3, AgreeFresh
    <3>5. QED BY <3>1, <3>3, <3>4
  <2>2. QED BY <2>1 DEF Agreement
<1>7. Requested
  <2>1. IsRequest(NoRequest)
    <3>1. 0 \in Int OBVIOUS
    <3>2. QED BY <3>1, AUrlFacts
  <2>2. RequestsOK
    <3>1. NoLookup \in [index : ClientIndexes \cup {-1}, done : Nat]
      BY DEF NoLookup
    <3>2. lookups \in [Threads -> [index : ClientIndexes \cup {-1}, done : Nat]]
      BY <1>2, <3>1
    <3>3. /\ DOMAIN request = Clients
          /\ \A c \in Clients : IsRequest(request[c])
      BY <1>2, <2>1
    <3>4. /\ DOMAIN values = UrlIndexes
          /\ \A u \in UrlIndexes : DOMAIN values[u] = 1 .. load.urls[u].cents
      BY <1>2
    <3>5. /\ ended \subseteq Threads /\ fetching \subseteq Clients
          /\ url_curr_index \in [Clients -> UrlIndexes \cup {0}]
          /\ previous_type \in [Clients -> {"none", "text", "other"}]
          /\ crashed \in BOOLEAN
      BY <1>2
    <3>6. /\ form_index \in [Threads \X UrlIndexes -> Nat]
          /\ set_index \in [Threads \X UrlIndexes -> Int]
      BY <1>2
    <3>7. QED BY <3>2, <3>3, <3>4, <3>5, <3>6 DEF RequestsOK
  <2>3. HandOut BY <1>2 DEF HandOut
  <2>4. Completes BY <1>2 DEF Completes, Busy
  <2>5. QED BY <2>2, <2>3, <2>4 DEF Requested
<1>8. QED BY <1>5, <1>6, <1>7 DEF UrlsInv

LEMMA StepKeeps ==
  ASSUME UrlsInv, [Next]_vars
  PROVE  UrlsInv'
<1>1. ASSUME NEW c \in Clients, setup_url(c) PROVE UrlsInv'
  <2>1. PICK u \in UrlIndexes :
          \/ setup_current(c, u)
          \/ setup_plain(c, u)
          \/ pick_url_from_set(c, u)
          \/ complete_url_from_response(c, u)
    BY <1>1 DEF setup_url
  <2>2. QED BY <2>1, CurrentKeeps, PlainKeeps, LineKeeps, TemplateKeeps
<1>2. ASSUME NEW c \in Clients, setup_crashes(c) PROVE UrlsInv'
  BY <1>2, CrashKeeps DEF setup_crashes
<1>3. ASSUME NEW c \in Clients, scan_crashes(c) PROVE UrlsInv'
  BY <1>3, CrashKeeps DEF scan_crashes
<1>4. ASSUME NEW b \in Threads, lookup_crashes(b) PROVE UrlsInv'
  BY <1>4, CrashKeeps DEF lookup_crashes
<1>5. ASSUME NEW b \in Threads, end_crashes(b) PROVE UrlsInv'
  BY <1>5, CrashKeeps DEF end_crashes
<1>6. CASE UNCHANGED vars
  <2>1. UNCHANGED <<load, que_array, heard>> BY <1>6 DEF vars
  <2>2. QueuesOK' /\ Agreement' BY <2>1, QueuesStay DEF UrlsInv
  <2>3. UNCHANGED <<load, values, lookups, url_curr_index, set_index,
                    form_index, request, ended, fetching, previous_type,
                    crashed>>
    BY <1>6 DEF vars
  <2>4. load \in Loads /\ Requested /\ RequestsOK
    BY DEF UrlsInv, QueuesOK, Requested
  <2>5. /\ ended' \subseteq Threads /\ fetching' \subseteq fetching
        /\ previous_type' \in [Clients -> {"none", "text", "other"}]
        /\ crashed' \in BOOLEAN
    BY <2>3, <2>4 DEF RequestsOK
  <2>6. Requested' BY <2>3, <2>4, <2>5, RequestsStay
  <2>7. QED BY <2>2, <2>6 DEF UrlsInv
<1>7. CASE \E c \in Clients : \/ setup_url(c) \/ setup_crashes(c)
                              \/ TextComes(c) \/ OtherComes(c)
                              \/ scan_crashes(c) \/ FetchEnds(c)
  BY <1>1, <1>2, <1>3, <1>7, TextKeeps, OtherKeeps, FetchEndKeeps
<1>8. CASE \E b \in Threads : \/ LookUp(b) \/ construct_url(b)
                              \/ lookup_crashes(b) \/ thread_ends(b)
                              \/ end_crashes(b)
  BY <1>4, <1>5, <1>8, LookUpKeeps, ConstructKeeps, EndKeeps
<1>9. QED BY <1>6, <1>7, <1>8 DEF Next

LEMMA Throughout == Spec => []UrlsInv
<1>1. Init => UrlsInv BY InitHolds
<1>2. UrlsInv /\ [Next]_vars => UrlsInv' BY StepKeeps
<1>3. QED BY <1>1, <1>2, PTL DEF Spec

\* Through a load the keyvals of every client stay those of the parsed
\* tokens, none has collected more than value[] of struct keyval holds with
\* the 0 that ends it, and indices stay where they may be (scan_for_key and
\* add_to_value of parse_conf.c).
THEOREM UrlsTypeCorrect == Spec => []TypeOK
<1>1. UrlsInv => TypeOK
  <2> SUFFICES ASSUME UrlsInv PROVE TypeOK OBVIOUS
  <2>1. QueuesOK /\ RequestsOK /\ load \in Loads
    BY DEF UrlsInv, Requested, QueuesOK
  <2>2. ASSUME NEW i \in ClientIndexes, NEW p \in DOMAIN que_array[i]
        PROVE  LET k == que_array[i][p] IN
               /\ k.context \in Contexts /\ k.word \in Words
               /\ k.index \in 0 .. Len(k.word)
               /\ k.last_c \in Chars \cup {NoChar}
               /\ Len(k.buf) < VALUE_SIZE
               /\ k.quote \in Quotes \cup {NoChar}
               /\ k.key_found \in BOOLEAN /\ k.value_found \in BOOLEAN
    <3> DEFINE k == que_array[i][p]
    <3>1. p \in 1 .. Len(Parsed) BY <2>1, QueueFacts
    <3>2. k \in GoodKeyvals /\ k.context \in Contexts
      BY <2>1, <3>1, QueueFacts, ParsedFacts
    <3> HIDE DEF k
    <3>3. /\ k.word \in Words /\ k.index \in Nat /\ k.index <= Len(k.word)
          /\ k.last_c \in Chars \cup {NoChar} /\ Len(k.buf) < VALUE_SIZE
          /\ k.quote \in Quotes \cup {NoChar}
          /\ k.key_found \in BOOLEAN /\ k.value_found \in BOOLEAN
      BY <3>2 DEF GoodKeyvals, Keyvals
    <3>4. k.index \in 0 .. Len(k.word) BY <3>3, WordFacts
    <3>5. QED BY <3>2, <3>3, <3>4 DEF k
  <2>3. QED BY <2>1, <2>2 DEF TypeOK, QueuesOK, RequestsOK
<1>2. QED BY <1>1, Throughout, PTL

\* What a keyval has collected is what the text told to the client of that url
\* has for its word, however the text was cut into packets, whatever else came
\* in between, and whatever other urls and clients did (keyval_scan and
\* keyval_flush of parse_conf.c, scan_response of loader.c).
THEOREM ScannedAsHeard == Spec => []ScanSound
<1>1. UrlsInv => ScanSound
  <2> SUFFICES ASSUME UrlsInv PROVE ScanSound OBVIOUS
  <2>1. QueuesOK /\ Agreement /\ load \in Loads BY DEF UrlsInv, QueuesOK
  <2>2. ASSUME NEW i \in ClientIndexes, NEW p \in DOMAIN que_array[i]
        PROVE  LET k == que_array[i][p]
                   h == heard[<<<<0, i>>, k.context[2]>>]
               IN  [value |-> k.buf, all |-> k.value_found] = Heard(k.word, h)
    <3> DEFINE k == que_array[i][p]
               h == heard[<<<<0, i>>, k.context[2]>>]
    <3>1. p \in 1 .. Len(Parsed) BY <2>1, QueueFacts
    <3>2. k \in GoodKeyvals /\ k.context = Parsed[p].context
      BY <2>1, <3>1, QueueFacts
    <3>3. Agree(k, h) BY <2>1, <3>1, <3>2 DEF Agreement
    <3>4. h \in Histories
      <4>1. Parsed[p].context[2] \in UrlIndexes BY <2>1, <3>1, ParsedFacts
      <4>2. <<<<0, i>>, Parsed[p].context[2]>> \in Clients \X UrlIndexes
        BY <2>1, <4>1, IndexFacts DEF Clients
      <4>3. QED BY <2>1, <3>2, <4>2 DEF QueuesOK
    <3> HIDE DEF k, h
    <3>5. [value |-> k.buf, all |-> k.value_found] = Heard(k.word, h)
      BY <3>2, <3>3, <3>4, AgreeHeard
    <3>6. QED BY <3>5 DEF k, h
  <2>3. QED BY <2>2 DEF ScanSound
<1>2. QED BY <1>1, Throughout, PTL

\* Of the clients of a thread that fetch a url no two send the same record of
\* a file of forms, or the same line of a token file that has one for each;
\* records and lines exist (init_client_formed_buffer of loader.c,
\* pick_url_from_set and validate_batch_url of parse_conf.c).
THEOREM NoTwoSendTheSame == Spec => []SentApart
<1>1. UrlsInv => SentApart
  <2> SUFFICES ASSUME UrlsInv PROVE SentApart OBVIOUS
  <2>1. load \in Loads /\ RequestsOK /\ HandOut
    BY DEF UrlsInv, QueuesOK, Requested
  <2>2. ASSUME NEW c \in fetching, NEW d \in fetching, request[c].url
        PROVE  LET url == Url(c) IN
               /\ url.form \in {"file", "random", "cycle"} =>
                    request[c].record \in 0 .. url.records - 1
               /\ (url.lines # 0 /\ ~url.use_current) =>
                    request[c].line \in 0 .. url.lines - 1
               /\ (/\ c # d /\ c[1] = d[1]
                   /\ url_curr_index[c] = url_curr_index[d]
                   /\ request[d].url) =>
                    /\ url.form = "file" =>
                         request[c].record # request[d].record
                    /\ (url.lines >= load.clients /\ ~url.use_current) =>
                         request[c].line # request[d].line
    <3> DEFINE u   == url_curr_index[c]
               url == load.urls[u]
    <3>1. /\ c \in Clients /\ d \in Clients /\ u \in UrlIndexes
          /\ Sends(request[c], c, u) /\ Sends(request[d], d, url_curr_index[d])
      BY <2>1 DEF HandOut, RequestsOK
    <3>2. /\ c[2] \in Nat /\ c[2] < load.clients /\ load.clients \in Nat
          /\ d[2] \in Nat /\ d[2] < load.clients
          /\ c = <<c[1], c[2]>> /\ d = <<d[1], d[2]>>
      BY <2>1, <3>1, IndexFacts
    <3>3. url.lines \in Nat /\ url.records \in Nat
      BY <2>1, <3>1, LoadFacts, IndexFacts
    <3>4. /\ url.form = "file" =>
               request[c].record = c[2] /\ url.records >= load.clients
          /\ url.form \in {"random", "cycle"} =>
               request[c].record \in 0 .. url.records - 1
          /\ (url.lines # 0 /\ ~url.use_current) =>
               request[c].line = c[2] % url.lines
      BY <2>1, <2>2, <3>1, RecordsSuffice DEF Sends
    <3>5. url.form \in {"file", "random", "cycle"} =>
            request[c].record \in 0 .. url.records - 1
      BY <3>2, <3>3, <3>4
    <3>6. url.lines # 0 => c[2] % url.lines \in 0 .. url.lines - 1
      BY <3>2, <3>3
    <3>7. ASSUME c # d, c[1] = d[1], u = url_curr_index[d], request[d].url
          PROVE  /\ url.form = "file" =>
                      request[c].record # request[d].record
                 /\ (url.lines >= load.clients /\ ~url.use_current) =>
                      request[c].line # request[d].line
      <4>1. c[2] # d[2] BY <3>2, <3>7
      <4>2. /\ url.form = "file" => request[d].record = d[2]
            /\ (url.lines # 0 /\ ~url.use_current) =>
                 request[d].line = d[2] % url.lines
        BY <3>1, <3>7 DEF Sends
      <4>3. url.lines >= load.clients =>
              /\ url.lines # 0
              /\ c[2] % url.lines = c[2] /\ d[2] % url.lines = d[2]
        BY <3>2, <3>3
      <4>4. QED BY <3>4, <4>1, <4>2, <4>3
    <3>8. QED BY <3>4, <3>5, <3>6, <3>7 DEF Url
  <2>3. QED BY <2>2, Zenon DEF SentApart
<1>2. QED BY <1>1, Throughout, PTL

(***************************************************************************)
(* What a template is completed with.                                      *)
(***************************************************************************)

\* The place of the first keyval of a word, the same for every client.
IsFirst(q, word, p) ==
  /\ p \in 1 .. Len(q) /\ q[p].word = word
  /\ \A r \in 1 .. Len(q) : q[r].word = word => p <= r

LEMMA LookupIs ==
  ASSUME QueuesOK, NEW i \in ClientIndexes, NEW word
  PROVE  IF keyval_lookup(word, i) = 0
         THEN \A r \in 1 .. Len(Parsed) : Parsed[r].word # word
         ELSE IsFirst(Parsed, word, keyval_lookup(word, i))
<1> DEFINE q == que_array[i]
           I == {r \in 1 .. Len(q) : q[r].word = word}
<1>1. /\ Len(Parsed) \in Nat /\ Len(q) = Len(Parsed)
      /\ \A r \in 1 .. Len(Parsed) : q[r].word = Parsed[r].word
  BY ParsedFacts, QueueFacts DEF QueuesOK, IsQueue
<1>2. keyval_lookup(word, i) = IF I # {} THEN Min(I) ELSE 0
  BY Zenon DEF keyval_lookup, SelectInSeq
<1>3. I \subseteq 1 .. Len(Parsed) /\ I \subseteq Nat
      /\ \A r \in 1 .. Len(Parsed) : r \in I <=> Parsed[r].word = word
  BY <1>1
<1> HIDE DEF I
<1>4. CASE I = {} BY <1>2, <1>3, <1>4
<1>5. CASE I # {}
  <2>1. PICK n \in I : \A m \in I : n <= m BY <1>3, <1>5, SmallestOfNats
  <2>2. Min(I) \in I /\ \A m \in I : Min(I) =< m BY <2>1, Zenon DEF Min
  <2>3. Min(I) # 0 BY <1>1, <1>3, <2>2
  <2>4. IsFirst(Parsed, word, Min(I)) BY <1>3, <2>2 DEF IsFirst
  <2>5. QED BY <1>2, <1>5, <2>3, <2>4
<1>6. QED BY <1>4, <1>5

\* Without -t, or with one client in a thread, what is looked up is found at
\* that place, and no other thread puts anything else there.
Undisturbed == load.threads = 0 \/ load.clients = 1

FoundFirst(b) ==
  LET i == lookups[b].index
      u == url_curr_index[<<b, i>>]
  IN  \A n \in 1 .. lookups[b].done :
        \E p : IsFirst(Parsed, load.urls[u].names[n], p) /\ values[u][n] = <<i, p>>

Found == Undisturbed => \A b \in Threads : Busy(b) => FoundFirst(b)

\* Nothing is looked up, though a template may be begun, or be done with.
LEMMA FoundRemains ==
  ASSUME RequestsOK, Found, UNCHANGED <<load, values>>,
         \A b \in Threads :
           \/ ~Busy(b)'
           \/ lookups'[b].done = 0
           \/ /\ lookups'[b] = lookups[b]
              /\ url_curr_index'[<<b, lookups[b].index>>]
                   = url_curr_index[<<b, lookups[b].index>>]
  PROVE  Found'
<1>1. Threads' = Threads BY DEF Threads
<1>2. SUFFICES ASSUME Undisturbed, NEW b \in Threads, Busy(b)'
               PROVE  FoundFirst(b)'
  BY <1>1 DEF Found, Undisturbed
<1>3. CASE lookups'[b].done = 0 BY <1>3 DEF FoundFirst
<1>4. CASE /\ lookups'[b] = lookups[b]
           /\ url_curr_index'[<<b, lookups[b].index>>]
                = url_curr_index[<<b, lookups[b].index>>]
  <2>1. Busy(b) BY <1>2, <1>4 DEF Busy
  <2>2. FoundFirst(b) BY <1>2, <2>1 DEF Found
  <2> DEFINE i == lookups[b].index
             u == url_curr_index[<<b, i>>]
  <2>3. /\ lookups'[b].index = i /\ lookups'[b].done = lookups[b].done
        /\ url_curr_index'[<<b, i>>] = u
    BY <1>4
  <2>4. \A n \in 1 .. lookups[b].done :
          \E p : IsFirst(Parsed, load.urls[u].names[n], p) /\ values[u][n] = <<i, p>>
    BY <2>2, Zenon DEF FoundFirst
  <2>5. Parsed' = Parsed BY DEF Parsed
  <2> HIDE DEF i, u
  <2>6. \A n \in 1 .. lookups'[b].done :
          \E p : /\ IsFirst(Parsed', load'.urls[u].names[n], p)
                 /\ values'[u][n] = <<i, p>>
    BY <2>3, <2>4, <2>5
  <2>7. FoundFirst(b)' BY <2>3, <2>6, Zenon DEF FoundFirst
  <2>8. QED BY <2>7
<1>5. QED BY <1>2, <1>3, <1>4

\* A url is picked up by a client of a thread that completes nothing.
LEMMA FoundPickedUp ==
  ASSUME UrlsInv, Found, NEW c \in Clients, NEW u \in UrlIndexes,
         picks_up(c, u),
         \/ lookups' = lookups
         \/ lookups' = [lookups EXCEPT ![c[1]] = [index |-> c[2], done |-> 0]]
  PROVE  Found' /\ \A b \in Threads : Busy(b) => lookups'[b] = lookups[b]
<1>1. load \in Loads /\ RequestsOK BY DEF UrlsInv, QueuesOK, Requested
<1>2. /\ Free(c) /\ url_curr_index' = [url_curr_index EXCEPT ![c] = u]
      /\ UNCHANGED <<load, values>>
  BY DEF picks_up
<1>3. /\ lookups \in [Threads -> [index : ClientIndexes \cup {-1}, done : Nat]]
      /\ url_curr_index \in [Clients -> UrlIndexes \cup {0}] /\ Threads' = Threads
  BY <1>1, <1>2 DEF RequestsOK, Threads
<1>4. ~Busy(c[1]) /\ c[1] \in Threads BY <1>1, <1>2, IndexFacts DEF Free
<1>5. ASSUME NEW b \in Threads, b # c[1]
      PROVE  /\ lookups'[b] = lookups[b]
             /\ url_curr_index'[<<b, lookups[b].index>>]
                  = url_curr_index[<<b, lookups[b].index>>]
  <2>1. lookups'[b] = lookups[b] BY <1>3, <1>5
  <2> DEFINE d == <<b, lookups[b].index>>
  <2>2. d # c BY <1>5
  <2> HIDE DEF d
  <2>3. url_curr_index'[d] = url_curr_index[d] BY <1>2, <1>3, <2>2
  <2>4. QED BY <2>1, <2>3 DEF d
<1>6. ~Busy(c[1])' \/ lookups'[c[1]].done = 0
  <2>1. CASE lookups' = lookups BY <1>4, <2>1 DEF Busy
  <2>2. CASE lookups' = [lookups EXCEPT ![c[1]] = [index |-> c[2], done |-> 0]]
    BY <1>3, <1>4, <2>2
  <2>3. QED BY <2>1, <2>2
<1>7. ASSUME NEW b \in Threads
      PROVE  \/ ~Busy(b)'
             \/ lookups'[b].done = 0
             \/ /\ lookups'[b] = lookups[b]
                /\ url_curr_index'[<<b, lookups[b].index>>]
                     = url_curr_index[<<b, lookups[b].index>>]
  <2>1. CASE b = c[1] BY <1>6, <2>1
  <2>2. CASE b # c[1] BY <1>5, <2>2
  <2>3. QED BY <2>1, <2>2
<1>8. Found' BY <1>1, <1>2, <1>7, FoundRemains
<1>9. QED BY <1>4, <1>5, <1>8

\* A template is done with, or given up.
LEMMA FoundDone ==
  ASSUME RequestsOK, Found, NEW b \in Threads,
         lookups' = [lookups EXCEPT ![b] = NoLookup],
         UNCHANGED <<load, values, url_curr_index>>
  PROVE  Found' /\ \A a \in Threads : a # b => lookups'[a] = lookups[a]
<1>1. lookups \in [Threads -> [index : ClientIndexes \cup {-1}, done : Nat]]
  BY DEF RequestsOK
<1>2. Threads' = Threads BY DEF Threads
<1>3. ~Busy(b)' BY <1>1 DEF Busy
<1>4. \A a \in Threads : a # b => lookups'[a] = lookups[a] BY <1>1
<1>5. QED BY <1>3, <1>4, FoundRemains

\* One more value of the template is found.
Advances(b, i, n, u) ==
  /\ lookups[b].index = i /\ n = lookups[b].done + 1
  /\ url_curr_index[<<b, i>>] = u /\ n <= load.urls[u].cents
  /\ lookups'[b].index = i /\ lookups'[b].done = n
  /\ \A a \in Threads : a # b => lookups'[a] = lookups[a]

Stores(u, n, value) ==
  /\ values'[u][n] = value
  /\ \A v \in UrlIndexes : \A m \in 1 .. load.urls[v].cents :
       (v # u \/ m # n) => values'[v][m] = values[v][m]

LEMMA FoundNext ==
  ASSUME UrlsInv, Found, NEW b \in Threads, Busy(b), NEW i, NEW n, NEW u, NEW p,
         Advances(b, i, n, u), Stores(u, n, <<i, p>>),
         p = keyval_lookup(load.urls[u].names[n], i), p # 0,
         UNCHANGED <<load, que_array, url_curr_index>>
  PROVE  Found' /\ lookups'[b] # NoLookup
<1>1. QueuesOK /\ RequestsOK /\ Completes /\ load \in Loads
  BY DEF UrlsInv, QueuesOK, Requested
<1>2. lookups \in [Threads -> [index : ClientIndexes \cup {-1}, done : Nat]]
  BY <1>1 DEF RequestsOK
<1>3. /\ lookups[b].index = i /\ n = lookups[b].done + 1
      /\ lookups'[b].index = i /\ lookups'[b].done = n
      /\ \A a \in Threads : a # b => lookups'[a] = lookups[a]
      /\ url_curr_index[<<b, i>>] = u
  BY DEF Advances
<1>4. n \in Nat /\ n > 0 /\ lookups[b].done \in Nat BY <1>2, <1>3
<1>5. Completing(<<b, i>>) BY <1>1, <1>3 DEF Completes
<1>6. u \in UrlIndexes /\ <<b, i>> \in Clients BY <1>3, <1>5 DEF Completing
<1>7. i \in ClientIndexes BY <1>6 DEF Clients
<1>8. IsFirst(Parsed, load.urls[u].names[n], p) BY <1>1, <1>7, LookupIs
<1>9. /\ values'[u][n] = <<i, p>>
      /\ \A v \in UrlIndexes : \A m \in 1 .. load.urls[v].cents :
           (v # u \/ m # n) => values'[v][m] = values[v][m]
  BY DEF Stores
<1>10. ASSUME Undisturbed, NEW a \in Threads, Busy(a)'
       PROVE  FoundFirst(a)'
  <2> DEFINE j == lookups[a].index
             v == url_curr_index[<<a, j>>]
  <2>1. lookups'[a].index = j BY <1>3
  <2>2. Busy(a) BY <1>3, <1>10 DEF Busy
  <2>3. FoundFirst(a) BY <1>10, <2>2 DEF Found
  <2>4. Completing(<<a, j>>) BY <1>1, <2>2 DEF Completes
  <2>5. v \in UrlIndexes /\ j \in ClientIndexes
    BY <2>4 DEF Completing, Clients
  <2>6. i = j
    <3>1. CASE load.threads = 0
      <4>1. a = b BY <3>1 DEF Threads
      <4>2. QED BY <1>3, <4>1
    <3>2. CASE load.clients = 1
      <4>1. ClientIndexes = {0} BY <3>2 DEF ClientIndexes
      <4>2. QED BY <1>7, <2>5, <4>1
    <3>3. QED BY <1>10, <3>1, <3>2 DEF Undisturbed
  <2>7. ASSUME NEW m \in 1 .. lookups'[a].done
        PROVE  \E r : /\ IsFirst(Parsed, load.urls[v].names[m], r)
                      /\ values'[v][m] = <<j, r>>
    <3>1. CASE v = u /\ m = n BY <1>8, <1>9, <2>6, <3>1
    <3>2. CASE v # u \/ m # n
      <4>2. m \in 1 .. lookups[a].done
        <5>1. CASE a # b BY <1>3, <2>7, <5>1
        <5>2. CASE a = b
          <6>1. v = u BY <1>3, <2>6, <5>2
          <6>2. m # n BY <3>2, <6>1
          <6>3. /\ lookups'[a].done = lookups[a].done + 1
                /\ n = lookups[a].done + 1 /\ lookups[a].done \in Nat
            BY <1>3, <1>4, <5>2
          <6>4. QED BY <2>7, <6>2, <6>3
        <5>3. QED BY <5>1, <5>2
      <4>3. m \in 1 .. load.urls[v].cents
        <5>1. /\ lookups[a].done \in Nat /\ load.urls[v].cents \in Nat
              /\ lookups[a].done <= load.urls[v].cents
          BY <1>1, <1>2, <2>4, <2>5, LoadFacts, IndexFacts
             DEF Completing, Url
        <5>2. QED BY <4>2, <5>1
      <4>4. values'[v][m] = values[v][m] BY <1>9, <2>5, <3>2, <4>3
      <4>5. QED BY <2>3, <4>2, <4>4 DEF FoundFirst
    <3>3. QED BY <3>1, <3>2
  <2>8. Parsed' = Parsed BY DEF Parsed
  <2> HIDE DEF j, v
  <2>9. url_curr_index'[<<a, j>>] = v BY DEF v
  <2>10. \A m \in 1 .. lookups'[a].done :
           \E r : /\ IsFirst(Parsed', load'.urls[v].names[m], r)
                  /\ values'[v][m] = <<j, r>>
    BY <2>7, <2>8
  <2>11. QED BY <2>1, <2>9, <2>10, Zenon DEF FoundFirst
<1>11. Threads' = Threads BY DEF Threads
<1>12. Found' BY <1>10, <1>11 DEF Found, Undisturbed
<1>13. lookups'[b] # NoLookup BY <1>3, <1>4 DEF NoLookup
<1>14. QED BY <1>12, <1>13

LEMMA LookUpFinds ==
  ASSUME UrlsInv, Found, NEW b \in Threads, LookUp(b)
  PROVE  /\ Found'
         /\ \A a \in Threads : a # b => lookups'[a] = lookups[a]
         /\ lookups'[b] = NoLookup =>
              LET c == <<b, lookups[b].index>> IN
              /\ c \in fetching' /\ ~request'[c].url
              /\ \E n \in DOMAIN Url(c).names : \A r \in 1 .. Len(Parsed) :
                   Parsed[r].word # Url(c).names[n]
<1> DEFINE i == lookups[b].index
           c == <<b, i>>
           n == lookups[b].done + 1
           u == url_curr_index[c]
           p == keyval_lookup(load.urls[u].names[n], i)
<1>1. /\ Busy(b) /\ n <= load.urls[u].cents
      /\ IF p = 0
         THEN /\ lookups' = [lookups EXCEPT ![b] = NoLookup]
              /\ handed_over_empty(c)
              /\ UNCHANGED values
         ELSE /\ lookups' = [lookups EXCEPT ![b].done = n]
              /\ values' = [values EXCEPT ![u][n] = <<i, p>>]
              /\ UNCHANGED <<fetching, request>>
      /\ UNCHANGED <<load, que_array, url_curr_index>>
  BY Zenon DEF LookUp
<1> HIDE DEF p
<1>2. QueuesOK /\ RequestsOK /\ Completes /\ load \in Loads
  BY DEF UrlsInv, QueuesOK, Requested
<1>3. Completing(c) BY <1>1, <1>2 DEF Completes
<1>4. /\ c \in Clients /\ u \in UrlIndexes /\ i \in ClientIndexes
      /\ Len(load.urls[u].names) = load.urls[u].cents
  BY <1>3 DEF Completing, Clients, Url
<1>5. /\ lookups \in [Threads -> [index : ClientIndexes \cup {-1}, done : Nat]]
      /\ DOMAIN request = Clients /\ DOMAIN values = UrlIndexes
      /\ \A v \in UrlIndexes : DOMAIN values[v] = 1 .. load.urls[v].cents
  BY <1>2 DEF RequestsOK
<1>6. n \in Nat /\ n > 0 BY <1>5
<1>7. /\ n \in 1 .. load.urls[u].cents
      /\ DOMAIN load.urls[u].names = 1 .. load.urls[u].cents
  <2>1. load.urls[u].cents \in Nat /\ load.urls[u].names \in Seq(Words)
    BY <1>2, <1>4, LoadFacts, IndexFacts
  <2>2. n <= load.urls[u].cents BY <1>1
  <2> HIDE DEF n, u
  <2>3. QED BY <1>4, <1>6, <2>1, <2>2
<1>8. CASE p = 0
  <2>1. lookups' = [lookups EXCEPT ![b] = NoLookup] /\ UNCHANGED values
        /\ handed_over_empty(c)
    BY <1>1, <1>8
  <2>2. Found' /\ \A a \in Threads : a # b => lookups'[a] = lookups[a]
    BY <1>1, <1>2, <2>1, FoundDone
  <2>3. c \in fetching' /\ request'[c] = NoRequest
    BY <1>4, <1>5, <2>1 DEF handed_over_empty
  <2>4. ~request'[c].url BY <2>3 DEF NoRequest
  <2>5. \A r \in 1 .. Len(Parsed) : Parsed[r].word # load.urls[u].names[n]
    BY <1>2, <1>4, <1>8, LookupIs DEF p
  <2>6. QED BY <1>7, <2>2, <2>3, <2>4, <2>5 DEF Url
<1>9. CASE p # 0
  <2>1. /\ lookups' = [lookups EXCEPT ![b].done = n]
        /\ values' = [values EXCEPT ![u][n] = <<i, p>>]
    BY <1>1, <1>9
  <2>2. /\ lookups'[b].index = i /\ lookups'[b].done = n
        /\ \A a \in Threads : a # b => lookups'[a] = lookups[a]
    BY <1>5, <2>1
  <2>3. Advances(b, i, n, u) BY <1>1, <2>2 DEF Advances
  <2>4. Stores(u, n, <<i, p>>)
    <3> DEFINE v0 == <<i, p>>
    <3>1. values' = [values EXCEPT ![u][n] = v0] BY <2>1
    <3> HIDE DEF v0, n, u
    <3>2. values'[u] = [values[u] EXCEPT ![n] = v0]
          /\ \A v \in UrlIndexes : v # u => values'[v] = values[v]
      BY <1>4, <1>5, <3>1
    <3>3. n \in DOMAIN values[u] BY <1>4, <1>5, <1>7
    <3>4. values'[u][n] = v0 BY <3>2, <3>3
    <3>5. ASSUME NEW v \in UrlIndexes, NEW m \in 1 .. load.urls[v].cents,
                 v # u \/ m # n
          PROVE  values'[v][m] = values[v][m]
      <4>1. CASE v # u BY <3>2, <4>1
      <4>2. CASE v = u /\ m # n
        <5>1. values'[u] = [values[u] EXCEPT ![n] = v0] BY <3>2
        <5>2. m \in DOMAIN values[u] BY <1>5, <3>5, <4>2
        <5>3. QED BY <4>2, <5>1, <5>2
      <4>3. QED BY <3>5, <4>1, <4>2
    <3>6. Stores(u, n, v0) BY <3>4, <3>5 DEF Stores
    <3>7. QED BY <3>6 DEF v0
  <2>5. p = keyval_lookup(load.urls[u].names[n], i) BY DEF p
  <2> HIDE DEF i, n, u
  <2>6. Found' /\ lookups'[b] # NoLookup
    BY <1>1, <1>9, <2>3, <2>4, <2>5, FoundNext
  <2>7. QED BY <2>2, <2>6
<1>10. QED BY <1>8, <1>9

LEMMA ConstructHands ==
  ASSUME UrlsInv, Found, NEW b \in Threads, construct_url(b)
  PROVE  /\ Found'
         /\ \A a \in Threads : a # b => lookups'[a] = lookups[a]
         /\ LET c == <<b, lookups[b].index>>
                u == url_curr_index[c]
            IN  /\ Busy(b) /\ lookups[b].done = load.urls[u].cents
                /\ c \in fetching'
                /\ request'[c].values =
                     [n \in 1 .. load.urls[u].cents |->
                        que_array[values[u][n][1]][values[u][n][2]].buf]
<1> DEFINE c == <<b, lookups[b].index>>
           u == url_curr_index[c]
           texts == [n \in 1 .. load.urls[u].cents |->
                       que_array[values[u][n][1]][values[u][n][2]].buf]
<1>1. /\ Busy(b) /\ handed_over(c, u, AUrl(texts, -1))
      /\ lookups[b].done = load.urls[u].cents
      /\ lookups' = [lookups EXCEPT ![b] = NoLookup]
      /\ UNCHANGED <<load, values, url_curr_index>>
  BY Zenon DEF construct_url
<1> HIDE DEF texts, c, u
<1>2. RequestsOK /\ Completes /\ load \in Loads
  BY DEF UrlsInv, QueuesOK, Requested
<1>3. Completing(c) BY <1>1, <1>2 DEF Completes, c
<1>4. /\ c \in Clients /\ u \in UrlIndexes /\ load.urls[u].lines = 0
  BY <1>3 DEF Completing, Url, u
<1>5. IsRequest(AUrl(texts, -1)) /\ AUrl(texts, -1).values = texts
  <2>1. -1 \in Int OBVIOUS
  <2>2. QED BY <2>1, AUrlFacts
<1>6. /\ \E r : r.values = AUrl(texts, -1).values /\ request'[c] = r
      /\ fetching' = fetching \cup {c}
  BY <1>1, <1>2, <1>4, <1>5, HandedOverSends
<1>7. request'[c].values = texts /\ c \in fetching' BY <1>5, <1>6
<1>8. Found' /\ \A a \in Threads : a # b => lookups'[a] = lookups[a]
  BY <1>1, <1>2, FoundDone
<1>9. QED BY <1>1, <1>7, <1>8, Zenon DEF texts, c, u

\* All other steps leave what is being completed as it is.
LEMMA FoundElse ==
  ASSUME UrlsInv, Found, [Next]_vars,
         \A b \in Threads : ~LookUp(b) /\ ~construct_url(b)
  PROVE  Found' /\ \A b \in Threads : Busy(b) => lookups'[b] = lookups[b]
<1>1. RequestsOK BY DEF UrlsInv, Requested
<1>2. CASE UNCHANGED <<load, values, lookups, url_curr_index>>
  BY <1>1, <1>2, FoundRemains
<1>3. ASSUME NEW c \in Clients, setup_url(c)
      PROVE  Found' /\ \A b \in Threads : Busy(b) => lookups'[b] = lookups[b]
  <2>1. PICK u \in UrlIndexes :
          \/ setup_current(c, u)
          \/ setup_plain(c, u)
          \/ pick_url_from_set(c, u)
          \/ complete_url_from_response(c, u)
    BY <1>3 DEF setup_url
  <2>2. picks_up(c, u)
    BY <2>1 DEF setup_current, setup_plain, pick_url_from_set,
                complete_url_from_response, initializes
  <2>3. \/ lookups' = lookups
        \/ lookups' = [lookups EXCEPT ![c[1]] = [index |-> c[2], done |-> 0]]
    BY <2>1 DEF setup_current, setup_plain, pick_url_from_set,
                complete_url_from_response
  <2>4. QED BY <2>2, <2>3, FoundPickedUp
<1>4. CASE UNCHANGED vars BY <1>2, <1>4 DEF vars
<1>5. ASSUME Crash PROVE UNCHANGED <<load, values, lookups, url_curr_index>>
  BY <1>5 DEF Crash
<1>6. CASE \E c \in Clients : \/ setup_crashes(c) \/ TextComes(c)
                              \/ OtherComes(c) \/ scan_crashes(c)
                              \/ FetchEnds(c)
  <2>1. UNCHANGED <<load, values, lookups, url_curr_index>>
    BY <1>5, <1>6 DEF setup_crashes, TextComes, OtherComes, scan_crashes,
                      FetchEnds
  <2>2. QED BY <1>2, <2>1
<1>7. CASE \E b \in Threads : \/ lookup_crashes(b) \/ thread_ends(b)
                              \/ end_crashes(b)
  <2>1. UNCHANGED <<load, values, lookups, url_curr_index>>
    BY <1>5, <1>7 DEF lookup_crashes, thread_ends, end_crashes
  <2>2. QED BY <1>2, <2>1
<1>8. QED BY <1>3, <1>4, <1>6, <1>7 DEF Next

\* The first keyval of a word is of the first url that has the token.
LEMMA FirstDeclares ==
  ASSUME load \in Loads, NEW word, NEW p, IsFirst(Parsed, word, p)
  PROVE  /\ Declaring(word) = Parsed[p].context[2]
         /\ Parsed[p].context[2] \in UrlIndexes
         /\ Contains(load.urls[Parsed[p].context[2]].tokens, word)
<1> DEFINE m == Len(load.urls)
           S == {u \in UrlIndexes : Contains(load.urls[u].tokens, word)}
           s == Parsed[p].context[2]
<1>1. /\ p \in 1 .. Len(Parsed) /\ Parsed[p].word = word
      /\ \A r \in 1 .. Len(Parsed) : Parsed[r].word = word => p <= r
  BY DEF IsFirst
<1>2. AreTokens(load, Parsed, m) BY ParsedTokens DEF Parsed
<1>3. PICK u \in 1 .. m : \E t \in Tokens(load, u) :
        Parsed[p] = TokenOf(load, u, t)
  BY <1>1, <1>2 DEF AreTokens
<1>4. PICK t \in Tokens(load, u) : Parsed[p] = TokenOf(load, u, t) BY <1>3
<1>5. /\ UrlIndexes = 1 .. m /\ UrlIndexes = UrlsOf(load)
      /\ UrlIndexes \subseteq Nat
  BY IndexFacts
<1>6. Parsed[p].context = <<0, u>> /\ load.urls[u].tokens[t] = word
  BY <1>1, <1>3, <1>4, <1>5, TokenFacts
<1>7. s = u /\ s \in UrlIndexes BY <1>5, <1>6
<1>8. Contains(load.urls[s].tokens, word)
  BY <1>4, <1>6, <1>7 DEF Contains, Tokens
<1>9. ASSUME NEW v \in S PROVE s <= v
  <2>1. PICK x \in 1 .. Len(load.urls[v].tokens) :
          load.urls[v].tokens[x] = word
    BY <1>9 DEF Contains
  <2>2. v \in 1 .. m /\ x \in Tokens(load, v)
    BY <1>5, <1>9, <2>1 DEF Tokens
  <2>3. PICK r \in 1 .. Len(Parsed) : Parsed[r] = TokenOf(load, v, x)
    BY <1>2, <2>2 DEF AreTokens
  <2>4. Parsed[r].word = word /\ Parsed[r].context = <<0, v>>
    BY <1>5, <2>1, <2>2, <2>3, TokenFacts
  <2>5. p <= r BY <1>1, <2>4
  <2>6. Parsed[p].context[2] <= Parsed[r].context[2]
    BY <1>1, <1>2, <2>5 DEF AreTokens
  <2>7. QED BY <2>4, <2>6
<1>10. S \in SUBSET Nat /\ s \in S BY <1>5, <1>7, <1>8
<1> HIDE DEF s, S
<1>11. Least(S) = s BY <1>9, <1>10, LeastIs
<1>12. QED BY <1>7, <1>8, <1>11 DEF s, S, Declaring

\* A word that no keyval has is no token.
LEMMA NoneDeclares ==
  ASSUME load \in Loads, NEW word,
         \A r \in 1 .. Len(Parsed) : Parsed[r].word # word,
         NEW u \in UrlIndexes
  PROVE  ~Contains(load.urls[u].tokens, word)
<1>1. SUFFICES ASSUME NEW x \in 1 .. Len(load.urls[u].tokens),
                      load.urls[u].tokens[x] = word
               PROVE  FALSE
  BY DEF Contains
<1>2. AreTokens(load, Parsed, Len(load.urls)) BY ParsedTokens DEF Parsed
<1>3. /\ u \in 1 .. Len(load.urls) /\ u \in UrlsOf(load)
      /\ x \in Tokens(load, u)
  BY IndexFacts DEF Tokens
<1>4. PICK r \in 1 .. Len(Parsed) : Parsed[r] = TokenOf(load, u, x)
  BY <1>2, <1>3 DEF AreTokens
<1>5. Parsed[r].word = word BY <1>1, <1>3, <1>4, TokenFacts
<1>6. QED BY <1>5

\* A keyval of thread 0 has what has been heard.
LEMMA HasHeard ==
  ASSUME QueuesOK, Agreement, NEW i \in ClientIndexes,
         NEW p \in 1 .. Len(Parsed)
  PROVE  que_array[i][p].buf
           = Heard(Parsed[p].word,
                   heard[<<<<0, i>>, Parsed[p].context[2]>>]).value
<1> DEFINE k == que_array[i][p]
           h == heard[<<<<0, i>>, Parsed[p].context[2]>>]
<1>1. load \in Loads BY DEF QueuesOK
<1>2. k \in GoodKeyvals /\ k.word = Parsed[p].word BY QueueFacts
<1>3. Agree(k, h) BY DEF Agreement
<1>4. <<<<0, i>>, Parsed[p].context[2]>> \in Clients \X UrlIndexes
  BY <1>1, ParsedFacts, IndexFacts DEF Clients
<1>5. h \in Histories BY <1>4 DEF QueuesOK
<1> HIDE DEF k, h
<1>6. [value |-> k.buf, all |-> k.value_found] = Heard(k.word, h)
  BY <1>2, <1>3, <1>5, AgreeHeard
<1>7. k.buf = Heard(k.word, h).value BY <1>6
<1>8. QED BY <1>2, <1>7 DEF k, h

\* Some url has the token.
HasUrl(w) ==
  \E u \in UrlIndexes : Contains(load.urls[u].tokens, w)

LEMMA ConstructAnswers ==
  ASSUME UrlsInv, Found, Undisturbed, construct_url(0)
  PROVE  LET c     == <<0, lookups[0].index>>
             names == Url(c).names
         IN  /\ \A n \in DOMAIN names : HasUrl(names[n])
             /\ c \in fetching'
             /\ request'[c].values =
                  [n \in DOMAIN names |->
                     LET u == Declaring(names[n])
                     IN  Heard(names[n], heard[<<c, u>>]).value]
<1> DEFINE i == lookups[0].index
           c == <<0, i>>
           names == Url(c).names
           v == url_curr_index[c]
           told == [n \in DOMAIN names |->
                      LET u == Declaring(names[n])
                      IN  Heard(names[n], heard[<<c, u>>]).value]
           texts == [n \in 1 .. load.urls[v].cents |->
                       que_array[values[v][n][1]][values[v][n][2]].buf]
<1>1. QueuesOK /\ Agreement /\ RequestsOK /\ Completes /\ load \in Loads
  BY DEF UrlsInv, QueuesOK, Requested
<1>2. 0 \in Threads BY <1>1, IndexFacts
<1>3. /\ Busy(0) /\ lookups[0].done = load.urls[v].cents
      /\ c \in fetching' /\ request'[c].values = texts
  BY <1>2, ConstructHands
<1>4. Completing(c) BY <1>1, <1>2, <1>3 DEF Completes
<1>5. /\ v \in UrlIndexes /\ i \in ClientIndexes
      /\ Len(names) = load.urls[v].cents /\ names = load.urls[v].names
  BY <1>4 DEF Completing, Clients, Url
<1>6. DOMAIN names = 1 .. load.urls[v].cents
  <2>1. load.urls[v].names \in Seq(Words) BY <1>1, <1>5, LoadFacts, IndexFacts
  <2>2. QED BY <1>5, <2>1
<1>7. FoundFirst(0) BY <1>2, <1>3 DEF Found
<1>8. ASSUME NEW n \in DOMAIN names
      PROVE  HasUrl(names[n]) /\ texts[n] = told[n]
  <2>1. PICK p : IsFirst(Parsed, names[n], p) /\ values[v][n] = <<i, p>>
    BY <1>3, <1>5, <1>6, <1>7, <1>8 DEF FoundFirst
  <2>2. /\ Declaring(names[n]) = Parsed[p].context[2]
        /\ Parsed[p].context[2] \in UrlIndexes
        /\ Contains(load.urls[Parsed[p].context[2]].tokens, names[n])
    BY <1>1, <2>1, FirstDeclares
  <2>3. p \in 1 .. Len(Parsed) /\ Parsed[p].word = names[n]
    BY <2>1 DEF IsFirst
  <2>4. que_array[i][p].buf
          = Heard(names[n], heard[<<c, Declaring(names[n])>>]).value
    BY <1>1, <1>5, <2>2, <2>3, HasHeard
  <2>5. told[n] = Heard(names[n], heard[<<c, Declaring(names[n])>>]).value
    BY <1>8
  <2>6. values[v][n][1] = i /\ values[v][n][2] = p BY <2>1
  <2>7. texts[n] = que_array[values[v][n][1]][values[v][n][2]].buf
    BY <1>6, <1>8
  <2>8. HasUrl(names[n]) BY <2>2 DEF HasUrl
  <2> HIDE DEF texts, told, c, i, v, names
  <2>9. QED BY <2>4, <2>5, <2>6, <2>7, <2>8
<1>9. texts = told
  <2>1. /\ texts = [n \in DOMAIN names |-> texts[n]]
        /\ told = [n \in DOMAIN names |-> told[n]]
    BY <1>6
  <2> HIDE DEF texts, told, names
  <2>2. QED BY <1>8, <2>1
<1>10. \A n \in DOMAIN names : HasUrl(names[n]) BY <1>8
<1>11. c \in fetching' /\ request'[c].values = told BY <1>3, <1>9
<1>12. QED BY <1>10, <1>11, Zenon

LEMMA LookUpGivesUp ==
  ASSUME UrlsInv, Found, LookUp(0), lookups'[0] = NoLookup
  PROVE  LET c == <<0, lookups[0].index>> IN
         /\ \E n \in DOMAIN Url(c).names : ~HasUrl(Url(c).names[n])
         /\ c \in fetching' /\ ~request'[c].url
<1> DEFINE c == <<0, lookups[0].index>>
<1>1. load \in Loads /\ 0 \in Threads
  BY IndexFacts DEF UrlsInv, QueuesOK
<1>2. /\ c \in fetching' /\ ~request'[c].url
      /\ \E n \in DOMAIN Url(c).names : \A r \in 1 .. Len(Parsed) :
           Parsed[r].word # Url(c).names[n]
  BY <1>1, LookUpFinds
<1>3. PICK n \in DOMAIN Url(c).names : \A r \in 1 .. Len(Parsed) :
        Parsed[r].word # Url(c).names[n]
  BY <1>2
<1>4. ~HasUrl(Url(c).names[n]) BY <1>1, <1>3, NoneDeclares DEF HasUrl
<1>5. QED BY <1>2, <1>4

LEMMA FoundKeeps ==
  ASSUME UrlsInv, Found, [Next]_vars
  PROVE  Found'
<1>1. CASE \E b \in Threads : LookUp(b) BY <1>1, LookUpFinds
<1>2. CASE \E b \in Threads : construct_url(b) BY <1>2, ConstructHands
<1>3. CASE \A b \in Threads : ~LookUp(b) /\ ~construct_url(b)
  BY <1>3, FoundElse
<1>4. QED BY <1>1, <1>2, <1>3

\* A step that ends what thread 0 completes is a lookup that finds nothing, or
\* the one that hands over.
LEMMA WhatEnds ==
  ASSUME UrlsInv, Found, [Next]_vars, LookupEnds(0)
  PROVE  LookUp(0) \/ construct_url(0)
<1>1. load \in Loads /\ 0 \in Threads
  BY IndexFacts DEF UrlsInv, QueuesOK
<1>2. Busy(0) /\ lookups'[0] = NoLookup /\ lookups[0] # NoLookup
  BY DEF LookupEnds, Busy
<1>3. ASSUME NEW b \in Threads, LookUp(b) PROVE b = 0
  BY <1>1, <1>2, <1>3, LookUpFinds
<1>4. ASSUME NEW b \in Threads, construct_url(b) PROVE b = 0
  BY <1>1, <1>2, <1>4, ConstructHands
<1>5. CASE \A b \in Threads : ~LookUp(b) /\ ~construct_url(b)
  BY <1>1, <1>2, <1>5, FoundElse
<1>6. QED BY <1>3, <1>4, <1>5

\* With one thread, or one client in a thread, what a template of a client of
\* thread 0 is completed with are, token by token, the values that this client
\* has heard of the first url that has the token; if some token is none of any
\* url's, the handle is left without a url (complete_url_from_response and
\* keyval_lookup of parse_conf.c).
THEOREM TemplatesOwn == Spec => CompletedFromOwn
<1>1. Init => Found BY DEF Init, Found, Busy
<1>2. UrlsInv /\ Found /\ [Next]_vars => Found' BY FoundKeeps
<1> DEFINE Own ==
      ((load.threads = 0 \/ load.clients = 1) /\ LookupEnds(0)) =>
        LET c     == <<0, lookups[0].index>>
            names == Url(c).names
            declared(n) == \E u \in UrlIndexes :
                             Contains(load.urls[u].tokens, names[n])
        IN  IF \A n \in DOMAIN names : declared(n)
            THEN /\ c \in fetching'
                 /\ request'[c].values =
                      [n \in DOMAIN names |->
                         LET u == Declaring(names[n])
                         IN  Heard(names[n], heard[<<c, u>>]).value]
            ELSE c \in fetching' /\ ~request'[c].url
<1>3. UrlsInv /\ Found /\ [Next]_vars => Own
  <2> SUFFICES ASSUME UrlsInv, Found, [Next]_vars, LookupEnds(0),
                      load.threads = 0 \/ load.clients = 1
               PROVE  Own
    OBVIOUS
  <2>1. Undisturbed BY DEF Undisturbed
  <2>2. LookUp(0) \/ construct_url(0) BY WhatEnds
  <2>3. CASE LookUp(0)
    <3>1. lookups'[0] = NoLookup BY DEF LookupEnds
    <3>2. QED BY <2>3, <3>1, LookUpGivesUp, Zenon DEF HasUrl
  <2>4. CASE construct_url(0)
    BY <2>1, <2>4, ConstructAnswers, Zenon DEF HasUrl
  <2>5. QED BY <2>2, <2>3, <2>4
<1>4. QED BY <1>1, <1>2, <1>3, Throughout, PTL DEF Spec, CompletedFromOwn
=============================================================================
