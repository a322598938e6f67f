------------------------------- MODULE MCUrls -------------------------------
(***************************************************************************)
(* Instances of Urls: a load whose text comes character by character, and  *)
(* loads with all kinds of urls whose text comes in a few pieces.          *)
(***************************************************************************)
EXTENDS Urls

k == <<"k">>
k1 == <<"k", "1">>
MCWords == {k, k1, <<"1">>}

Plain == [tokens |-> <<>>, cents |-> 0, names |-> <<>>, lines |-> 0,
          use_current |-> FALSE, form |-> "none", records |-> 0]
Declares(tokens) == [Plain EXCEPT !.tokens = tokens]
Completed(names) == [Plain EXCEPT !.cents = Len(names), !.names = names]
FromFile(n) == [Plain EXCEPT !.cents = 1, !.lines = n]
Posts(url, form, n) == [url EXCEPT !.form = form, !.records = n]
Current(url) == [url EXCEPT !.use_current = TRUE]

MCLoad(threads, clients, urls, pieces, text, most) ==
  [threads |-> threads, clients |-> clients, urls |-> urls, pieces |-> pieces,
   max_text |-> text, max_setups |-> most]

Answers == {<<"k", "=", "1", "=">>, <<"k", "=", "'", "2">>}

\* Two words, one of which begins with the other.
Scanned == MCLoad(0, 1, <<Declares(<<k, k1>>)>>, {<<c>> : c \in Chars}, 6, 1)

Short == {<<"k", "=">>, <<"1">>, <<"=">>}

\* Two clients; the template is itself scanned for a token it is made from.
Chained ==
  MCLoad(0, 2, <<Declares(<<k>>),
                 [Completed(<<k, k1>>) EXCEPT !.tokens = <<k1>>]>>,
         Answers, 5, 4)

\* Two urls have the same token.
TwoDeclare ==
  MCLoad(0, 1, <<Declares(<<k>>), Posts(Declares(<<k, <<"1">>>>), "as_is", 0),
                 Completed(<<<<"1">>, k>>)>>, Answers, 5, 4)

\* A url that goes on with the current one, and templates that fail.
Currents ==
  MCLoad(0, 1, <<Declares(<<k>>), Posts(Current(Declares(<<k>>)), "unique", 0),
                 Current(Plain), Completed(<<k1>>),
                 [Plain EXCEPT !.cents = 1]>>, Short, 4, 6)

Files ==
  MCLoad(0, 2, <<Posts(Plain, "file", 2), Posts(FromFile(3), "cycle", 2),
                 Posts(FromFile(2), "random", 2)>>, {}, 0, 4)

Cut(clients, pieces, most) ==
  MCLoad(2, clients, <<Posts(Declares(<<k>>), "cycle", 4), Completed(<<k>>),
                       Posts(FromFile(2), "file", 4)>>,
         pieces, 5, most)

MCLoads == {Scanned, Chained, TwoDeclare, Currents, Files, Cut(1, Answers, 4),
            Cut(2, {}, 2)}

\* The response need not have the token.
ObtainedLoads == {TwoDeclare}
=============================================================================
