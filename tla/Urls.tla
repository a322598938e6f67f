-------------------------------- MODULE Urls --------------------------------
(***************************************************************************)
(* What a client sends (loader.c: setup_curl_handle_init and               *)
(* init_client_formed_buffer; parse_conf.c: url templates, url sets,       *)
(* response tokens): each url of the batch is set up for the client, with  *)
(* values that its responses have had, with a line of a token file, with a *)
(* form record; and what comes in is scanned for values.                   *)
(*                                                                         *)
(* Without -t there is one thread.  With it there are several, and each    *)
(* has a copy of the urls, whose pointers are those of the batch that was  *)
(* parsed.  Threads interleave; within one, setting up a url is not        *)
(* interrupted.  When a fetch ends the client takes the next url, after    *)
(* the last one the first, and the first also when it recovers.            *)
(*                                                                         *)
(* Texts of urls and forms are left out, and random urls, headers,         *)
(* uploads, authentication and multipart forms.                            *)
(***************************************************************************)
EXTENDS Keyval

CONSTANTS
  Loads,       \* configurations and what the environment does in them
  Words        \* names of tokens

\* A load: threads is 0 without -t; clients is the number of clients of one
\* thread.  A url has the RESPONSE_TOKENs tokens; cents is the number of "%s"
\* of its URL_TEMPLATE, or 0 if it is a plain URL; names are its URL_TOKENs;
\* lines is the size of its URL_TOKEN_FILE; records is how many form records
\* its file has.  Bounds: text comes in pieces, up to max_text characters and
\* interruptions for a client and a url; every client sets up max_setups urls.
Usages == {"none", "as_is", "unique", "file", "random", "cycle"}
UrlContexts ==
  [tokens : Seq(Words), cents : Nat, names : Seq(Words), lines : Nat,
   use_current : BOOLEAN, form : Usages, records : Nat]

\* What the tag parsers and validate_batch_url let through, and
\* load_form_records_file.
Accepted(l) ==
  /\ ~l.urls[1].use_current
  /\ \A u \in DOMAIN l.urls :
       LET url == l.urls[u]
           clients == IF l.threads = 0 THEN l.clients ELSE l.threads * l.clients
       IN  /\ url.names # <<>> =>
                url.lines = 0 /\ Len(url.names) <= url.cents
           /\ url.lines # 0 => url.cents # 0
           /\ url.form \in {"file", "cycle"} => url.records >= clients

\* A client whose first url cannot be set up is given up, as Loader has it.
FirstSetsUp(l) ==
  LET url == l.urls[1] IN
  (url.cents # 0 /\ url.lines = 0) =>
    /\ Len(url.names) = url.cents
    /\ \A n \in DOMAIN url.names :
         \E u \in DOMAIN l.urls : Contains(l.urls[u].tokens, url.names[n])

ASSUME LoadsAssumption ==
  /\ \A w \in Words : w \in Seq(alphanum_plus) \ {<<>>}
  /\ \A l \in Loads :
       /\ l.threads \in Nat
       /\ l.clients \in Nat \ {0}
       /\ l.urls \in Seq(UrlContexts) \ {<<>>}
       /\ l.pieces \subseteq Seq(Chars)
       /\ l.max_text \in Nat
       /\ l.max_setups \in Nat
       /\ Accepted(l)
       /\ FirstSetsUp(l)
       /\ \A u \in DOMAIN l.urls : l.urls[u].form = "random" =>
            l.urls[u].records > 0

VARIABLES
  load,
  que_array,      \* per index of a client: its keyvals
  ended,          \* threads that have ended and freed what their urls point to
  values,         \* per url with a template: the keyvals of its values
  lookups,        \* per thread: the client whose template is completed
  url_curr_index, \* per client: its url, or 0 before the first
  fetching,       \* clients whose fetch is under way
  previous_type,  \* per client: type of the last information of libcurl
  set_index,      \* per thread and url: index of set
  form_index,     \* per thread and url: form_records_index
  request,        \* per client: what the handle has been given
  crashed,
  setups,         \* bound: urls the client has set up
  heard           \* auxiliary: text for a client and a url since its keyvals
                  \* were initialized, and how much of it had come when
                  \* something else did

vars == <<load, que_array, ended, values, lookups, url_curr_index, fetching,
          previous_type, set_index, form_index, request, crashed, setups,
          heard>>

Threads == 0 .. (IF load.threads = 0 THEN 0 ELSE load.threads - 1)
ClientIndexes == 0 .. load.clients - 1
Clients == Threads \X ClientIndexes
UrlIndexes == DOMAIN load.urls
is_template(url) == url.cents # 0

Nothing == [text |-> <<>>, cuts |-> {}]
NoLookup == [index |-> -1, done |-> 0]
NoRequest == [url |-> FALSE, values |-> <<>>, line |-> -1, record |-> -1]
AUrl(texts, line) == [NoRequest EXCEPT !.url = TRUE, !.values = texts,
                                       !.line = line]

\* response_token_parser: for every client of the batch that is parsed, in the
\* order of the tokens.  The context is the url of that batch: that of thread 0.
ParsedKeyvals(l) ==
  FlattenSeq([u \in DOMAIN l.urls |->
    [t \in DOMAIN l.urls[u].tokens |->
       kv_create(<<0, u>>, l.urls[u].tokens[t])]])

Init ==
  /\ load \in Loads
  /\ que_array = [i \in ClientIndexes |-> ParsedKeyvals(load)]
  /\ ended = {}
  /\ values = [u \in UrlIndexes |->
                 [n \in 1 .. load.urls[u].cents |-> <<0, 0>>]]
  /\ lookups = [b \in Threads |-> NoLookup]
  /\ url_curr_index = [c \in Clients |-> 0]
  /\ fetching = {}
  /\ previous_type = [c \in Clients |-> "none"]
  /\ set_index = [bu \in Threads \X UrlIndexes |-> -1]
  /\ form_index = [bu \in Threads \X UrlIndexes |-> 0]
  /\ request = [c \in Clients |-> NoRequest]
  /\ crashed = FALSE
  /\ setups = [c \in Clients |-> 0]
  /\ heard = [cu \in Clients \X UrlIndexes |-> Nothing]
-----------------------------------------------------------------------------
Url(c) == load.urls[url_curr_index[c]]
Busy(b) == lookups[b] # NoLookup

\* The thread of the client is free to do something for it.
Free(c) == ~crashed /\ c[1] \notin ended /\ ~Busy(c[1])

\* What urls point to is shared by the threads, and freed by the first to end:
\* keyvals, templates, forms.  Using it then is undefined: the process crashes.
Shares(url) == url.tokens # <<>> \/ is_template(url) \/ url.form # "none"
Gone(url) == ended # {} /\ Shares(url)

Crash ==
  /\ crashed' = TRUE
  /\ UNCHANGED <<load, que_array, ended, values, lookups, url_curr_index,
                 fetching, previous_type, set_index, form_index, request,
                 setups, heard>>

\* The keyvals that client i of thread b has for url u become what new has.
with_keyvals(b, i, u, new) ==
  [que_array EXCEPT ![i] =
     [p \in DOMAIN @ |-> IF @[p].context = <<b, u>> THEN new[p] ELSE @[p]]]

keyval_init(b, i, u) ==
  LET q == que_array[i]
  IN  with_keyvals(b, i, u, [p \in DOMAIN q |-> kv_init(q[p])])

keyval_scan(b, i, u, data) ==
  LET q == que_array[i]
  IN  with_keyvals(b, i, u, [p \in DOMAIN q |-> kv_scan(q[p], data)])

keyval_flush(b, i, u) ==
  LET q == que_array[i]
  IN  with_keyvals(b, i, u, [p \in DOMAIN q |-> kv_flush(q[p])])
-----------------------------------------------------------------------------
(* Setting up a url.                                                       *)

\* init_client_formed_buffer: the record that goes into FORM_STRING, or the
\* number that is appended to USERNAME (of the counter i, which is always 0).
UseUpIndex(url, index) == \* mutant
  IF index >= url.records THEN 0 ELSE index + 1

next_form_index(url, index) ==
  IF index + 1 >= url.records THEN 0 ELSE index + 1

FormRecords(url, i, index) ==
  CASE url.form = "unique" -> {1}
    [] url.form = "file" -> {i}
    [] url.form = "random" -> 0 .. url.records - 1
    [] url.form = "cycle" -> {next_form_index(url, index)}
    [] OTHER -> {-1}

\* The handle has got a url, or keeps what it has; the form is put in, and the
\* fetch begins.
handed_over(c, u, got) ==
  LET url == load.urls[u] bu == <<c[1], u>> IN
  /\ \E record \in FormRecords(url, c[2], form_index[bu]) :
       request' = [request EXCEPT ![c] = [got EXCEPT !.record = record]]
  /\ form_index' = IF url.form = "cycle"
                   THEN [form_index EXCEPT ![bu] = next_form_index(url, @)]
                   ELSE form_index
  /\ fetching' = fetching \cup {c}

\* The handle has been reset, and gets nothing.  load_urls_state does not look
\* at what setup_url returns: the fetch begins all the same.
handed_over_empty(c) ==
  /\ request' = [request EXCEPT ![c] = NoRequest]
  /\ fetching' = fetching \cup {c}

\* setup_url is called for the next url of the client, or for the first when
\* it recovers from an error.
NextUrls(c) == {1} \cup (IF url_curr_index[c] = Len(load.urls) THEN {}
                         ELSE {url_curr_index[c] + 1})

picks_up(c, u) ==
  /\ Free(c)
  /\ c \notin fetching
  /\ setups[c] < load.max_setups
  /\ u \in NextUrls(c)
  /\ url_curr_index' = [url_curr_index EXCEPT ![c] = u]
  /\ setups' = [setups EXCEPT ![c] = @ + 1]
  /\ UNCHANGED <<load, ended, values, previous_type, crashed>>

\* With URL_USE_CURRENT only the form is new, and keyvals are not initialized.
\* Without a form that fails, and the handle is used as it is.
setup_current(c, u) ==
  /\ load.urls[u].use_current
  /\ picks_up(c, u)
  /\ IF load.urls[u].form # "none"
     THEN handed_over(c, u, request[c])
     ELSE fetching' = fetching \cup {c} /\ UNCHANGED <<request, form_index>>
  /\ UNCHANGED <<que_array, lookups, set_index, heard>>

\* update_url_from_set_or_template begins.
initializes(c, u) ==
  /\ ~load.urls[u].use_current
  /\ picks_up(c, u)
  /\ que_array' = keyval_init(c[1], c[2], u)
  /\ heard' = [heard EXCEPT ![<<c, u>>] = Nothing]

setup_plain(c, u) ==
  /\ ~is_template(load.urls[u])
  /\ initializes(c, u)
  /\ handed_over(c, u, AUrl(<<>>, -1))
  /\ UNCHANGED <<lookups, set_index>>

\* url_cycling is never set: the line is that of the client.
pick_url_from_set(c, u) ==
  /\ load.urls[u].lines # 0
  /\ initializes(c, u)
  /\ set_index' = [set_index EXCEPT ![<<c[1], u>>] = c[2] % load.urls[u].lines]
  /\ handed_over(c, u, AUrl(<<>>, set_index'[<<c[1], u>>]))
  /\ UNCHANGED lookups

complete_url_from_response(c, u) ==
  /\ is_template(load.urls[u])
  /\ load.urls[u].lines = 0
  /\ initializes(c, u)
  /\ IF Len(load.urls[u].names) = load.urls[u].cents
     THEN /\ lookups' = [lookups EXCEPT ![c[1]] = [index |-> c[2], done |-> 0]]
          /\ UNCHANGED <<fetching, request>>
     ELSE handed_over_empty(c) /\ UNCHANGED lookups
  /\ UNCHANGED <<set_index, form_index>>

setup_url(c) ==
  \E u \in UrlIndexes :
    /\ ~Gone(load.urls[u])
    /\ \/ setup_current(c, u)
       \/ setup_plain(c, u)
       \/ pick_url_from_set(c, u)
       \/ complete_url_from_response(c, u)

setup_crashes(c) ==
  /\ Free(c)
  /\ c \notin fetching
  /\ setups[c] < load.max_setups
  /\ \E u \in NextUrls(c) : Gone(load.urls[u])
  /\ Crash

LatestLookup(word, i) == \* mutant
  SelectLastInSeq(que_array[i], LAMBDA k : k.word = word)

\* keyval_lookup: the first keyval of the word, whatever its url.
keyval_lookup(word, i) == SelectInSeq(que_array[i], LAMBDA k : k.word = word)

\* The next value of the template, which holds a pointer to it; the threads
\* have the same array of values.
LookUp(b) ==
  LET i == lookups[b].index
      n == lookups[b].done + 1
      u == url_curr_index[<<b, i>>]
      p == keyval_lookup(load.urls[u].names[n], i)
  IN  /\ ~crashed
      /\ Busy(b)
      /\ n <= load.urls[u].cents
      /\ ~Gone(load.urls[u])
      /\ IF p = 0
         THEN /\ lookups' = [lookups EXCEPT ![b] = NoLookup]
              /\ handed_over_empty(<<b, i>>)
              /\ UNCHANGED values
         ELSE /\ lookups' = [lookups EXCEPT ![b].done = n]
              /\ values' = [values EXCEPT ![u][n] = <<i, p>>]
              /\ UNCHANGED <<fetching, request>>
      /\ UNCHANGED <<load, que_array, ended, url_curr_index, previous_type,
                     set_index, form_index, crashed, setups, heard>>

construct_url(b) ==
  LET c == <<b, lookups[b].index>>
      u == url_curr_index[c]
      texts == [n \in 1 .. load.urls[u].cents |->
                  que_array[values[u][n][1]][values[u][n][2]].buf]
  IN
  /\ ~crashed
  /\ Busy(b)
  /\ lookups[b].done = load.urls[u].cents
  /\ ~Gone(load.urls[u])
  /\ handed_over(c, u, AUrl(texts, -1))
  /\ previous_type' = [previous_type EXCEPT ![c] = "none"]
  /\ lookups' = [lookups EXCEPT ![b] = NoLookup]
  /\ UNCHANGED <<load, que_array, ended, values, url_curr_index, set_index,
                 crashed, setups, heard>>

lookup_crashes(b) ==
  /\ ~crashed
  /\ Busy(b)
  /\ Gone(Url(<<b, lookups[b].index>>))
  /\ Crash
-----------------------------------------------------------------------------
(* What libcurl tells: scan_response, and the end of a fetch.              *)

Size(h) == Len(h.text) + Cardinality(h.cuts)

\* The tracing function of a handle that was reset is not called.
Scans(c) ==
  Free(c) /\ c \in fetching /\ request[c].url /\ Url(c).tokens # <<>>

\* A packet with text of the response.
TextComes(c) ==
  LET cu == <<c, url_curr_index[c]>> IN
  /\ Scans(c)
  /\ ~Gone(Url(c))
  /\ \E data \in load.pieces :
       /\ Size(heard[cu]) + Len(data) <= load.max_text
       /\ que_array' = keyval_scan(c[1], c[2], url_curr_index[c], data)
       /\ heard' = [heard EXCEPT ![cu].text = @ \o data]
  /\ previous_type' = [previous_type EXCEPT ![c] = "text"]
  /\ UNCHANGED <<load, ended, values, lookups, url_curr_index, fetching,
                 set_index, form_index, request, crashed, setups>>

\* Anything else: headers, also of a redirection or behind the text, messages,
\* what is sent.
OtherComes(c) ==
  LET cu == <<c, url_curr_index[c]>> IN
  /\ Scans(c)
  /\ ~Gone(Url(c))
  /\ IF previous_type[c] = "text"
     THEN /\ Size(heard[cu]) < load.max_text
          /\ que_array' = keyval_flush(c[1], c[2], url_curr_index[c])
          /\ heard' = [heard EXCEPT ![cu].cuts = @ \cup {Len(heard[cu].text)}]
     ELSE UNCHANGED <<que_array, heard>>
  /\ previous_type' = [previous_type EXCEPT ![c] = "other"]
  /\ UNCHANGED <<load, ended, values, lookups, url_curr_index, fetching,
                 set_index, form_index, request, crashed, setups>>

scan_crashes(c) == Scans(c) /\ Gone(Url(c)) /\ Crash

\* The message of a handle that was reset names no client.  In smooth mode it
\* ends the thread (thread_ends); in hyper mode the client waits for its
\* completion timer.
FetchEnds(c) ==
  /\ Free(c)
  /\ c \in fetching
  /\ fetching' = fetching \ {c}
  /\ UNCHANGED <<load, que_array, ended, values, lookups, url_curr_index,
                 previous_type, set_index, form_index, request, crashed, setups,
                 heard>>

\* free_batch_data_allocations at the end of a thread: handles are cleaned up,
\* and each url is freed with all it points to.
FreedTwice ==
  /\ ended # {}
  /\ \E u \in UrlIndexes :
       is_template(load.urls[u]) \/ load.urls[u].form # "none"

thread_ends(b) ==
  /\ ~crashed
  /\ b \notin ended
  /\ ~Busy(b)
  /\ ~FreedTwice
  /\ ended' = ended \cup {b}
  /\ fetching' = {c \in fetching : c[1] # b}
  /\ UNCHANGED <<load, que_array, values, lookups, url_curr_index,
                 previous_type, set_index, form_index, request, crashed, setups,
                 heard>>

end_crashes(b) ==
  ~crashed /\ b \notin ended /\ ~Busy(b) /\ FreedTwice /\ Crash
-----------------------------------------------------------------------------
Next ==
  \/ \E c \in Clients :
       \/ setup_url(c)
       \/ setup_crashes(c)
       \/ TextComes(c)
       \/ OtherComes(c)
       \/ scan_crashes(c)
       \/ FetchEnds(c)
  \/ \E b \in Threads :
       \/ LookUp(b)
       \/ construct_url(b)
       \/ lookup_crashes(b)
       \/ thread_ends(b)
       \/ end_crashes(b)

Spec == Init /\ [][Next]_vars
-----------------------------------------------------------------------------
Contexts == {0} \X UrlIndexes

TypeOK ==
  /\ load \in Loads
  /\ DOMAIN que_array = ClientIndexes
  /\ \A i \in ClientIndexes : \A p \in DOMAIN que_array[i] :
       LET k == que_array[i][p] IN
       /\ k.context \in Contexts
       /\ k.word \in Words
       /\ k.index \in 0 .. Len(k.word)
       /\ k.last_c \in Chars \cup {NoChar}
       /\ Len(k.buf) < VALUE_SIZE
       /\ k.quote \in Quotes \cup {NoChar}
       /\ k.key_found \in BOOLEAN /\ k.value_found \in BOOLEAN
  /\ ended \subseteq Threads
  /\ lookups \in [Threads -> [index : ClientIndexes \cup {-1}, done : Nat]]
  /\ url_curr_index \in [Clients -> UrlIndexes \cup {0}]
  /\ fetching \subseteq Clients
  /\ previous_type \in [Clients -> {"none", "text", "other"}]
  /\ crashed \in BOOLEAN

\* What a keyval should have of text that was interrupted: nothing is collected
\* behind an interruption once the word had come.
Heard(word, h) ==
  LET upTo(p) == SubSeq(h.text, 1, p)
      ends    == {p \in h.cuts : \/ ValueStarts(word, upTo(p)) # {}
                                \/ EndsWith(word, upTo(p))}
  IN  IF ends = {} THEN Collected(word, h.text)
      ELSE [value |-> Collected(word, upTo(Least(ends))).value, all |-> TRUE]

\* Every keyval of the parsed batch has collected what the text of the client
\* and url has, however the text was cut into packets, whatever other clients
\* and urls were told in between, and whatever a template did with it
\* (scan_response and keyval_scan of parse_conf.c).
ScanSound ==
  \A i \in ClientIndexes : \A p \in DOMAIN que_array[i] :
    LET k == que_array[i][p]
        h == heard[<<<<0, i>>, k.context[2]>>]
    IN  [value |-> k.buf, all |-> k.value_found] = Heard(k.word, h)

\* The first url that has the token.
Declaring(word) ==
  Least({u \in UrlIndexes : Contains(load.urls[u].tokens, word)})

LookupEnds(b) == Busy(b) /\ lookups'[b] = NoLookup

\* A template is completed, token by token, with what the client itself has
\* heard of the first url that has the token, be it little or nothing; if no
\* url has it, the handle is left without a url.  With -t that is so for a
\* thread 0 of one client only: other threads complete from keyvals of clients
\* of thread 0, and they share the values (complete_url_from_response of
\* parse_conf.c).
CompletedFromOwn ==
  [][((load.threads = 0 \/ load.clients = 1) /\ LookupEnds(0)) =>
       LET c     == <<0, lookups[0].index>>
           names == Url(c).names
           declared(n) == \E u \in UrlIndexes :
                            Contains(load.urls[u].tokens, names[n])
       IN  IF \A n \in DOMAIN names : declared(n)
           THEN /\ c \in fetching'
                /\ request'[c].values =
                     [n \in DOMAIN names |->
                        LET u == Declaring(names[n])
                        IN  Heard(names[n], heard[<<c, u>>]).value]
           ELSE c \in fetching' /\ ~request'[c].url
    ]_vars

\* Of the clients of one thread that fetch the same url no two have the same
\* form record, unless records are drawn or used in turn, and no two have the
\* same line of a token file that has enough; and records and lines exist
\* (init_client_formed_buffer of loader.c, pick_url_from_set of parse_conf.c).
SentApart ==
  \A c, d \in fetching :
    LET url == Url(c) IN request[c].url =>
    /\ url.form \in {"file", "random", "cycle"} =>
         request[c].record \in 0 .. url.records - 1
    /\ (url.lines # 0 /\ ~url.use_current) =>
         request[c].line \in 0 .. url.lines - 1
    /\ (/\ c # d /\ c[1] = d[1] /\ url_curr_index[c] = url_curr_index[d]
        /\ request[d].url) =>
         /\ url.form = "file" => request[c].record # request[d].record
         /\ (url.lines >= load.clients /\ ~url.use_current) =>
              request[c].line # request[d].line

\* What the manual promises (doc/README:739): every value a template is
\* completed with has been obtained from some prior response to the client.
\* keyval_lookup does not look whether a value has been found.
ValuesObtained ==
  [][\A c \in Clients :
       LET url == load.urls[url_curr_index'[c]] IN
       (c \in fetching' \ fetching /\ is_template(url)) =>
         \A n \in DOMAIN request'[c].values :
           \E u \in UrlIndexes :
             LET has == Heard(url.names[n], heard[<<c, u>>]) IN
             /\ Contains(load.urls[u].tokens, url.names[n])
             /\ has # [value |-> <<>>, all |-> FALSE]
             /\ has.value = request'[c].values[n]
    ]_vars
=============================================================================
