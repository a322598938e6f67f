------------------------------- MODULE Client -------------------------------
(***************************************************************************)
(* What the callbacks of libcurl do to a client (client_tracing_function   *)
(* of loader.c, client.c): the first header of a request or a response is  *)
(* counted, and header counters that are reset by what comes in between    *)
(* tell which is the first.                                                *)
(*                                                                         *)
(* There is one client for each batch.  The environment is an HTTP         *)
(* exchange on its handle: requests with a body or without, interim        *)
(* responses, redirects and authentication, bodies, trailers; connections  *)
(* that are lost and completion timeouts, which the callback never sees.   *)
(* Bytes, delays and logs are left out, and so is the scan of responses    *)
(* for values.                                                             *)
(***************************************************************************)
EXTENDS Integers, Sequences

CONSTANTS
  Batches,       \* the batches, each with its client
  Statuses       \* response statuses

ASSUME StatusAssumption == Statuses \subseteq 100 .. 599

VARIABLES
  first_hdr,     \* per client: header counters that are not zero
  client_state,  \* per client: CSTATE_URLS or CSTATE_ERROR
  st,            \* per client: its counters
  talk,          \* per client: where the exchange is
  status,        \* per client: CURLINFO_RESPONSE_CODE
  sent,          \* per client: requests sent
  answers,       \* per client and class: responses that came
  unanswered,    \* per client: requests cut off before their response
  untold         \* per client: what header counters cannot tell (see below)

clientVars == <<first_hdr, client_state, st, talk, status, sent, answers,
                unanswered, untold>>

\* The counters of stat_point and op_stat_point.  Class c of the responses is
\* counter c, and header counter c that of its headers; Requests is also the
\* header counter of requests.
Requests == 0
Classes == 1 .. 5
OtherErrs == 6
UrlOk == 7
UrlFailed == 8
HttpCounters == {Requests, OtherErrs} \cup Classes
OpCounters == {UrlOk, UrlFailed}
Counters == HttpCounters \cup OpCounters
None == -1
Zero == [c \in Counters |-> 0]

ClientInit ==
  /\ first_hdr = [k \in Batches |-> {}]
  /\ client_state = [k \in Batches |-> "URLS"]
  /\ st = [k \in Batches |-> Zero]
  /\ talk = [k \in Batches |-> "idle"]
  /\ status = [k \in Batches |-> 0]
  /\ sent = [k \in Batches |-> 0]
  /\ answers = [k \in Batches |-> [c \in Classes |-> 0]]
  /\ unanswered = [k \in Batches |-> 0]
  /\ untold = [k \in Batches |-> 0]
-----------------------------------------------------------------------------
\* The exchange ends here: was the request answered?
UnansweredAfter(k) ==
  IF talk[k] \in {"sent", "interim"} THEN unanswered[k] + 1 ELSE unanswered[k]

\* stat_req_inc and the others: the client's counter at once, that of the
\* batch by the thread (counter tells it which).
counts(k, counter) ==
  st' = IF counter = None THEN st ELSE [st EXCEPT ![k][counter] = @ + 1]

\* first_hdrs_clear_non_2xx and the others, for class c; only requests and 1xx
\* have one that resets the counter of 1xx.
kept_request(c) == {c, 1, Requests}             \* mutant: that of requests not
kept_by(c) == {c} \cup {1}

\* response_status is an error; there is no RESPONSE_STATUS_ERRORS table.
IsError(s) == s >= 400 /\ s \notin {401, 407}

\* CURLINFO_HEADER_OUT: all headers of a request at once.
header_out_keeps(k) == first_hdr[k] \cup {Requests}   \* mutant: none cleared
header_out(k) == {Requests}

HeaderOut(k, counter) ==
  /\ talk[k] \in {"idle", "answer", "body", "trailer"}
  /\ counter = IF Requests \in first_hdr[k] THEN None ELSE Requests
  /\ counts(k, counter)
  /\ first_hdr' = [first_hdr EXCEPT ![k] = header_out(k)]
  /\ talk' = [talk EXCEPT ![k] = "sent"]
  /\ sent' = [sent EXCEPT ![k] = @ + 1]
  /\ UNCHANGED <<client_state, status, answers, unanswered, untold>>

\* CURLINFO_DATA_OUT, or the SSL data of a handshake.  The body of a request
\* that waited for an interim response is sent after it.
DataOut(k, counter) ==
  /\ talk[k] \in {"idle", "sent", "interim"}
  /\ counter = None
  /\ first_hdr' = [first_hdr EXCEPT ![k] = {}]
  /\ talk' = [talk EXCEPT ![k] = IF @ = "interim" THEN "sent" ELSE @]
  /\ UNCHANGED <<client_state, st, status, sent, answers, unanswered, untold>>

\* CURLINFO_HEADER_IN, for a response of status s.
header_in(k, s, counter) ==
  LET c == s \div 100 IN
  /\ counter = IF c \in first_hdr[k] THEN None ELSE c
  /\ counts(k, counter)
  /\ first_hdr' = [first_hdr EXCEPT ![k] = (@ \cup {c}) \cap kept_by(c)]
  /\ client_state' = [client_state EXCEPT ![k] = IF IsError(s) THEN "ERROR" ELSE @]

\* The first header of a response.  After an interim response, without data
\* sent in between, another interim one cannot be told from it.  Bound: one
\* interim response more than requests.
FirstHeaderIn(k, s, counter) ==
  /\ talk[k] \in {"sent", "interim"}
  /\ s \div 100 = 1 => answers[k][1] <= sent[k]
  /\ header_in(k, s, counter)
  /\ status' = [status EXCEPT ![k] = s]
  /\ talk' = [talk EXCEPT ![k] = IF s \div 100 = 1 THEN "interim" ELSE "answer"]
  /\ answers' = [answers EXCEPT ![k][s \div 100] = @ + 1]
  /\ untold' = [untold EXCEPT ![k] =
                  IF talk[k] = "interim" /\ s \div 100 = 1 THEN @ + 1 ELSE @]
  /\ UNCHANGED <<sent, unanswered>>

\* The next header of the same response; after data, a trailer, which is taken
\* for a response.
NextHeaderIn(k, counter) ==
  /\ talk[k] \in {"interim", "answer", "body", "trailer"}
  /\ header_in(k, status[k], counter)
  /\ talk' = [talk EXCEPT ![k] = IF @ = "body" THEN "trailer" ELSE @]
  /\ untold' = [untold EXCEPT ![k] = IF talk[k] = "body" THEN @ + 1 ELSE @]
  /\ UNCHANGED <<status, sent, answers, unanswered>>

\* CURLINFO_DATA_IN.
DataIn(k, counter) ==
  /\ talk[k] \in {"answer", "body"}
  /\ counter = None
  /\ first_hdr' = [first_hdr EXCEPT ![k] = {}]
  /\ talk' = [talk EXCEPT ![k] = "body"]
  /\ UNCHANGED <<client_state, st, status, sent, answers, unanswered, untold>>

\* CURLINFO_ERROR, after which the transfer ends.
ErrorInfo(k, counter) ==
  /\ talk[k] \notin {"idle", "failed"}
  /\ counter = OtherErrs
  /\ counts(k, counter)
  /\ client_state' = [client_state EXCEPT ![k] = "ERROR"]
  /\ first_hdr' = [first_hdr EXCEPT ![k] = {}]
  /\ talk' = [talk EXCEPT ![k] = "failed"]
  /\ unanswered' = [unanswered EXCEPT ![k] = UnansweredAfter(k)]
  /\ UNCHANGED <<status, sent, answers, untold>>

\* load_next_step for a client whose transfer is over: op_stat_update, and the
\* error state recovers the client for its next url.  The url is counted as
\* failed as well if the next one cannot be set up.
Done(k, counter) ==
  /\ talk[k] \in {"answer", "body", "trailer"}
  /\ counter \in IF client_state[k] = "ERROR" THEN {UrlFailed} ELSE OpCounters
  /\ counts(k, counter)
  /\ client_state' = [client_state EXCEPT ![k] = "URLS"]
  /\ talk' = [talk EXCEPT ![k] = "idle"]
  /\ UNCHANGED <<first_hdr, status, sent, answers, unanswered, untold>>

\* ... or has failed or timed out, whatever it was doing: CSTATE_ERROR is set
\* before load_next_step, and no header counter is touched.  What counts only
\* timeouts is left out.
CutOff(k, counter) ==
  /\ talk[k] # "idle"
  /\ counter = UrlFailed
  /\ counts(k, counter)
  /\ client_state' = [client_state EXCEPT ![k] = "URLS"]
  /\ talk' = [talk EXCEPT ![k] = "idle"]
  /\ unanswered' = [unanswered EXCEPT ![k] = UnansweredAfter(k)]
  /\ UNCHANGED <<first_hdr, status, sent, answers, untold>>

client_tracing_function(k, counter) ==
  \/ HeaderOut(k, counter)
  \/ DataOut(k, counter)
  \/ \E s \in Statuses : FirstHeaderIn(k, s, counter)
  \/ NextHeaderIn(k, counter)
  \/ DataIn(k, counter)
  \/ ErrorInfo(k, counter)

ClientNext(k, counter) ==
  \/ client_tracing_function(k, counter)
  \/ Done(k, counter)
  \/ CutOff(k, counter)
-----------------------------------------------------------------------------
(***************************************************************************)
(* Properties.                                                             *)
(***************************************************************************)

ClientTypes ==
  /\ first_hdr \in [Batches -> SUBSET ({Requests} \cup Classes)]
  /\ client_state \in [Batches -> {"URLS", "ERROR"}]
  /\ st \in [Batches -> [Counters -> Nat]]
  /\ talk \in [Batches -> {"idle", "sent", "interim", "answer", "body", "trailer",
                         "failed"}]
  /\ status \in [Batches -> Statuses \cup {0}]
  /\ sent \in [Batches -> Nat]
  /\ answers \in [Batches -> [Classes -> Nat]]
  /\ unanswered \in [Batches -> Nat]
  /\ untold \in [Batches -> Nat]

\* client.h: "Statistics is updated only once on the first header of req/resp".
\* A request is counted once, with redirects, authentication and bodies; only
\* a request that follows one cut off without an answer may be missed.
RequestsCounted ==
  \A k \in Batches :
    /\ st[k][Requests] <= sent[k]
    /\ sent[k] <= st[k][Requests] + unanswered[k]

\* A response is counted once in its class, however many headers it has.  Only
\* a trailer may be taken for a response, and a second interim response in a
\* row not be noticed.
ResponsesCounted ==
  \A k \in Batches, c \in Classes :
    /\ st[k][c] <= answers[k][c] + untold[k]
    /\ answers[k][c] <= st[k][c] + untold[k]
=============================================================================
