----------------------------- MODULE LoaderProofs -----------------------------
(***************************************************************************)
(* The properties of Loader, for every number of clients, every list of    *)
(* urls and every length of the ramp-up.  First come lemmas about single   *)
(* clients: where a walk through the urls leads, where load_next_step      *)
(* leaves a client, and that such a step keeps the books of the clients.   *)
(* Then LoadInv is shown inductive without a fixed request rate, BooksInv  *)
(* with one, and RateInv with one and without completion timeouts.         *)
(***************************************************************************)
EXTENDS Loader, NatLemmas

(***************************************************************************)
(* Walks.                                                                  *)
(***************************************************************************)

\* There is a first and a last cycling url unless no url cycles.
LEMMA CyclingUrls ==
  /\ Cycling = {} => last_cycling_url = -1
  /\ Cycling # {} => /\ first_cycling_url \in Urls /\ last_cycling_url \in Urls
                     /\ first_cycling_url <= last_cycling_url
<1> USE UrlsAssumption
<1>1. CASE Cycling = {}
  BY <1>1 DEF last_cycling_url
<1>2. CASE Cycling # {}
  <2>1. Cycling \in SUBSET Nat /\ Cycling \in SUBSET (0 .. urls_num - 1)
    BY DEF Cycling, Urls
  <2>2. \E m \in Cycling : \A j \in Cycling : m <= j
    BY <1>2, <2>1, SmallestOfNats
  <2>3. \E m \in Cycling : \A j \in Cycling : j <= m
    BY <1>2, <2>1, LargestOfBounded, urls_num - 1 \in Nat
  <2>4. /\ first_cycling_url \in Cycling
        /\ \A j \in Cycling : first_cycling_url <= j
    BY <1>2, <2>2, Zenon DEF first_cycling_url
  <2>5. last_cycling_url \in Cycling
    BY <1>2, <2>3, Zenon DEF last_cycling_url
  <2>6. QED BY <1>2, <2>4, <2>5 DEF Cycling
<1>3. QED BY <1>1, <1>2

Walks == [url : Urls, cycle : Nat, completed : BOOLEAN, over : BOOLEAN]

\* A walk that CyclesLeft and LogoffLast allow: a url of the cycle means that
\* there are cycles left, a later one that the cycling is completed, and a walk
\* is over at the last url.
WalkSound(w) ==
  /\ w \in Walks
  /\ ~w.over /\ w.url <= last_cycling_url => w.cycle < cycles_num
  /\ w.url > last_cycling_url => w.completed
  /\ w.over => w.completed /\ w.url = urls_num - 1

\* There is a url and a cycle.
LEMMA UrlsAre0ToLast ==
  /\ urls_num \in Nat \ {0} /\ cycles_num \in Nat \ {0}
  /\ Urls = 0 .. urls_num - 1
BY UrlsAssumption, BatchAssumption DEF Urls

\* One url on, unless it is the last one.
LEMMA OneUrlOnFields ==
  ASSUME NEW w \in Walks
  PROVE  LET q == OneUrlOn(w)
         IN  /\ q \in Walks /\ q.cycle = w.cycle /\ q.completed = w.completed
             /\ w.url = urls_num - 1 => q.url = w.url /\ q.over
             /\ w.url # urls_num - 1 => q.url = w.url + 1 /\ q.over = w.over
<1>1. CASE w.url = urls_num - 1
  BY <1>1 DEF OneUrlOn, Walks
<1>2. CASE w.url # urls_num - 1
  <2>1. w.url + 1 \in Urls
    BY <1>2, UrlsAre0ToLast DEF Walks
  <2>2. OneUrlOn(w) = [w EXCEPT !.url = @ + 1]
    BY <1>2 DEF OneUrlOn
  <2>3. QED BY <1>2, <2>1, <2>2 DEF Walks
<1>3. QED BY <1>1, <1>2

\* So a walk whose cycling is completed stays sound.
LEMMA OneUrlOnSound ==
  ASSUME NEW w \in Walks, ~w.over, w.completed,
         w.url + 1 <= last_cycling_url => w.cycle < cycles_num
  PROVE  WalkSound(OneUrlOn(w)) /\ OneUrlOn(w).completed
<1> DEFINE q == OneUrlOn(w)
<1>1. /\ q \in Walks /\ q.cycle = w.cycle /\ q.completed = w.completed
      /\ w.url = urls_num - 1 => q.url = w.url /\ q.over
      /\ w.url # urls_num - 1 => q.url = w.url + 1 /\ q.over = w.over
  BY OneUrlOnFields
<1> HIDE DEF q
<1>2. WalkSound(q) /\ q.completed
  BY <1>1 DEF WalkSound, Walks
<1>3. QED BY <1>2 DEF q

\* pick_up_next_url keeps a walk sound, and never takes back that the cycling
\* is completed.
LEMMA PickSound ==
  ASSUME NEW w, WalkSound(w), ~w.over
  PROVE  /\ WalkSound(pick_up_next_url(w))
         /\ w.completed => pick_up_next_url(w).completed
<1> DEFINE cycled == [w EXCEPT !.cycle = @ + 1]
           p == pick_up_next_url(w)
<1>1. /\ w \in Walks /\ w.url \in Urls /\ w.cycle \in Nat
      /\ w.completed \in BOOLEAN /\ w.over = FALSE
      /\ w.url <= last_cycling_url => w.cycle < cycles_num
      /\ w.url > last_cycling_url => w.completed
  BY DEF WalkSound, Walks
<1>2. /\ last_cycling_url \in Urls \cup {-1}
      /\ last_cycling_url # -1 => /\ first_cycling_url \in Urls
                                  /\ first_cycling_url <= last_cycling_url
  BY CyclingUrls, UrlsAre0ToLast
<1>3. /\ cycled \in Walks /\ cycled.url = w.url /\ cycled.cycle = w.cycle + 1
      /\ cycled.completed = w.completed /\ cycled.over = FALSE
  BY <1>1 DEF Walks
<1>4. CASE w.completed
  <2>1. p = OneUrlOn(w)
    BY <1>4 DEF pick_up_next_url
  <2>2. w.url + 1 <= last_cycling_url => w.cycle < cycles_num
    BY <1>1, <1>2, UrlsAre0ToLast
  <2>3. QED BY <1>1, <1>4, <2>1, <2>2, OneUrlOnSound
<1>5. CASE ~w.completed /\ w.url < last_cycling_url
  <2>1. p = [w EXCEPT !.url = @ + 1]
    <3>1. w.url # last_cycling_url
      BY <1>1, <1>2, <1>5, UrlsAre0ToLast
    <3>2. QED BY <1>5, <3>1, Zenon DEF pick_up_next_url
  <2>2. w.url + 1 \in Urls /\ w.url + 1 <= last_cycling_url /\ w.cycle < cycles_num
        /\ ~(w.url + 1 > last_cycling_url)
    BY <1>1, <1>2, <1>5, UrlsAre0ToLast
  <2>3. p \in Walks /\ p.url = w.url + 1 /\ p.cycle = w.cycle /\ p.over = FALSE
    BY <1>1, <2>1, <2>2 DEF Walks
  <2>4. QED BY <1>5, <2>2, <2>3 DEF WalkSound
<1>6. CASE ~w.completed /\ w.url = last_cycling_url /\ w.cycle + 1 = cycles_num
  <2> DEFINE last == [cycled EXCEPT !.completed = TRUE]
  <2>1. p = OneUrlOn(last)
    BY <1>3, <1>6 DEF pick_up_next_url
  <2> HIDE DEF cycled
  <2>2. last \in Walks /\ last.url = w.url /\ last.completed /\ ~last.over
    BY <1>3 DEF Walks
  <2>3. ~(w.url + 1 <= last_cycling_url)
    BY <1>1, <1>6, UrlsAre0ToLast
  <2> HIDE DEF last
  <2>4. WalkSound(OneUrlOn(last))
    BY <2>2, <2>3, OneUrlOnSound
  <2>5. QED BY <1>6, <2>1, <2>4
<1>7. CASE ~w.completed /\ w.url = last_cycling_url /\ w.cycle + 1 # cycles_num
  <2>1. p = [cycled EXCEPT !.url = first_cycling_url]
    BY <1>3, <1>7 DEF pick_up_next_url
  <2>2. first_cycling_url \in Urls /\ first_cycling_url <= last_cycling_url
    BY <1>1, <1>2, <1>7, UrlsAre0ToLast
  <2>3. w.cycle + 1 < cycles_num /\ ~(first_cycling_url > last_cycling_url)
    BY <1>1, <1>2, <1>7, <2>2, UrlsAre0ToLast
  <2> HIDE DEF cycled
  <2>4. p \in Walks /\ p.url = first_cycling_url /\ p.cycle = w.cycle + 1 /\ p.over = FALSE
    BY <1>3, <2>1, <2>2 DEF Walks
  <2>5. QED BY <1>7, <2>2, <2>3, <2>4 DEF WalkSound
<1>8. w.url < last_cycling_url \/ w.url = last_cycling_url \/ w.url > last_cycling_url
  BY <1>1, <1>2, UrlsAre0ToLast
<1>9. QED BY <1>1, <1>4, <1>5, <1>6, <1>7, <1>8

\* Every walk the loop around pick_up_next_url may end at is sound.
LEMMA NextWalksSound ==
  ASSUME NEW w, WalkSound(w), ~w.over, NEW x \in NextWalks(w)
  PROVE  WalkSound(x) /\ (w.completed => x.completed)
<1> DEFINE P(y) == WalkSound(y) /\ (w.completed => y.completed)
<1>1. ASSUME NEW S, \A y \in S : P(y)
      PROVE  \A y \in WithSkip(S) : P(y)
  <2> SUFFICES ASSUME NEW y \in WithSkip(S) PROVE P(y)
    OBVIOUS
  <2>1. CASE y \in S
    BY <1>1, <2>1
  <2>2. CASE y \notin S
    <3>1. PICK z \in S : ~z.over /\ y = pick_up_next_url(z)
      BY <2>2 DEF WithSkip
    <3>2. P(z)
      BY <1>1
    <3>3. QED BY <3>1, <3>2, PickSound
  <2>3. QED BY <2>1, <2>2
<1> DEFINE S0 == {pick_up_next_url(w)}
<1>2. \A y \in S0 : P(y)
  BY PickSound
<1> HIDE DEF P, S0
<1>3. \A y \in WithSkip(S0) : P(y)
  BY <1>1, <1>2
<1>4. \A y \in WithSkip(WithSkip(S0)) : P(y)
  BY <1>1, <1>3
<1>5. QED BY <1>4 DEF NextWalks, P, S0

(***************************************************************************)
(* Outcomes.                                                               *)
(***************************************************************************)
\* What a walk w in a state may become.
OutcomeSound(o, w, state) ==
  /\ o.walk \in Walks /\ o.wait \in BOOLEAN /\ o.failed \in BOOLEAN
  /\ o.failed => failures < MaxFailures
  /\ o.wait => state = "URLS"
  /\ w.completed => o.walk.completed
  /\ o.walk.url > last_cycling_url => o.walk.completed
  /\ \/ /\ o.returned = "URLS" /\ o.state = "URLS"
        /\ o.walk.url <= last_cycling_url => o.walk.cycle < cycles_num
     \/ /\ o.returned = "ERROR" /\ o.state = state /\ state # "URLS"
        /\ state = "INIT" => o.walk.cycle = w.cycle
        /\ state = "ERROR" /\ ErrorRecovery =>
             o.failed \/ o.walk.cycle >= cycles_num
     \/ /\ o.returned = "FINISHED_OK" /\ o.state = "FINISHED_OK"
        /\ o.walk.completed /\ o.walk.url = urls_num - 1

\* The first url of a client that has cycles left.
LEMMA FirstUrlSound ==
  ASSUME NEW w \in Walks, Cycling = {} => w.completed, w.cycle < cycles_num,
         NEW state \in {"INIT", "ERROR"}, NEW o \in FirstUrl(w, state)
  PROVE  /\ o.walk \in Walks /\ o.wait = FALSE /\ o.failed \in BOOLEAN
         /\ o.failed => failures < MaxFailures
         /\ w.completed => o.walk.completed
         /\ o.walk.url > last_cycling_url => o.walk.completed
         /\ o.walk.cycle = w.cycle
         /\ \/ o.returned = "URLS" /\ o.state = "URLS" /\ ~o.failed
            \/ o.returned = "ERROR" /\ o.state = state /\ o.failed
<1> DEFINE start == [w EXCEPT !.url = 0]
<1>1. /\ start \in Walks /\ start.url = 0 /\ start.cycle = w.cycle
      /\ start.completed = w.completed /\ w.completed \in BOOLEAN
  BY UrlsAre0ToLast DEF Walks
<1>2. 0 > last_cycling_url => Cycling = {}
  BY CyclingUrls, UrlsAre0ToLast
<1>3. \/ o = Outcome(start, "URLS", "URLS", FALSE, FALSE)
      \/ o = Outcome(start, state, "ERROR", FALSE, TRUE) /\ failures < MaxFailures
  BY DEF FirstUrl
<1> HIDE DEF start
<1>4. /\ o.walk = start /\ o.wait = FALSE
      /\ \/ o.returned = "URLS" /\ o.state = "URLS" /\ o.failed = FALSE
         \/ /\ o.returned = "ERROR" /\ o.state = state /\ o.failed = TRUE
            /\ failures < MaxFailures
  BY <1>3 DEF Outcome
<1>5. QED BY <1>1, <1>2, <1>4

\* Whatever its state, a client whose walk is sound comes to a sound outcome.
LEMMA OutcomesSound ==
  ASSUME NEW w \in Walks, ~w.over, Cycling = {} => w.completed,
         w.url > last_cycling_url => w.completed,
         NEW state \in {"INIT", "URLS", "ERROR"},
         state = "INIT" => w.cycle = 0,
         state = "URLS" /\ w.url <= last_cycling_url => w.cycle < cycles_num,
         NEW o \in Outcomes(w, state)
  PROVE  OutcomeSound(o, w, state)
<1>1. CASE state = "INIT"
  <2>1. o \in FirstUrl(w, "INIT") /\ w.cycle < cycles_num /\ w.cycle \in Nat
    BY <1>1, UrlsAre0ToLast DEF Outcomes
  <2>2. QED BY <1>1, <2>1, FirstUrlSound DEF OutcomeSound
<1>2. CASE state = "URLS"
  <2>1. WalkSound(w)
    BY <1>2 DEF WalkSound
  <2>2. PICK x \in NextWalks(w), wait \in Sleeps[w.url] : o = WalkedTo(x, wait)
    BY <1>2 DEF Outcomes, NextUrl
  <2>3. wait \in BOOLEAN
    BY UrlsAssumption DEF Walks
  <2>4. WalkSound(x) /\ (w.completed => x.completed)
    BY <2>1, NextWalksSound
  <2>5. /\ o.walk = x /\ o.wait \in BOOLEAN /\ o.failed = FALSE
        /\ \/ x.over /\ o.returned = "FINISHED_OK" /\ o.state = "FINISHED_OK"
           \/ ~x.over /\ o.returned = "URLS" /\ o.state = "URLS"
    BY <2>2, <2>3, <2>4 DEF WalkedTo, Outcome, WalkSound, Walks
  <2>6. QED BY <1>2, <2>4, <2>5 DEF OutcomeSound, WalkSound
<1>3. CASE state = "ERROR"
  <2> DEFINE advanced == [w EXCEPT !.cycle = @ + 1]
  <2>1. /\ advanced \in Walks /\ advanced.url = w.url /\ advanced.cycle = w.cycle + 1
        /\ advanced.completed = w.completed /\ w.completed \in BOOLEAN
        /\ w.cycle \in Nat
    BY DEF Walks
  <2>2. o \in load_error_state(w)
    BY <1>3 DEF Outcomes
  <2>3. CASE ~ErrorRecovery
    <3>1. o = Outcome(w, "ERROR", "ERROR", FALSE, FALSE)
      BY <2>2, <2>3 DEF load_error_state
    <3>2. /\ o.walk = w /\ o.wait = FALSE /\ o.failed = FALSE
          /\ o.returned = "ERROR" /\ o.state = "ERROR"
      BY <3>1 DEF Outcome
    <3>3. QED BY <1>3, <2>3, <3>2 DEF OutcomeSound
  <2>4. CASE ErrorRecovery /\ CyclesOver(advanced.cycle)
    <3>1. o = Outcome(advanced, "ERROR", "ERROR", FALSE, FALSE)
      BY <2>2, <2>4 DEF load_error_state
    <3> HIDE DEF advanced
    <3>2. /\ o.walk = advanced /\ o.wait = FALSE /\ o.failed = FALSE
          /\ o.returned = "ERROR" /\ o.state = "ERROR"
      BY <3>1 DEF Outcome
    <3>3. QED BY <1>3, <2>1, <2>4, <3>2 DEF OutcomeSound, CyclesOver
  <2>5. CASE ErrorRecovery /\ ~CyclesOver(advanced.cycle)
    <3>1. o \in FirstUrl(advanced, "ERROR")
      BY <2>2, <2>5 DEF load_error_state
    <3> HIDE DEF advanced
    <3>2. advanced.cycle < cycles_num
      BY <2>1, <2>5, UrlsAre0ToLast DEF CyclesOver
    <3>3. QED BY <1>3, <2>1, <3>1, <3>2, FirstUrlSound DEF OutcomeSound
  <2>6. QED BY <2>3, <2>4, <2>5
<1>4. QED BY <1>1, <1>2, <1>3

(***************************************************************************)
(* load_next_step.                                                         *)
(***************************************************************************)

\* The queue and the count of active clients once the client has left.
Queue0(c) == timers \ {completion(c)}
Active0(c) == active_clients_count - IF InMulti(c) THEN 1 ELSE 0

\* The client moves to a url, a cycle and a state; d: the cycling is completed.
Moves(c, st, u, n, d) ==
  /\ url_curr_index' = [url_curr_index EXCEPT ![c] = u]
  /\ cycle_num' = [cycle_num EXCEPT ![c] = n]
  /\ cycling_completed' = d
  /\ client_state' = [client_state EXCEPT ![c] = st]
  /\ failures' \in 0 .. MaxFailures /\ failures <= failures'
  /\ requests_completed' \in BOOLEAN
  /\ cycling_completed => d
  /\ u > last_cycling_url => d
  /\ st = "INIT" => n = 0
  /\ st = "URLS" /\ u <= last_cycling_url => n < cycles_num
  /\ st = "FINISHED_OK" => d /\ u = urls_num - 1
  /\ st = "ERROR" /\ ErrorRecovery /\ failures' = 0 /\ ~run_over => n >= cycles_num

Joins(c, u) ==
  /\ handle[c] /\ handle' = handle
  /\ multi' = [multi EXCEPT ![c] = "loading"]
  /\ active_clients_count' = Active0(c) + 1
  /\ sleeping_clients_count' = sleeping_clients_count
  /\ \/ /\ TRUE \in Timeouts[u]
        /\ timers' = Queue0(c) \cup {completion(c)}
        /\ tid_url_completion' = [tid_url_completion EXCEPT ![c] = TRUE]
     \/ /\ FALSE \in Timeouts[u]
        /\ timers' = Queue0(c)
        /\ tid_url_completion' = [tid_url_completion EXCEPT ![c] = FALSE]

Rests(c) ==
  /\ handle[c] /\ handle' = handle
  /\ multi' = [multi EXCEPT ![c] = "out"]
  /\ active_clients_count' = Active0(c)
  /\ sleeping_clients_count' = sleeping_clients_count + 1
  /\ timers' = Queue0(c) \cup {sleeping(c)}
  /\ tid_url_completion' = [tid_url_completion EXCEPT ![c] = FALSE]

Leaves(c, h) ==
  /\ handle' = [handle EXCEPT ![c] = h]
  /\ multi' = [multi EXCEPT ![c] = "out"]
  /\ active_clients_count' = Active0(c)
  /\ sleeping_clients_count' = sleeping_clients_count
  /\ timers' = Queue0(c)
  /\ tid_url_completion' = [tid_url_completion EXCEPT ![c] = FALSE]

\* The ways a client can go, in these terms.
Refused(c, ok) ==
  /\ ~ok /\ ~InMulti(c) /\ client_state[c] # "INIT"
  /\ UNCHANGED <<clientVars, batchVars, timers, failures>>
Goes(c, ok, st, u) ==
  \/ ok /\ st = "URLS" /\ Joins(c, u)
  \/ ok /\ st = "URLS" /\ Rests(c)
  \/ \E h \in BOOLEAN :
       /\ Leaves(c, h)
       /\ ok => st = "FINISHED_OK" \/ ~h
       /\ ~ok => st = "ERROR" \/ ~h \/ (st = "INIT" /\ client_state[c] = "INIT")

\* The parts of the invariants that are about the clients.
ClientsTypeOK ==
  /\ client_state \in [Clients -> States]
  /\ url_curr_index \in [Clients -> Urls]
  /\ cycle_num \in [Clients -> Nat]
  /\ handle \in [Clients -> BOOLEAN]
  /\ multi \in [Clients -> Places]
  /\ tid_url_completion \in [Clients -> BOOLEAN]
  /\ timers \subseteq ClientTimers \cup PeriodicTimers
  /\ active_clients_count \in Nat
  /\ sleeping_clients_count \in Int
  /\ cycling_completed \in BOOLEAN /\ requests_completed \in BOOLEAN
  /\ failures \in 0 .. MaxFailures
ClientsBooks ==
  /\ ClientsTypeOK /\ CountsExact /\ TimersExclusive /\ PlacesKnown
  /\ CyclesLeft /\ LogoffLast /\ WalksBegun

\* There are finitely many clients.
LEMMA ClientsFinite ==
  /\ IsFiniteSet(Clients) /\ Clients = 0 .. client_num_max - 1
  /\ client_num_max \in Nat \ {0}
BY BatchAssumption, FS_Interval DEF Clients

\* A client in the multi handle is counted.
LEMMA ActiveCounted ==
  ASSUME CountsExact, NEW c \in Clients, InMulti(c)
  PROVE  active_clients_count \in Nat \ {0}
<1> DEFINE S == {d \in Clients : InMulti(d)}
<1>1. IsFiniteSet(S) /\ S # {}
  BY ClientsFinite, FS_Subset
<1>2. Cardinality(S) \in Nat /\ Cardinality(S) # 0
  BY <1>1, FS_CardinalityType, FS_EmptySet
<1>3. QED BY <1>2 DEF CountsExact

\* A client before its first url has neither a transfer nor a timer.
LEMMA InitClient ==
  ASSUME ClientsBooks, NEW c \in Clients, client_state[c] = "INIT"
  PROVE  ~InMulti(c) /\ sleeping(c) \notin timers /\ completion(c) \notin timers
BY DEF ClientsBooks, PlacesKnown, TimersExclusive

\* load_next_step for a client in its own state, or in CSTATE_ERROR for one
\* whose transfer has ended badly.
LEMMA LoadEffect ==
  ASSUME ClientsBooks, NEW c \in Clients, NEW state \in States,
         NEW armed \in BOOLEAN, NEW ok \in BOOLEAN,
         armed <=> completion(c) \in timers,
         state = client_state[c] \/ (state = "ERROR" /\ InMulti(c)),
         load_next_step(c, state, armed, ok)
  PROVE  \/ Refused(c, ok)
         \/ /\ sleeping(c) \notin timers
            /\ \E u \in Urls, n \in Nat, d \in BOOLEAN, st \in States :
                 Moves(c, st, u, n, d) /\ Goes(c, ok, st, u)
<1> DEFINE queue  == QueueWithout(c, armed)
           active == ActiveWithout(c, state)
           here   == [url |-> url_curr_index[c], cycle |-> cycle_num[c],
                      completed |-> cycling_completed, over |-> FALSE]
<1>1. /\ url_curr_index \in [Clients -> Urls] /\ cycle_num \in [Clients -> Nat]
      /\ handle \in [Clients -> BOOLEAN] /\ multi \in [Clients -> Places]
      /\ client_state \in [Clients -> States] /\ cycling_completed \in BOOLEAN
      /\ requests_completed \in BOOLEAN /\ failures \in 0 .. MaxFailures
      /\ tid_url_completion \in [Clients -> BOOLEAN]
      /\ active_clients_count \in Nat /\ MaxFailures \in Nat
  BY BatchAssumption, ModeAssumption DEF ClientsBooks, ClientsTypeOK
<1>2. /\ InMulti(c) => client_state[c] \in {"URLS", "ERROR"} /\ handle[c]
      /\ state = "INIT" => client_state[c] = "INIT" /\ ~InMulti(c)
  BY InitClient DEF ClientsBooks, PlacesKnown, Kept
<1>3. queue = Queue0(c)
  BY DEF QueueWithout, Queue0
<1>4. InMulti(c) \/ state = "INIT" => active = Active0(c)
  BY <1>1, <1>2, ActiveCounted DEF ActiveWithout, Active0, Most, ClientsBooks
<1>5. CASE state # "INIT" /\ ~(InMulti(c) /\ handle[c])
  <2>1. ~InMulti(c) /\ state = client_state[c] /\ completion(c) \notin timers
        /\ ~tid_url_completion[c]
    BY <1>2, <1>5 DEF ClientsBooks, TimersExclusive
  <2>2. /\ ~ok /\ timers' = queue
        /\ tid_url_completion' = [tid_url_completion EXCEPT ![c] = FALSE]
        /\ client_state' = [client_state EXCEPT ![c] = state]
        /\ UNCHANGED <<walkVars, handle, multi, active_clients_count,
                       sleeping_clients_count, requests_completed>>
    BY <1>5 DEF load_next_step
  <2>3. /\ timers' = timers /\ tid_url_completion' = tid_url_completion
        /\ client_state' = client_state
    BY <1>1, <1>3, <2>1, <2>2 DEF Queue0
  <2>4. Refused(c, ok)
    BY <1>5, <2>1, <2>2, <2>3 DEF Refused, walkVars, clientVars, batchVars
  <2>5. QED BY <2>4
<1>6. CASE state # "INIT" => InMulti(c) /\ handle[c]
  <2>1. /\ state \in {"INIT", "URLS", "ERROR"} /\ active = Active0(c)
        /\ state = "INIT" => cycle_num[c] = 0
        /\ state = "URLS" => client_state[c] = "URLS"
        /\ state # "ERROR" => state = client_state[c]
        /\ sleeping(c) \notin timers
    BY <1>2, <1>4, <1>6, InitClient DEF ClientsBooks, WalksBegun, TimersExclusive
  <2>2. /\ Cycling = {} => cycling_completed
        /\ url_curr_index[c] > last_cycling_url => cycling_completed
        /\ client_state[c] = "URLS" /\ url_curr_index[c] <= last_cycling_url =>
             cycle_num[c] < cycles_num
    BY DEF ClientsBooks, WalksBegun, LogoffLast, CyclesLeft
  <2>3. CASE /\ run_over /\ ok /\ Retire(c, queue, active, FALSE)
             /\ requests_completed' = TRUE
             /\ client_state' = [client_state EXCEPT ![c] = state]
             /\ UNCHANGED walkVars
    <3>1. /\ url_curr_index' = [url_curr_index EXCEPT ![c] = url_curr_index[c]]
          /\ cycle_num' = [cycle_num EXCEPT ![c] = cycle_num[c]]
      BY <1>1, <2>3 DEF walkVars
    <3>2. Moves(c, state, url_curr_index[c], cycle_num[c], cycling_completed)
      <4>1. /\ cycling_completed' = cycling_completed /\ failures' = failures
            /\ requests_completed' = TRUE
            /\ client_state' = [client_state EXCEPT ![c] = state]
        BY <2>3 DEF walkVars
      <4>2. failures' \in 0 .. MaxFailures /\ failures <= failures'
        BY <1>1, <4>1
      <4>3. /\ state = "INIT" => cycle_num[c] = 0
            /\ state = "URLS" /\ url_curr_index[c] <= last_cycling_url =>
                 cycle_num[c] < cycles_num
            /\ state # "FINISHED_OK"
            /\ run_over
        BY <2>1, <2>2, <2>3
      <4>4. QED BY <2>2, <3>1, <4>1, <4>2, <4>3 DEF Moves
    <3>3. Leaves(c, FALSE)
      BY <1>3, <2>1, <2>3 DEF Retire, Leaves
    <3>4. Goes(c, ok, state, url_curr_index[c])
      BY <2>3, <3>3 DEF Goes
    <3>5. QED BY <1>1, <2>1, <3>2, <3>4
  <2>4. CASE /\ \E o \in Outcomes(here, state) :
                  /\ MoveTo(c, o)
                  /\ \/ /\ o.returned = "URLS" /\ ~o.wait
                        /\ client_add_to_load(c, o.walk.url, TRUE, queue, active, ok)
                        /\ UNCHANGED <<handle, sleeping_clients_count>>
                     \/ /\ o.returned = "URLS" /\ o.wait
                        /\ ok
                        /\ Sleep(c, queue, active)
                     \/ /\ o.returned = "ERROR"
                        /\ ~ok
                        /\ Retire(c, queue, active, TRUE)
                     \/ /\ o.returned = "FINISHED_OK"
                        /\ ok
                        /\ Retire(c, queue, active, FALSE)
             /\ UNCHANGED requests_completed
    <3>1. PICK o \in Outcomes(here, state) :
                  /\ MoveTo(c, o)
                  /\ \/ /\ o.returned = "URLS" /\ ~o.wait
                        /\ client_add_to_load(c, o.walk.url, TRUE, queue, active, ok)
                        /\ UNCHANGED <<handle, sleeping_clients_count>>
                     \/ /\ o.returned = "URLS" /\ o.wait
                        /\ ok
                        /\ Sleep(c, queue, active)
                     \/ /\ o.returned = "ERROR"
                        /\ ~ok
                        /\ Retire(c, queue, active, TRUE)
                     \/ /\ o.returned = "FINISHED_OK"
                        /\ ok
                        /\ Retire(c, queue, active, FALSE)
      BY <2>4
    <3> HIDE DEF queue, active
    <3>2. /\ here \in Walks /\ here.url = url_curr_index[c]
          /\ here.cycle = cycle_num[c] /\ here.completed = cycling_completed
          /\ ~here.over
      BY <1>1 DEF Walks
    <3> HIDE DEF here
    <3>3. OutcomeSound(o, here, state)
      BY <2>1, <2>2, <3>2, OutcomesSound
    <3> DEFINE u == o.walk.url
               n == o.walk.cycle
               d == o.walk.completed
    <3>4. u \in Urls /\ n \in Nat /\ d \in BOOLEAN /\ o.state \in States
      BY <3>3, <2>1 DEF OutcomeSound, Walks, States
    <3>5. Moves(c, o.state, u, n, d)
      <4>1. /\ failures' \in 0 .. MaxFailures /\ failures <= failures'
            /\ o.failed => failures' # 0
        BY <1>1, <3>1, <3>3 DEF MoveTo, OutcomeSound
      <4>2. QED
        BY <1>1, <2>1, <2>4, <3>1, <3>2, <3>3, <3>4, <4>1
        DEF Moves, MoveTo, OutcomeSound
    <3>6. Goes(c, ok, o.state, u)
      <4>1. CASE /\ o.returned = "URLS" /\ ~o.wait
                 /\ client_add_to_load(c, u, TRUE, queue, active, ok)
                 /\ UNCHANGED <<handle, sleeping_clients_count>>
        <5>1. o.state = "URLS"
          BY <4>1, <3>3 DEF OutcomeSound
        <5>2. Timeouts[u] \subseteq BOOLEAN
          BY <3>4, UrlsAssumption
        <5>3. CASE ok
          <6>1. Joins(c, u)
            BY <1>1, <1>3, <2>1, <4>1, <5>2, <5>3
            DEF client_add_to_load, TimeoutOf, Joins, queue, active
          <6>2. QED BY <5>1, <5>3, <6>1 DEF Goes
        <5>4. CASE ~ok
          <6>1. ~handle[c] /\ handle' = [handle EXCEPT ![c] = FALSE]
            BY <1>1, <4>1, <5>4 DEF client_add_to_load
          <6>2. Leaves(c, FALSE)
            BY <1>3, <2>1, <4>1, <5>4, <6>1
            DEF client_add_to_load, Leaves, queue, active
          <6>3. QED BY <5>4, <6>2 DEF Goes
        <5>5. QED BY <5>3, <5>4
      <4>2. CASE o.returned = "URLS" /\ o.wait /\ ok /\ Sleep(c, queue, active)
        <5>1. o.state = "URLS" /\ handle[c]
          BY <1>6, <3>3, <4>2 DEF OutcomeSound
        <5>2. Rests(c)
          BY <1>3, <2>1, <4>2, <5>1 DEF Sleep, Rests, queue, active
        <5>3. QED BY <4>2, <5>1, <5>2 DEF Goes
      <4>3. CASE o.returned = "ERROR" /\ ~ok /\ Retire(c, queue, active, TRUE)
        <5>1. Leaves(c, TRUE)
          BY <1>3, <2>1, <4>3 DEF Retire, Leaves, queue, active
        <5>2. o.state = state /\ (state = "INIT" \/ state = "ERROR")
          BY <2>1, <3>3, <4>3 DEF OutcomeSound
        <5>3. QED BY <1>2, <4>3, <5>1, <5>2 DEF Goes
      <4>4. CASE o.returned = "FINISHED_OK" /\ ok /\ Retire(c, queue, active, FALSE)
        <5>1. Leaves(c, FALSE)
          BY <1>3, <2>1, <4>4 DEF Retire, Leaves, queue, active
        <5>2. QED BY <4>4, <5>1 DEF Goes
      <4>5. QED BY <3>1, <4>1, <4>2, <4>3, <4>4
    <3>7. QED BY <2>1, <3>4, <3>5, <3>6
  <2>5. QED BY <1>6, <2>3, <2>4 DEF load_next_step
<1>7. QED BY <1>5, <1>6

(***************************************************************************)
(* The place of a client.                                                  *)
(***************************************************************************)

\* The names of the timers are all different.
LEMMA TimerNames ==
  ASSUME NEW c \in Clients
  PROVE  /\ sleeping(c) \in ClientTimers /\ completion(c) \in ClientTimers
         /\ sleeping(c) \notin PeriodicTimers /\ completion(c) \notin PeriodicTimers
         /\ \A d \in Clients :
              /\ sleeping(c) # completion(d)
              /\ sleeping(c) = sleeping(d) => c = d
              /\ completion(c) = completion(d) => c = d
BY DEF sleeping, completion, ClientTimers, PeriodicTimers, inc, rate, screen

Bit(b) == IF b THEN 1 ELSE 0
OthersOf(c) == timers \ {sleeping(c), completion(c)}

\* One client goes to a place, asleep or not and with its completion timer
\* armed or not.
Placed(c, m, asleep, armed) ==
  /\ multi' = [multi EXCEPT ![c] = m]
  /\ timers' = OthersOf(c) \cup (IF asleep THEN {sleeping(c)} ELSE {})
                           \cup (IF armed THEN {completion(c)} ELSE {})
  /\ tid_url_completion' = [tid_url_completion EXCEPT ![c] = armed]
  /\ active_clients_count' = active_clients_count - Bit(InMulti(c)) + Bit(m = "loading")
  /\ sleeping_clients_count' =
       sleeping_clients_count - Bit(sleeping(c) \in timers) + Bit(asleep)

\* The timers that such a step leaves in the queue.
LEMMA PlacedQueue ==
  ASSUME NEW c \in Clients, NEW m, NEW asleep \in BOOLEAN, NEW armed \in BOOLEAN,
         Placed(c, m, asleep, armed)
  PROVE  /\ (sleeping(c) \in timers)' <=> asleep
         /\ (completion(c) \in timers)' <=> armed
         /\ \A d \in Clients \ {c} :
              /\ (sleeping(d) \in timers)' <=> sleeping(d) \in timers
              /\ (completion(d) \in timers)' <=> completion(d) \in timers
         /\ \A t \in PeriodicTimers : (t \in timers)' <=> t \in timers
         /\ timers \ {sleeping(c), completion(c)} \subseteq timers'
         /\ timers' \subseteq timers \cup {sleeping(c), completion(c)}
<1>1. /\ sleeping(c)' = sleeping(c) /\ completion(c)' = completion(c)
      /\ \A d : sleeping(d)' = sleeping(d) /\ completion(d)' = completion(d)
  BY DEF sleeping, completion
<1>2. /\ sleeping(c) # completion(c)
      /\ \A t \in PeriodicTimers : t # sleeping(c) /\ t # completion(c)
      /\ \A d \in Clients \ {c} :
           /\ sleeping(d) # sleeping(c) /\ sleeping(d) # completion(c)
           /\ completion(d) # sleeping(c) /\ completion(d) # completion(c)
  <2>1. sleeping(c) # completion(c)
    BY TimerNames
  <2>2. ASSUME NEW t \in PeriodicTimers
        PROVE  t # sleeping(c) /\ t # completion(c)
    BY TimerNames
  <2>3. ASSUME NEW d \in Clients \ {c}
        PROVE  /\ sleeping(d) # sleeping(c) /\ sleeping(d) # completion(c)
               /\ completion(d) # sleeping(c) /\ completion(d) # completion(c)
    <3>1. /\ sleeping(c) # completion(d) /\ sleeping(c) # sleeping(d)
          /\ completion(c) # completion(d)
      BY TimerNames
    <3>2. sleeping(d) # completion(c)
      BY TimerNames
    <3>3. QED BY <3>1, <3>2
  <2>4. QED BY <2>1, <2>2, <2>3
<1> DEFINE new == (IF asleep THEN {sleeping(c)} ELSE {})
                  \cup (IF armed THEN {completion(c)} ELSE {})
<1>3. /\ timers' = (timers \ {sleeping(c), completion(c)}) \cup new
      /\ new \subseteq {sleeping(c), completion(c)}
  BY DEF Placed, OthersOf
<1>4. sleeping(c) \in new <=> asleep
  BY <1>2
<1>5. completion(c) \in new <=> armed
  BY <1>2
<1> HIDE DEF new
<1>6. \A t : t # sleeping(c) /\ t # completion(c) => (t \in timers' <=> t \in timers)
  BY <1>3
<1>7. /\ sleeping(c) \in timers' <=> asleep
      /\ completion(c) \in timers' <=> armed
  BY <1>3, <1>4, <1>5
<1>8. \A t \in PeriodicTimers : t \in timers' <=> t \in timers
  BY <1>2, <1>6
<1>9. PeriodicTimers' = PeriodicTimers
  BY DEF PeriodicTimers, inc, rate, screen
<1>10. QED BY <1>1, <1>2, <1>3, <1>6, <1>7, <1>8

\* The counters stay exact.
LEMMA PlacedCounts ==
  ASSUME CountsExact, multi \in [Clients -> Places], NEW c \in Clients, NEW m \in {"out", "loading"},
         NEW asleep \in BOOLEAN, NEW armed \in BOOLEAN, Placed(c, m, asleep, armed)
  PROVE  CountsExact'
<1> DEFINE A == {d \in Clients : InMulti(d)}
           B == {d \in Clients : sleeping(d) \in timers}
<1>1. /\ IsFiniteSet(A) /\ IsFiniteSet(B)
      /\ Cardinality(A) \in Nat /\ Cardinality(B) \in Nat
  BY ClientsFinite, FS_Subset, FS_CardinalityType
<1>2. active_clients_count = Cardinality(A) /\ sleeping_clients_count = Cardinality(B)
  BY DEF CountsExact
<1>3. A' = IF m = "loading" THEN A \cup {c} ELSE A \ {c}
  BY DEF Placed, InMulti
<1>4. B' = IF asleep THEN B \cup {c} ELSE B \ {c}
  BY PlacedQueue
<1>5. /\ c \in A <=> InMulti(c)
      /\ c \in B <=> sleeping(c) \in timers
  OBVIOUS
<1> HIDE DEF A, B
<1>6. Cardinality(A') = Cardinality(A) - Bit(InMulti(c)) + Bit(m = "loading")
  <2>1. Cardinality(A \cup {c}) = IF c \in A THEN Cardinality(A) ELSE Cardinality(A) + 1
    BY <1>1, FS_AddElement
  <2>2. Cardinality(A \ {c}) = IF c \in A THEN Cardinality(A) - 1 ELSE Cardinality(A)
    BY <1>1, FS_RemoveElement
  <2>3. CASE m = "loading"
    BY <1>1, <1>3, <1>5, <2>1, <2>3 DEF Bit
  <2>4. CASE ~(m = "loading")
    BY <1>1, <1>3, <1>5, <2>2, <2>4 DEF Bit
  <2>5. QED BY <2>3, <2>4
<1>7. Cardinality(B') = Cardinality(B) - Bit(sleeping(c) \in timers) + Bit(asleep)
  <2>1. Cardinality(B \cup {c}) = IF c \in B THEN Cardinality(B) ELSE Cardinality(B) + 1
    BY <1>1, FS_AddElement
  <2>2. Cardinality(B \ {c}) = IF c \in B THEN Cardinality(B) - 1 ELSE Cardinality(B)
    BY <1>1, FS_RemoveElement
  <2>3. CASE asleep
    BY <1>1, <1>4, <1>5, <2>1, <2>3 DEF Bit
  <2>4. CASE ~(asleep)
    BY <1>1, <1>4, <1>5, <2>2, <2>4 DEF Bit
  <2>5. QED BY <2>3, <2>4
<1>8. active_clients_count' = Cardinality(A') /\ sleeping_clients_count' = Cardinality(B')
  BY <1>2, <1>6, <1>7 DEF Placed
<1>9. QED BY <1>8 DEF CountsExact, A, B

\* The two timers of every client stay exclusive.
LEMMA PlacedTimers ==
  ASSUME ClientsBooks, NEW c \in Clients, NEW m \in {"out", "loading"},
         NEW asleep \in BOOLEAN, NEW armed \in BOOLEAN, Placed(c, m, asleep, armed),
         asleep => m = "out", armed => m = "loading"
  PROVE  TimersExclusive'
<1>1. multi \in [Clients -> Places] /\ tid_url_completion \in [Clients -> BOOLEAN]
  BY DEF ClientsBooks, ClientsTypeOK
<1>2. SUFFICES ASSUME NEW d \in Clients
               PROVE  /\ (sleeping(d) \in timers)' => multi'[d] = "out"
                      /\ (completion(d) \in timers)' => multi'[d] # "out"
                      /\ tid_url_completion'[d] <=> (completion(d) \in timers)'
  BY DEF TimersExclusive, InMulti
<1>3. CASE d = c
  BY <1>1, <1>3, PlacedQueue DEF Placed
<1>4. CASE d # c
  <2>1. /\ sleeping(d) \in timers => multi[d] = "out"
        /\ completion(d) \in timers => multi[d] # "out"
        /\ tid_url_completion[d] <=> completion(d) \in timers
    BY DEF ClientsBooks, TimersExclusive, InMulti
  <2>2. multi'[d] = multi[d] /\ tid_url_completion'[d] = tid_url_completion[d]
    BY <1>1, <1>4 DEF Placed
  <2>3. QED BY <1>4, <2>1, <2>2, PlacedQueue
<1>5. QED BY <1>3, <1>4

\* What the place has to do with the client's state, url and easy handle.
Settles(c, ok, st, u, m, asleep, armed, h) ==
  /\ Placed(c, m, asleep, armed)
  /\ handle' = [handle EXCEPT ![c] = h]
  /\ asleep => m = "out" /\ st = "URLS" /\ h
  /\ armed => m = "loading" /\ TRUE \in Timeouts[u]
  /\ m = "loading" => h /\ st = "URLS" /\ (Timeouts[u] = {TRUE} => armed)
  /\ ok \/ InMulti(c) =>
       asleep \/ m = "loading" \/ st \in {"FINISHED_OK", "ERROR"} \/ ~h

\* However load_next_step lets a client go, it comes to such a place.
LEMMA GoesSettles ==
  ASSUME ClientsBooks, NEW c \in Clients, NEW ok \in BOOLEAN, NEW st \in States,
         NEW u \in Urls, sleeping(c) \notin timers, Goes(c, ok, st, u)
  PROVE  \E m \in {"out", "loading"}, asleep, armed, h \in BOOLEAN :
           Settles(c, ok, st, u, m, asleep, armed, h)
<1>1. /\ active_clients_count \in Int /\ sleeping_clients_count \in Int
      /\ handle \in [Clients -> BOOLEAN]
  BY DEF ClientsBooks, ClientsTypeOK
<1>2. CASE ok /\ st = "URLS" /\ Joins(c, u)
  <2>1. handle[c] = TRUE /\ handle' = [handle EXCEPT ![c] = TRUE]
    BY <1>1, <1>2 DEF Joins
  <2>2. CASE /\ TRUE \in Timeouts[u]
             /\ timers' = Queue0(c) \cup {completion(c)}
             /\ tid_url_completion' = [tid_url_completion EXCEPT ![c] = TRUE]
    <3>1. Placed(c, "loading", FALSE, TRUE)
      BY <1>1, <1>2, <2>2 DEF Joins, Placed, Bit, Queue0, OthersOf, Active0
    <3>2. Settles(c, ok, st, u, "loading", FALSE, TRUE, TRUE)
      BY <1>2, <2>1, <2>2, <3>1 DEF Settles
    <3>3. QED BY <3>2
  <2>3. CASE /\ FALSE \in Timeouts[u]
             /\ timers' = Queue0(c)
             /\ tid_url_completion' = [tid_url_completion EXCEPT ![c] = FALSE]
    <3>1. Placed(c, "loading", FALSE, FALSE)
      BY <1>1, <1>2, <2>3 DEF Joins, Placed, Bit, Queue0, OthersOf, Active0
    <3>2. Settles(c, ok, st, u, "loading", FALSE, FALSE, TRUE)
      BY <1>2, <2>1, <2>3, <3>1 DEF Settles
    <3>3. QED BY <3>2
  <2>4. QED BY <1>2, <2>2, <2>3 DEF Joins
<1>3. CASE ok /\ st = "URLS" /\ Rests(c)
  <2>1. Placed(c, "out", TRUE, FALSE)
    BY <1>1, <1>3 DEF Rests, Placed, Bit, Queue0, OthersOf, Active0
  <2>2. handle' = [handle EXCEPT ![c] = handle[c]] /\ handle[c] = TRUE
    BY <1>1, <1>3 DEF Rests
  <2>3. Settles(c, ok, st, u, "out", TRUE, FALSE, handle[c])
    BY <1>3, <2>1, <2>2 DEF Settles
  <2>4. QED BY <2>2, <2>3
<1>4. ASSUME NEW h \in BOOLEAN, Leaves(c, h), ok => st = "FINISHED_OK" \/ ~h,
             ~ok => st = "ERROR" \/ ~h \/ (st = "INIT" /\ client_state[c] = "INIT")
      PROVE  Settles(c, ok, st, u, "out", FALSE, FALSE, h)
  <2>1. Placed(c, "out", FALSE, FALSE)
    BY <1>1, <1>4 DEF Leaves, Placed, Bit, Queue0, OthersOf, Active0
  <2>2. InMulti(c) => client_state[c] # "INIT"
    BY InitClient
  <2>3. QED BY <1>4, <2>1, <2>2 DEF Settles, Leaves
<1>5. QED BY <1>2, <1>3, <1>4 DEF Goes

(***************************************************************************)
(* What a step of one client leaves of the invariants.                     *)
(***************************************************************************)

\* A client moves to a url, a cycle and a state, and settles at a place.
Settled(c, ok) ==
  \E u \in Urls, n \in Nat, d \in BOOLEAN, st \in States,
     m \in {"out", "loading"}, asleep \in BOOLEAN, armed \in BOOLEAN, h \in BOOLEAN :
       Moves(c, st, u, n, d) /\ Settles(c, ok, st, u, m, asleep, armed, h)

\* What is then found of it and of the others.
Landed(c, st, u, n, m, asleep, armed, h) ==
  /\ client_state'[c] = st /\ url_curr_index'[c] = u /\ cycle_num'[c] = n
  /\ handle'[c] = h /\ multi'[c] = m
  /\ sleeping(c) \in timers' <=> asleep
  /\ completion(c) \in timers' <=> armed
  /\ \A e \in Clients \ {c} :
       /\ client_state'[e] = client_state[e] /\ url_curr_index'[e] = url_curr_index[e]
       /\ cycle_num'[e] = cycle_num[e] /\ handle'[e] = handle[e]
       /\ multi'[e] = multi[e]
       /\ sleeping(e) \in timers' <=> sleeping(e) \in timers
       /\ completion(e) \in timers' <=> completion(e) \in timers

LEMMA SettlesLands ==
  ASSUME ClientsTypeOK, NEW c \in Clients,
         NEW u \in Urls, NEW n \in Nat, NEW d \in BOOLEAN, NEW st \in States,
         NEW m \in {"out", "loading"}, NEW asleep \in BOOLEAN,
         NEW armed \in BOOLEAN, NEW h \in BOOLEAN, NEW ok \in BOOLEAN,
         Moves(c, st, u, n, d), Settles(c, ok, st, u, m, asleep, armed, h)
  PROVE  Landed(c, st, u, n, m, asleep, armed, h)
<1>1. Placed(c, m, asleep, armed)
  BY DEF Settles
<1>2. /\ client_state \in [Clients -> States] /\ url_curr_index \in [Clients -> Urls]
      /\ cycle_num \in [Clients -> Nat] /\ handle \in [Clients -> BOOLEAN]
      /\ multi \in [Clients -> Places]
  BY DEF ClientsTypeOK
<1>3. /\ client_state'[c] = st /\ url_curr_index'[c] = u /\ cycle_num'[c] = n
      /\ handle'[c] = h /\ multi'[c] = m
  BY <1>1, <1>2 DEF Moves, Settles, Placed
<1>4. \A e \in Clients \ {c} :
        /\ client_state'[e] = client_state[e] /\ url_curr_index'[e] = url_curr_index[e]
        /\ cycle_num'[e] = cycle_num[e] /\ handle'[e] = handle[e]
        /\ multi'[e] = multi[e]
  BY <1>1, <1>2 DEF Moves, Settles, Placed
<1>5. /\ sleeping(c) \in timers' <=> asleep
      /\ completion(c) \in timers' <=> armed
      /\ \A e \in Clients \ {c} :
           /\ sleeping(e) \in timers' <=> sleeping(e) \in timers
           /\ completion(e) \in timers' <=> completion(e) \in timers
  BY <1>1, PlacedQueue DEF sleeping, completion
<1>6. QED BY <1>3, <1>4, <1>5 DEF Landed

\* The step of one client that keeps the books; the others stay where they are.
Booked(c) ==
  /\ ClientsBooks'
  /\ timers \ {sleeping(c), completion(c)} \subseteq timers'
  /\ \A t \in PeriodicTimers : t \in timers' <=> t \in timers
  /\ \A d \in Clients \ {c} : /\ multi'[d] = multi[d]
                              /\ sleeping(d) \in timers' <=> sleeping(d) \in timers

\* A client that moves and settles takes such a step.
LEMMA SettledBooks ==
  ASSUME ClientsBooks, NEW c \in Clients, NEW ok \in BOOLEAN, Settled(c, ok)
  PROVE  Booked(c)
<1>1. PICK u \in Urls, n \in Nat, d \in BOOLEAN, st \in States,
           m \in {"out", "loading"}, asleep \in BOOLEAN, armed \in BOOLEAN, h \in BOOLEAN :
             Moves(c, st, u, n, d) /\ Settles(c, ok, st, u, m, asleep, armed, h)
  BY Zenon DEF Settled
<1>2. /\ Placed(c, m, asleep, armed)
      /\ asleep => m = "out" /\ st = "URLS" /\ h
      /\ armed => m = "loading" /\ TRUE \in Timeouts[u]
      /\ m = "loading" => h /\ st = "URLS"
  BY <1>1 DEF Settles
<1>3. /\ ClientsTypeOK /\ CountsExact /\ TimersExclusive /\ PlacesKnown
      /\ CyclesLeft /\ LogoffLast /\ WalksBegun
  BY DEF ClientsBooks
<1>4. /\ client_state \in [Clients -> States] /\ url_curr_index \in [Clients -> Urls]
      /\ cycle_num \in [Clients -> Nat] /\ handle \in [Clients -> BOOLEAN]
      /\ multi \in [Clients -> Places] /\ tid_url_completion \in [Clients -> BOOLEAN]
      /\ timers \subseteq ClientTimers \cup PeriodicTimers
      /\ cycling_completed \in BOOLEAN /\ sleeping_clients_count \in Int
  BY <1>3 DEF ClientsTypeOK
<1>5. /\ client_state' \in [Clients -> States] /\ url_curr_index' \in [Clients -> Urls]
      /\ cycle_num' \in [Clients -> Nat] /\ handle' \in [Clients -> BOOLEAN]
      /\ multi' \in [Clients -> Places] /\ tid_url_completion' \in [Clients -> BOOLEAN]
      /\ cycling_completed' = d /\ requests_completed' \in BOOLEAN
      /\ failures' \in 0 .. MaxFailures
  BY <1>1, <1>2, <1>4 DEF Moves, Settles, Placed, Places
<1>6. Landed(c, st, u, n, m, asleep, armed, h)
  BY <1>1, <1>3, SettlesLands
<1>7. /\ timers \ {sleeping(c), completion(c)} \subseteq timers'
      /\ timers' \subseteq timers \cup {sleeping(c), completion(c)}
      /\ \A t \in PeriodicTimers : t \in timers' <=> t \in timers
  BY <1>2, PlacedQueue DEF PeriodicTimers, inc, rate, screen
<1>8. CountsExact' /\ TimersExclusive'
  BY <1>2, <1>3, <1>4, PlacedCounts, PlacedTimers
<1>9. ClientsTypeOK'
  <2>1. timers' \subseteq ClientTimers \cup PeriodicTimers
    BY <1>4, <1>7, TimerNames
  <2>2. active_clients_count' \in Nat
    BY <1>8, ClientsFinite, FS_Subset, FS_CardinalityType DEF CountsExact
  <2>3. sleeping_clients_count' \in Int
    BY <1>2, <1>4 DEF Placed, Bit
  <2>4. QED BY <1>5, <2>1, <2>2, <2>3
            DEF ClientsTypeOK, ClientTimers, PeriodicTimers, inc, rate, screen
<1>10. PlacesKnown'
  <2>1. SUFFICES ASSUME NEW e \in Clients
                 PROVE  /\ multi'[e] # "out" \/ sleeping(e) \in timers' => handle'[e]
                        /\ sleeping(e) \in timers' => client_state'[e] = "URLS"
                        /\ multi'[e] # "out" => client_state'[e] \in {"URLS", "ERROR"}
                        /\ completion(e) \in timers' => TRUE \in Timeouts[url_curr_index'[e]]
    BY DEF PlacesKnown, Kept, InMulti, sleeping, completion
  <2>2. CASE e = c
    BY <1>2, <1>6, <2>2 DEF Landed
  <2>3. CASE e # c
    BY <1>3, <1>6, <2>3 DEF Landed, PlacesKnown, Kept, InMulti
  <2>4. QED BY <2>2, <2>3
<1>11. /\ cycling_completed => d
       /\ u > last_cycling_url => d
       /\ st = "INIT" => n = 0
       /\ st = "URLS" /\ u <= last_cycling_url => n < cycles_num
       /\ st = "FINISHED_OK" => d /\ u = urls_num - 1
  BY <1>1 DEF Moves
<1>12. CyclesLeft'
  BY <1>3, <1>6, <1>11 DEF CyclesLeft, Landed
<1>13. LogoffLast'
  <2>1. SUFFICES ASSUME NEW e \in Clients
                 PROVE  /\ url_curr_index'[e] > last_cycling_url => d
                        /\ client_state'[e] = "FINISHED_OK" =>
                             d /\ url_curr_index'[e] = urls_num - 1
    BY <1>5 DEF LogoffLast
  <2>2. CASE e = c
    BY <1>6, <1>11, <2>2 DEF Landed
  <2>3. CASE e # c
    BY <1>3, <1>6, <1>11, <2>3 DEF LogoffLast, Landed
  <2>4. QED BY <2>2, <2>3
<1>14. WalksBegun'
  BY <1>3, <1>5, <1>6, <1>11 DEF WalksBegun, Landed
<1>15. \A e \in Clients \ {c} : /\ multi'[e] = multi[e]
                                /\ sleeping(e) \in timers' <=> sleeping(e) \in timers
  BY <1>6 DEF Landed
<1>16. QED
  BY <1>7, <1>8, <1>9, <1>10, <1>12, <1>13, <1>14, <1>15 DEF Booked, ClientsBooks

\* Without a fixed rate it is a step that loses none of the others; nor is the
\* client lost, if it Keeps.
ClientsInv == ClientsBooks /\ TransfersGuarded /\ PlacesSound /\ WalksSound
Stepped(c) ==
  /\ ClientsInv'
  /\ timers \ {sleeping(c), completion(c)} \subseteq timers'
  /\ \A t \in PeriodicTimers : t \in timers' <=> t \in timers
  /\ \A d \in Clients \ {c} : Kept(d) \/ Final(d) => (Kept(d) \/ Final(d))'
Keeps(c) == (Kept(c) \/ Final(c))'

LEMMA SettledStep ==
  ASSUME ClientsInv, run_over' = run_over, NEW c \in Clients, NEW ok \in BOOLEAN,
         Settled(c, ok)
  PROVE  Stepped(c) /\ (ok \/ InMulti(c) => Keeps(c))
<1>1. PICK u \in Urls, n \in Nat, d \in BOOLEAN, st \in States,
           m \in {"out", "loading"}, asleep \in BOOLEAN, armed \in BOOLEAN, h \in BOOLEAN :
             Moves(c, st, u, n, d) /\ Settles(c, ok, st, u, m, asleep, armed, h)
  BY Zenon DEF Settled
<1>2. /\ asleep \/ m = "loading" => st = "URLS"
      /\ m = "loading" /\ Timeouts[u] = {TRUE} => armed
      /\ ok \/ InMulti(c) =>
           asleep \/ m = "loading" \/ st \in {"FINISHED_OK", "ERROR"} \/ ~h
      /\ m # "read" /\ (m # "out" => m = "loading")
  BY <1>1 DEF Settles
<1>3. Booked(c) /\ ClientsBooks /\ ClientsTypeOK
  BY SettledBooks DEF ClientsInv, ClientsBooks
<1>4. Landed(c, st, u, n, m, asleep, armed, h)
  BY <1>1, <1>3, SettlesLands
<1>5. TransfersGuarded'
  <2>1. SUFFICES ASSUME NEW e \in Clients, multi'[e] = "loading",
                        Timeouts[url_curr_index'[e]] = {TRUE}
                 PROVE  completion(e) \in timers'
    BY DEF TransfersGuarded, completion
  <2>2. CASE e = c
    BY <1>2, <1>4, <2>1, <2>2 DEF Landed
  <2>3. CASE e # c
    BY <1>4, <2>1, <2>3 DEF Landed, ClientsInv, TransfersGuarded
  <2>4. QED BY <2>2, <2>3
<1>6. PlacesSound'
  <2>1. SUFFICES ASSUME NEW e \in Clients
                 PROVE  /\ multi'[e] # "read"
                        /\ multi'[e] # "out" \/ sleeping(e) \in timers' =>
                             client_state'[e] = "URLS"
    BY DEF PlacesSound, Kept, InMulti, sleeping
  <2>2. CASE e = c
    BY <1>2, <1>4, <2>2 DEF Landed
  <2>3. CASE e # c
    BY <1>4, <2>3 DEF Landed, ClientsInv, PlacesSound, Kept, InMulti
  <2>4. QED BY <2>2, <2>3
<1>7. WalksSound'
  <2>1. /\ st = "ERROR" /\ ErrorRecovery /\ failures' = 0 /\ ~run_over => n >= cycles_num
        /\ failures' = 0 => failures = 0
    BY <1>1, <1>3, ModeAssumption DEF Moves, ClientsTypeOK
  <2>2. SUFFICES ASSUME NEW e \in Clients, ErrorRecovery, failures' = 0, ~run_over,
                        client_state'[e] = "ERROR"
                 PROVE  cycle_num'[e] >= cycles_num
    BY DEF WalksSound
  <2>3. CASE e = c
    BY <1>4, <2>1, <2>2, <2>3 DEF Landed
  <2>4. CASE e # c
    BY <1>4, <2>1, <2>2, <2>4 DEF Landed, ClientsInv, WalksSound
  <2>5. QED BY <2>3, <2>4
<1>8. \A e \in Clients \ {c} : Kept(e) \/ Final(e) => (Kept(e) \/ Final(e))'
  BY <1>4 DEF Landed, Kept, Final, InMulti, sleeping
<1>9. ok \/ InMulti(c) => Keeps(c)
  BY <1>2, <1>4 DEF Landed, Keeps, Kept, Final, InMulti, sleeping
<1>10. QED
  BY <1>3, <1>5, <1>6, <1>7, <1>8, <1>9 DEF Stepped, ClientsInv, Booked

\* A step that leaves the clients and their timers alone keeps the books.
LEMMA BooksUnchanged ==
  ASSUME ClientsBooks, UNCHANGED <<clientVars, batchVars, failures>>,
         timers \ PeriodicTimers \subseteq timers',
         timers' \subseteq timers \cup PeriodicTimers
  PROVE  /\ ClientsBooks'
         /\ \A d \in Clients : /\ sleeping(d) \in timers' <=> sleeping(d) \in timers
                               /\ completion(d) \in timers' <=> completion(d) \in timers
<1>1. /\ client_state' = client_state /\ url_curr_index' = url_curr_index
      /\ cycle_num' = cycle_num /\ handle' = handle /\ multi' = multi
      /\ tid_url_completion' = tid_url_completion
      /\ active_clients_count' = active_clients_count
      /\ sleeping_clients_count' = sleeping_clients_count
      /\ cycling_completed' = cycling_completed
      /\ requests_completed' = requests_completed /\ failures' = failures
  BY DEF clientVars, batchVars
<1>2. \A d \in Clients : /\ sleeping(d) \in timers' <=> sleeping(d) \in timers
                         /\ completion(d) \in timers' <=> completion(d) \in timers
  BY TimerNames
<1>3. ClientsTypeOK'
  <2>1. timers' \subseteq ClientTimers \cup PeriodicTimers
    BY DEF ClientsBooks, ClientsTypeOK
  <2>2. QED BY <1>1, <2>1 DEF ClientsBooks, ClientsTypeOK, ClientTimers,
                             PeriodicTimers, inc, rate, screen
<1>4. CountsExact'
  <2>1. {d \in Clients : InMulti(d)}' = {d \in Clients : InMulti(d)}
    BY <1>1 DEF InMulti
  <2>2. {d \in Clients : sleeping(d) \in timers}' = {d \in Clients : sleeping(d) \in timers}
    BY <1>2 DEF sleeping
  <2>3. QED BY <1>1, <2>1, <2>2 DEF ClientsBooks, CountsExact
<1>5. TimersExclusive' /\ PlacesKnown'
  BY <1>1, <1>2 DEF ClientsBooks, TimersExclusive, PlacesKnown, Kept, InMulti,
                    sleeping, completion
<1>6. CyclesLeft' /\ LogoffLast' /\ WalksBegun'
  BY <1>1 DEF ClientsBooks, CyclesLeft, LogoffLast, WalksBegun
<1>7. QED BY <1>2, <1>3, <1>4, <1>5, <1>6 DEF ClientsBooks

\* Without a fixed rate it loses nobody.
LEMMA ClientsUnchanged ==
  ASSUME LoadInv, run_over => run_over', run_over' \in BOOLEAN,
         UNCHANGED <<clientVars, batchVars, failures>>,
         timers \ PeriodicTimers \subseteq timers',
         timers' \subseteq timers \cup PeriodicTimers
  PROVE  /\ ClientsInv'
         /\ \A d \in Clients : Kept(d) \/ Final(d) => (Kept(d) \/ Final(d))'
<1>1. /\ client_state' = client_state /\ url_curr_index' = url_curr_index
      /\ cycle_num' = cycle_num /\ handle' = handle /\ multi' = multi
      /\ failures' = failures
  BY DEF clientVars
<1>2. ClientsBooks
  BY DEF LoadInv, TypeOK, ClientsBooks, ClientsTypeOK
<1>3. /\ ClientsBooks'
      /\ \A d \in Clients : /\ sleeping(d) \in timers' <=> sleeping(d) \in timers
                            /\ completion(d) \in timers' <=> completion(d) \in timers
  BY <1>2, BooksUnchanged
<1>4. TransfersGuarded' /\ PlacesSound'
  BY <1>1, <1>3 DEF LoadInv, TransfersGuarded, PlacesSound, Kept, InMulti,
                    sleeping, completion
<1>5. WalksSound'
  BY <1>1 DEF LoadInv, WalksSound
<1>6. \A d \in Clients : Kept(d) \/ Final(d) => (Kept(d) \/ Final(d))'
  BY <1>1, <1>3 DEF Kept, Final, InMulti, sleeping
<1>7. QED BY <1>3, <1>4, <1>5, <1>6 DEF ClientsInv

\* load_next_step leaves a client alone or lets it settle.
LEMMA LoadSettles ==
  ASSUME ClientsBooks, NEW c \in Clients, NEW state \in States,
         NEW armed \in BOOLEAN, NEW ok \in BOOLEAN,
         armed <=> completion(c) \in timers,
         state = client_state[c] \/ (state = "ERROR" /\ InMulti(c)),
         load_next_step(c, state, armed, ok)
  PROVE  Refused(c, ok) \/ (sleeping(c) \notin timers /\ Settled(c, ok))
<1>1. CASE /\ sleeping(c) \notin timers
           /\ \E u \in Urls, n \in Nat, d \in BOOLEAN, st \in States :
                Moves(c, st, u, n, d) /\ Goes(c, ok, st, u)
  <2>1. PICK u \in Urls, n \in Nat, d \in BOOLEAN, st \in States :
               Moves(c, st, u, n, d) /\ Goes(c, ok, st, u)
    BY <1>1
  <2>2. PICK m \in {"out", "loading"}, asleep \in BOOLEAN, armed2 \in BOOLEAN,
             h \in BOOLEAN : Settles(c, ok, st, u, m, asleep, armed2, h)
    BY <1>1, <2>1, GoesSettles
  <2>3. Settled(c, ok)
    BY <2>1, <2>2 DEF Settled
  <2>4. QED BY <1>1, <2>3
<1>2. QED BY <1>1, LoadEffect

\* So it keeps the books.
LEMMA LoadBooks ==
  ASSUME ClientsBooks, NEW c \in Clients, NEW state \in States,
         NEW armed \in BOOLEAN, NEW ok \in BOOLEAN,
         armed <=> completion(c) \in timers,
         state = client_state[c] \/ (state = "ERROR" /\ InMulti(c)),
         load_next_step(c, state, armed, ok)
  PROVE  Booked(c) /\ timers \ {completion(c)} \subseteq timers'
<1>1. CASE Refused(c, ok)
  <2>1. /\ UNCHANGED <<clientVars, batchVars, failures>> /\ timers' = timers
        /\ multi' = multi
    BY <1>1 DEF Refused, clientVars
  <2>2. ClientsBooks'
    BY <2>1, BooksUnchanged
  <2>3. QED BY <2>1, <2>2 DEF Booked
<1>2. CASE sleeping(c) \notin timers /\ Settled(c, ok)
  <2>1. Booked(c)
    BY <1>2, SettledBooks
  <2>2. timers \ {completion(c)} = timers \ {sleeping(c), completion(c)}
    BY <1>2
  <2>3. QED BY <2>1, <2>2 DEF Booked
<1>3. QED BY <1>1, <1>2, LoadSettles

\* And loses nobody, without a fixed rate.
LEMMA LoadStep ==
  ASSUME ClientsInv, run_over' = run_over, NEW c \in Clients, NEW state \in States,
         NEW armed \in BOOLEAN, NEW ok \in BOOLEAN,
         armed <=> completion(c) \in timers,
         state = client_state[c] \/ (state = "ERROR" /\ InMulti(c)),
         load_next_step(c, state, armed, ok)
  PROVE  /\ Stepped(c) /\ (ok \/ InMulti(c) => Keeps(c))
         /\ timers \ {completion(c)} \subseteq timers'
<1>1. /\ Booked(c) /\ timers \ {completion(c)} \subseteq timers'
      /\ Refused(c, ok) \/ Settled(c, ok)
  BY LoadBooks, LoadSettles DEF ClientsInv
<1>2. CASE Refused(c, ok)
  <2>1. /\ client_state' = client_state /\ url_curr_index' = url_curr_index
        /\ cycle_num' = cycle_num /\ handle' = handle /\ multi' = multi
        /\ failures' = failures /\ timers' = timers /\ ~ok /\ ~InMulti(c)
    BY <1>2 DEF Refused, clientVars
  <2>2. TransfersGuarded' /\ PlacesSound' /\ WalksSound'
    BY <2>1 DEF ClientsInv, TransfersGuarded, PlacesSound, WalksSound, Kept,
                InMulti, sleeping, completion
  <2>3. \A d \in Clients : Kept(d) \/ Final(d) => (Kept(d) \/ Final(d))'
    BY <2>1 DEF Kept, Final, InMulti, sleeping
  <2>4. QED BY <1>1, <2>1, <2>2, <2>3 DEF Stepped, ClientsInv, Booked
<1>3. CASE Settled(c, ok)
  BY <1>1, <1>3, SettledStep
<1>4. QED BY <1>1, <1>2, <1>3

\* A client whose sleeping timer has expired is back in the multi handle.
LEMMA WakeSettles ==
  ASSUME ClientsBooks, NEW c \in Clients, NEW ok \in BOOLEAN,
         sleeping(c) \in timers,
         sleeping_clients_count' = sleeping_clients_count - 1,
         client_add_to_load(c, url_curr_index[c], ~InMulti(c),
                            timers \ {sleeping(c)}, active_clients_count, ok),
         UNCHANGED <<client_state, url_curr_index, cycle_num, handle, failures,
                     cycling_completed, requests_completed>>
  PROVE  ok /\ Settled(c, ok)
<1>1. PICK u \in Urls, n \in Nat, d \in BOOLEAN :
         u = url_curr_index[c] /\ n = cycle_num[c] /\ d = cycling_completed
  BY DEF ClientsBooks, ClientsTypeOK
<1>2. /\ client_state \in [Clients -> States] /\ url_curr_index \in [Clients -> Urls]
      /\ cycle_num \in [Clients -> Nat] /\ handle \in [Clients -> BOOLEAN]
      /\ multi \in [Clients -> Places] /\ cycling_completed \in BOOLEAN
      /\ requests_completed \in BOOLEAN /\ failures \in 0 .. MaxFailures
      /\ active_clients_count \in Int /\ sleeping_clients_count \in Int
  BY DEF ClientsBooks, ClientsTypeOK
<1>3. /\ client_state[c] = "URLS" /\ ~InMulti(c) /\ multi[c] = "out"
      /\ handle[c] = TRUE /\ completion(c) \notin timers
  BY <1>2 DEF ClientsBooks, TimersExclusive, PlacesKnown, Kept, InMulti
<1>4. Moves(c, "URLS", u, n, d)
  <2>1. /\ failures' \in 0 .. MaxFailures /\ failures <= failures'
    BY <1>2, ModeAssumption
  <2>2. /\ u > last_cycling_url => cycling_completed
        /\ u <= last_cycling_url => cycle_num[c] < cycles_num
    BY <1>1, <1>3 DEF ClientsBooks, LogoffLast, CyclesLeft
  <2>3. QED BY <1>1, <1>2, <1>3, <2>1, <2>2 DEF Moves
<1>5. timers \ {sleeping(c)} = OthersOf(c)
  BY <1>3 DEF OthersOf
<1>6. Timeouts[u] \subseteq BOOLEAN
  BY <1>2, UrlsAssumption
<1>7. handle' = [handle EXCEPT ![c] = TRUE]
  BY <1>2, <1>3
<1>8. ok
  BY <1>3 DEF client_add_to_load
<1>9. /\ multi' = [multi EXCEPT ![c] = "loading"]
      /\ active_clients_count' = active_clients_count + 1
  BY <1>8 DEF client_add_to_load
<1>10. PICK armed \in Timeouts[u] :
         /\ timers' = IF armed THEN (timers \ {sleeping(c)}) \cup {completion(c)}
                               ELSE timers \ {sleeping(c)}
         /\ tid_url_completion' = [tid_url_completion EXCEPT ![c] = armed]
  BY <1>1, <1>8 DEF client_add_to_load, TimeoutOf
<1>11. Placed(c, "loading", FALSE, armed)
  BY <1>2, <1>3, <1>5, <1>6, <1>9, <1>10 DEF Placed, Bit
<1>12. armed => TRUE \in Timeouts[u]
  BY <1>6, <1>10
<1>13. Timeouts[u] = {TRUE} => armed
  BY <1>10
<1>14. Settles(c, ok, "URLS", u, "loading", FALSE, armed, TRUE)
  BY <1>7, <1>11, <1>12, <1>13 DEF Settles
<1>15. "URLS" \in States /\ armed \in BOOLEAN
  BY <1>6, <1>10 DEF States
<1>16. Settled(c, ok)
  BY <1>4, <1>14, <1>15 DEF Settled
<1>17. QED BY <1>8, <1>16
-----------------------------------------------------------------------------
\* The types of the variables that are not the clients'.
LoopTypeOK ==
  /\ clients_current_sched_num \in 0 .. client_num_max
  /\ do_gradual \in BOOLEAN /\ stop_gradual \in BOOLEAN /\ run_over \in BOOLEAN
  /\ free_clients \in Seq(Clients)
  /\ invocation \in 0 .. InvsPerSec
  /\ phase \in {"init", "test", "perform", "drain", "dispatch", "handle",
                "exited", "failed"}
  /\ rounds \in 0 .. SelectRounds
  /\ due \subseteq timers
  /\ sched \in [by : {"none", "init", "inc", "key", "rate"}, next : Nat, last : Nat]
  /\ keys \in 0 .. MaxKeys

LoopInv == LoopTypeOK /\ LoopSound /\ RampSound /\ NoClientLost /\ PassedKept

\* The invariant is that of the clients and that of the loop.
LEMMA InvParts ==
  ASSUME LoadInv
  PROVE  ClientsInv /\ ClientsBooks /\ LoopInv
BY DEF LoadInv, TypeOK, ClientsInv, ClientsBooks, ClientsTypeOK, LoopInv, LoopTypeOK

\* The other way round, after a step.
LEMMA InvFromParts ==
  ASSUME ClientsInv', LoopInv'
  PROVE  LoadInv'
BY DEF LoadInv, TypeOK, ClientsInv, ClientsBooks, ClientsTypeOK, LoopInv, LoopTypeOK

\* A load has a fixed request rate or none.
LEMMA RateOrNot == NoRate \/ FixedRate
BY BatchAssumption DEF NoRate, FixedRate

\* With a fixed request rate every client is free at first.
LEMMA InitFree ==
  ASSUME FixedRate, Init
  PROVE  FreeListSound /\ free_clients \in Seq(Clients) /\ Len(free_clients) = client_num_max
<1>1. client_num_max \in Nat \ {0} /\ req_rate \in Nat /\ req_rate > 0
  BY BatchAssumption DEF FixedRate
<1>2. free_clients = [i \in 1 .. client_num_max |-> client_num_max - i]
  BY <1>1 DEF Init
<1>3. /\ free_clients \in [1 .. client_num_max -> Clients]
      /\ \A i, j \in 1 .. client_num_max : free_clients[i] = free_clients[j] => i = j
  BY <1>1, <1>2 DEF Clients
<1>4. /\ free_clients \in Seq(Clients) /\ Len(free_clients) = client_num_max
      /\ DOMAIN free_clients = 1 .. client_num_max
  BY <1>1, <1>2, <1>3
<1>5. \A c \in Clients : /\ multi[c] = "out"
                         /\ sleeping(c) \notin timers /\ completion(c) \notin timers
  BY TimerNames DEF Init, PeriodicTimers
<1>6. FreeListSound
  BY <1>1, <1>3, <1>4, <1>5 DEF FreeListSound
<1>7. QED BY <1>4, <1>6

\* The first state of a load, whatever the load.
LEMMA InitBooks ==
  ASSUME Init
  PROVE  BooksInv
<1>1. /\ client_num_max \in Nat \ {0} /\ client_num_start \in 0 .. client_num_max
      /\ clients_rampup_inc \in Nat /\ InvsPerSec \in Nat /\ SelectRounds \in Nat
      /\ MaxKeys \in Nat /\ MaxFailures \in Nat /\ req_rate \in Nat
      /\ 0 \in Urls
  BY BatchAssumption, ModeAssumption, UrlsAre0ToLast
<1>2. /\ sched = [by |-> "init", last |-> clients_to_sched,
                next |-> IF req_rate > 0 THEN clients_to_sched ELSE 0]
      /\ clients_to_sched \in 0 .. client_num_max
      /\ clients_current_sched_num = 0
  BY <1>1 DEF Init, SchedFrom, clients_to_sched, Least
<1>3. \A c \in Clients : /\ multi[c] = "out" /\ ~tid_url_completion[c]
                         /\ sleeping(c) \notin timers /\ completion(c) \notin timers
  BY TimerNames DEF Init, PeriodicTimers
<1>4. TypeOK
  <2>1. timers \subseteq ClientTimers \cup PeriodicTimers /\ due \subseteq timers
    BY DEF Init, PeriodicTimers
  <2>2. /\ client_state \in [Clients -> States] /\ url_curr_index \in [Clients -> Urls]
        /\ cycle_num \in [Clients -> Nat] /\ handle \in [Clients -> BOOLEAN]
        /\ multi \in [Clients -> Places]
        /\ tid_url_completion \in [Clients -> BOOLEAN]
    BY <1>1 DEF Init, States, Places
  <2>3. /\ active_clients_count \in Nat /\ sleeping_clients_count \in Int
        /\ clients_current_sched_num \in 0 .. client_num_max
        /\ invocation \in 0 .. InvsPerSec /\ rounds \in 0 .. SelectRounds
        /\ keys \in 0 .. MaxKeys /\ failures \in 0 .. MaxFailures
        /\ phase \in {"init", "test", "perform", "drain", "dispatch", "handle",
                      "exited", "failed"}
    BY <1>1 DEF Init
  <2>4. {do_gradual, stop_gradual, cycling_completed, requests_completed,
         run_over} \subseteq BOOLEAN
    BY DEF Init
  <2>5. sched \in [by : {"none", "init", "inc", "key", "rate"}, next : Nat, last : Nat]
    BY <1>1, <1>2
  <2>6. free_clients \in Seq(Clients)
    <3>1. CASE FixedRate
      BY <3>1, InitFree
    <3>2. CASE NoRate
      BY <3>2 DEF Init, NoRate
    <3>3. QED BY <3>1, <3>2, RateOrNot
  <2>7. QED BY <2>1, <2>2, <2>3, <2>4, <2>5, <2>6 DEF TypeOK
<1>5. CountsExact
  <2>1. {c \in Clients : InMulti(c)} = {} /\ {c \in Clients : sleeping(c) \in timers} = {}
    BY <1>3 DEF InMulti
  <2>2. QED BY <2>1, FS_EmptySet DEF Init, CountsExact
<1>6. TimersExclusive /\ PlacesKnown
  BY <1>3 DEF TimersExclusive, PlacesKnown, InMulti, Kept
<1>7. CyclesLeft /\ LogoffLast /\ WalksBegun
  <2>1. Cycling # {} => last_cycling_url \in Nat
    BY UrlsAre0ToLast, CyclingUrls
  <2>2. \A c \in Clients : /\ client_state[c] = "INIT" /\ url_curr_index[c] = 0
                           /\ cycle_num[c] = 0
    BY DEF Init
  <2>3. cycling_completed <=> Cycling = {}
    BY DEF Init
  <2>4. CyclesLeft
    BY <2>2 DEF CyclesLeft
  <2>5. LogoffLast
    BY <2>1, <2>2, <2>3 DEF LogoffLast
  <2>6. QED BY <2>2, <2>3, <2>4, <2>5 DEF WalksBegun
<1>8. RampRespected
  BY <1>1, <1>2, InitFree DEF RampRespected, InUse, FixedRate
<1>9. SchedSound
  BY <1>1, <1>2 DEF Init, SchedSound, inc, screen
<1>10. QED BY <1>4, <1>5, <1>6, <1>7, <1>8, <1>9 DEF BooksInv

\* Without a fixed rate there is more to it.
LEMMA InitLoad ==
  ASSUME NoRate, Init
  PROVE  LoadInv
<1> USE NoRate DEF NoRate
<1>1. client_num_max \in Nat \ {0} /\ client_num_start \in 0 .. client_num_max
      /\ clients_rampup_inc \in Nat
  BY BatchAssumption, ModeAssumption
<1>2. sched = [by |-> "init", next |-> 0, last |-> clients_to_sched]
      /\ clients_to_sched \in 0 .. client_num_max
  BY <1>1 DEF Init, SchedFrom, clients_to_sched, Least
<1>3. /\ BooksInv
      /\ \A c \in Clients : /\ client_state[c] = "INIT" /\ multi[c] = "out"
                            /\ sleeping(c) \notin timers
  BY InitBooks, TimerNames DEF Init, PeriodicTimers
<1>4. TransfersGuarded /\ PlacesSound /\ WalksSound
  BY <1>3 DEF TransfersGuarded, PlacesSound, WalksSound, Kept, InMulti
<1>5. LoopSound
  BY <1>1, <1>2 DEF Init, LoopSound, Idle
<1>6. RampSound
  BY <1>2 DEF Init, RampSound, inc, rate, screen
<1>7. NoClientLost /\ PassedKept
  BY <1>2 DEF Init, NoClientLost, PassedKept
<1>8. QED
  BY <1>3, <1>4, <1>5, <1>6, <1>7 DEF BooksInv, LoadInv

(***************************************************************************)
(* Steps of the loop that leave the clients alone.                         *)
(***************************************************************************)

\* The loop goes from one phase to another.
LEMMA PhaseStep ==
  ASSUME LoadInv, run_over => run_over', run_over' \in BOOLEAN,
         UNCHANGED <<clientVars, batchVars, rampVars, rateVars, sched, keys, failures>>,
         timers' = timers \/ timers' = timers \ PeriodicTimers,
         phase \notin {"init", "failed"},
         phase' \in {"test", "perform", "drain", "dispatch", "handle", "exited"},
         rounds' \in 0 .. SelectRounds,
         due' \subseteq timers',
         phase' # "handle" => due' = {} /\ Idle
  PROVE  LoadInv'
<1>1. /\ ClientsInv'
      /\ \A c \in Clients : Kept(c) \/ Final(c) => (Kept(c) \/ Final(c))'
  BY ClientsUnchanged
<1>2. /\ clients_current_sched_num' = clients_current_sched_num
      /\ do_gradual' = do_gradual /\ stop_gradual' = stop_gradual
      /\ free_clients' = free_clients /\ invocation' = invocation
      /\ sched' = sched /\ keys' = keys /\ (Idle' <=> Idle)
  BY DEF rampVars, rateVars, Idle
<1>3. LoopTypeOK /\ LoopSound /\ RampSound /\ NoClientLost /\ PassedKept
  BY InvParts DEF LoopInv
<1>4. LoopTypeOK'
  BY <1>2, <1>3 DEF LoopTypeOK
<1>5. LoopSound'
  BY <1>2, <1>3 DEF LoopSound
<1>6. RampSound'
  BY <1>2, <1>3 DEF RampSound, inc, rate
<1>7. NoClientLost' /\ PassedKept'
  <2>1. \A c \in 0 .. clients_current_sched_num - 1 : c \in Clients
    BY <1>3, ClientsFinite DEF LoopTypeOK
  <2>2. ~Idle => \A c \in 0 .. sched.next - 1 : c \in Clients
    BY <1>3, ClientsFinite DEF LoopTypeOK, LoopSound
  <2>3. QED BY <1>1, <1>2, <1>3, <2>1, <2>2 DEF NoClientLost, PassedKept
<1>8. QED BY <1>1, <1>4, <1>5, <1>6, <1>7, InvFromParts DEF LoopInv

\* The steps that are nothing else.
LEMMA LoopSteps ==
  ASSUME LoadInv,
         \/ Test \/ Exit \/ RunTimePasses \/ BeginDrain \/ EndDrain \/ NoKey \/ DispatchEnd
         \/ \E expired \in SUBSET timers : DispatchBegin(expired)
  PROVE  LoadInv'
<1>1. LoopTypeOK /\ LoopSound /\ SelectRounds \in Nat
  BY InvParts, ModeAssumption DEF LoopInv
<1>2. /\ phase # "handle" => due = {}
      /\ phase \notin {"init", "handle"} => Idle
      /\ run_over \in BOOLEAN /\ due \subseteq timers /\ rounds \in 0 .. SelectRounds
      /\ \A t : t \in due => t \in timers
  BY <1>1 DEF LoopSound, LoopTypeOK
<1>3. CASE Test
  <2> USE <1>3 DEF Test, boundVars
  <2>1. QED BY <1>1, <1>2, PhaseStep
<1>4. CASE Exit
  <2> USE <1>4 DEF Exit, boundVars
  <2>1. QED BY <1>1, <1>2, PhaseStep
<1>5. CASE RunTimePasses
  <2> USE <1>5 DEF RunTimePasses, loopVars
  <2>1. QED BY <1>1, <1>2, PhaseStep
<1>6. CASE BeginDrain
  <2> USE <1>6 DEF BeginDrain, boundVars
  <2>1. QED BY <1>1, <1>2, PhaseStep
<1>7. CASE EndDrain
  <2> USE <1>7 DEF EndDrain, boundVars
  <2>1. phase' \in {"perform", "test", "dispatch"} /\ rounds' \in 0 .. SelectRounds
    BY <1>1, <1>2 DEF AfterDrain
  <2>2. QED BY <1>1, <1>2, <2>1, PhaseStep
<1>8. CASE NoKey
  <2> USE <1>8 DEF NoKey, Expires, boundVars, loopVars
  <2>1. due' \subseteq timers'
    BY <1>2
  <2>2. QED BY <1>1, <1>2, <2>1, PhaseStep
<1>9. CASE DispatchEnd
  <2> USE <1>9 DEF DispatchEnd, boundVars
  <2>1. phase' \in {"perform", "test"} /\ rounds' \in 0 .. SelectRounds
    BY <1>1, <1>2
  <2>2. QED BY <1>1, <1>2, <2>1, PhaseStep
<1>10. CASE \E expired \in SUBSET timers : DispatchBegin(expired)
  <2> USE <1>10 DEF DispatchBegin, boundVars
  <2>1. due' \subseteq timers'
    OBVIOUS
  <2>2. QED BY <1>1, <1>2, <2>1, PhaseStep
<1>11. QED BY <1>3, <1>4, <1>5, <1>6, <1>7, <1>8, <1>9, <1>10

\* The clients scheduled or passed are among the clients.
LEMMA ScheduledAreClients ==
  ASSUME LoadInv
  PROVE  /\ \A c \in 0 .. clients_current_sched_num - 1 : c \in Clients
         /\ ~Idle => \A c \in 0 .. sched.next - 1 : c \in Clients
         /\ clients_current_sched_num \in 0 .. client_num_max
         /\ sched \in [by : {"none", "init", "inc", "key", "rate"}, next : Nat, last : Nat]
BY InvParts, ClientsFinite DEF LoopInv, LoopTypeOK, LoopSound

\* The clients a loop over clients is to schedule come after those scheduled.
LEMMA SchedFromSound ==
  ASSUME NoRate, LoadInv, NEW by \in {"inc", "key"}, NEW n \in Nat,
         clients_current_sched_num + n <= client_num_max
  PROVE  LET s == SchedFrom(by, n)
         IN  /\ s \in [by : {"none", "init", "inc", "key", "rate"}, next : Nat, last : Nat]
             /\ s.by = by /\ s.next = clients_current_sched_num
             /\ s.next <= s.last /\ s.last <= client_num_max
BY ScheduledAreClients DEF SchedFrom, NoRate

\* A key: the ramp-up is held back or goes on, or clients are added.
LEMMA KeyStep ==
  ASSUME NoRate, LoadInv, NEW key \in Keys, KeyPressed(key)
  PROVE  LoadInv'
<1> USE DEF KeyPressed, Expires
<1>1. /\ ClientsInv'
      /\ \A c \in Clients : Kept(c) \/ Final(c) => (Kept(c) \/ Final(c))'
  <2>1. run_over \in BOOLEAN
    BY DEF LoadInv, TypeOK
  <2>2. QED BY <2>1, ClientsUnchanged
<1>2. LoopTypeOK /\ LoopSound /\ RampSound /\ NoClientLost /\ PassedKept
  BY InvParts DEF LoopInv
<1>3. /\ clients_current_sched_num \in 0 .. client_num_max /\ client_num_max \in Nat
      /\ MaxKeys \in Nat
  BY <1>2, ClientsFinite, ModeAssumption DEF LoopTypeOK
<1>4. \/ sched' = NoLoop
      \/ /\ sched' \in [by : {"none", "init", "inc", "key", "rate"}, next : Nat, last : Nat]
         /\ sched'.by = "key" /\ sched'.next = clients_current_sched_num
         /\ sched'.next <= sched'.last /\ sched'.last <= client_num_max
  <2> DEFINE n == Least(KeyAdds(key), client_num_max - clients_current_sched_num)
  <2>1. n \in Nat /\ clients_current_sched_num + n <= client_num_max
    BY <1>3 DEF Least, KeyAdds
  <2>2. sched' = NoLoop \/ sched' = SchedFrom("key", n)
    OBVIOUS
  <2> HIDE DEF n
  <2>3. QED BY <2>1, <2>2, SchedFromSound
<1>5. /\ sched'.by = "none" \/ sched'.by = "key"
      /\ sched' \in [by : {"none", "init", "inc", "key", "rate"}, next : Nat, last : Nat]
  BY <1>4 DEF NoLoop
<1>6. LoopTypeOK'
  <2>1. stop_gradual' \in BOOLEAN /\ keys' \in 0 .. MaxKeys
    BY <1>2, <1>3 DEF LoopTypeOK
  <2>2. due' \subseteq timers'
    BY <1>2 DEF LoopTypeOK
  <2>3. QED BY <1>2, <1>5, <2>1, <2>2 DEF LoopTypeOK, rateVars
<1>7. LoopSound'
  BY <1>2, <1>4, <1>5 DEF LoopSound, Idle, NoLoop
<1>8. RampSound'
  BY <1>2, <1>5 DEF RampSound, inc, rate
<1>9. NoClientLost'
  BY <1>1, <1>2, ScheduledAreClients DEF NoClientLost
<1>10. PassedKept'
  BY <1>1, <1>2, <1>4, ScheduledAreClients DEF PassedKept, NoClientLost, Idle, NoLoop
<1>11. QED BY <1>1, <1>6, <1>7, <1>8, <1>9, <1>10, InvFromParts DEF LoopInv

\* The increase timer: the ramp-up is held back, over, or goes on.
LEMMA GradualStep ==
  ASSUME NoRate, LoadInv, handle_gradual_increase_clients_num_timer
  PROVE  LoadInv'
<1> DEFINE over == client_num_max <= clients_current_sched_num
<1>1. /\ phase = "handle" /\ Idle /\ inc \in due
      /\ UNCHANGED <<clientVars, batchVars, rateVars, boundVars, phase, rounds,
                     clients_current_sched_num, stop_gradual>>
      /\ \/ /\ due' = due \ {inc}
            /\ UNCHANGED <<timers, do_gradual, sched>>
         \/ /\ timers' = timers \ {inc} /\ due' = DueAfter(inc, ~over)
            /\ do_gradual' = GradualAfter(over)
            /\ sched' = IF over THEN NoLoop ELSE SchedFrom("inc", clients_to_sched)
  BY DEF handle_gradual_increase_clients_num_timer, Expires
<1>2. LoopTypeOK /\ LoopSound /\ RampSound /\ NoClientLost /\ PassedKept
  BY InvParts DEF LoopInv
<1>3. due' \subseteq timers'
  BY <1>1, <1>2 DEF DueAfter, LoopTypeOK
<1>4. /\ timers \ PeriodicTimers \subseteq timers'
      /\ timers' \subseteq timers \cup PeriodicTimers
      /\ timers' \subseteq timers
  BY <1>1 DEF PeriodicTimers
<1>5. /\ ClientsInv'
      /\ \A c \in Clients : Kept(c) \/ Final(c) => (Kept(c) \/ Final(c))'
  BY <1>1, <1>2, <1>4, ClientsUnchanged DEF boundVars, LoopTypeOK
<1>6. CASE /\ due' = due \ {inc}
           /\ UNCHANGED <<timers, do_gradual, sched>>
  <2>1. LoopTypeOK'
    BY <1>1, <1>2, <1>3, <1>6 DEF LoopTypeOK, rateVars, boundVars
  <2>2. LoopSound' /\ RampSound'
    BY <1>1, <1>2, <1>6 DEF LoopSound, RampSound, Idle, inc, rate
  <2>3. NoClientLost' /\ PassedKept'
    BY <1>1, <1>2, <1>5, <1>6, ScheduledAreClients DEF NoClientLost, PassedKept, Idle
  <2>4. QED BY <1>5, <2>1, <2>2, <2>3, InvFromParts DEF LoopInv
<1>7. CASE /\ timers' = timers \ {inc}
           /\ do_gradual' = GradualAfter(over)
           /\ sched' = IF over THEN NoLoop ELSE SchedFrom("inc", clients_to_sched)
  <2>1. /\ clients_rampup_inc \in Nat \ {0} /\ do_gradual \in BOOLEAN
        /\ clients_current_sched_num \in 0 .. client_num_max
        /\ client_num_max \in Nat \ {0} /\ client_num_start \in 0 .. client_num_max
    BY <1>1, <1>2, BatchAssumption DEF LoopTypeOK, RampSound
  <2>2. \/ over /\ sched' = NoLoop
        \/ /\ ~over
           /\ sched' \in [by : {"none", "init", "inc", "key", "rate"}, next : Nat, last : Nat]
           /\ sched'.by = "inc" /\ sched'.next = clients_current_sched_num
           /\ sched'.next <= sched'.last /\ sched'.last <= client_num_max
    <3>1. CASE over
      BY <1>7, <3>1
    <3>2. CASE ~over
      <4>1. clients_to_sched \in Nat
            /\ clients_current_sched_num + clients_to_sched <= client_num_max
        BY <2>1, <3>2 DEF clients_to_sched, Least
      <4>2. sched' = SchedFrom("inc", clients_to_sched)
        BY <1>7, <3>2
      <4>3. QED BY <3>2, <4>1, <4>2, SchedFromSound
    <3>3. QED BY <3>1, <3>2
  <2>3. /\ sched'.by = "none" \/ sched'.by = "inc"
        /\ sched' \in [by : {"none", "init", "inc", "key", "rate"}, next : Nat, last : Nat]
    BY <2>2 DEF NoLoop
  <2>4. do_gradual' \in BOOLEAN /\ (~over => (do_gradual' <=> do_gradual))
    BY <1>7, <2>1 DEF GradualAfter
  <2>5. LoopTypeOK'
    BY <1>1, <1>2, <1>3, <2>3, <2>4 DEF LoopTypeOK, rateVars, boundVars
  <2>6. LoopSound'
    BY <1>1, <1>2, <2>2, <2>3 DEF LoopSound, Idle, NoLoop
  <2>7. RampSound'
    BY <1>1, <1>2, <1>4, <2>1, <2>4 DEF RampSound, inc, rate
  <2>8. NoClientLost'
    BY <1>1, <1>2, <1>5, ScheduledAreClients DEF NoClientLost
  <2>9. PassedKept'
    BY <1>2, <1>5, <2>2, ScheduledAreClients DEF PassedKept, NoClientLost, Idle, NoLoop
  <2>10. QED BY <1>5, <2>5, <2>6, <2>7, <2>8, <2>9, InvFromParts DEF LoopInv
<1>8. QED BY <1>1, <1>6, <1>7

\* The end of a loop over clients.
LEMMA SchedEndStep ==
  ASSUME NoRate, LoadInv, SchedEnd
  PROVE  LoadInv'
<1>1. /\ sched.by \in {"init", "inc", "key"} /\ sched.next = sched.last
      /\ clients_current_sched_num' = sched.last
      /\ sched' = NoLoop
      /\ phase' = IF sched.by = "init" THEN "test" ELSE phase
      /\ UNCHANGED <<clientVars, batchVars, stop_gradual, rateVars, boundVars,
                     rounds, due>>
  BY DEF SchedEnd
<1>2. /\ do_gradual' = Gradual
      /\ timers' = timers
           \cup {t \in {inc} : sched.by = "inc" \/ (sched.by = "init" /\ Gradual)}
           \cup {t \in {rate} : sched.by = "init" /\ req_rate > 0}
  BY DEF SchedEnd
<1>3. LoopTypeOK /\ LoopSound /\ RampSound /\ NoClientLost /\ PassedKept
  BY InvParts DEF LoopInv
<1>4. timers' \in {timers, timers \cup {inc}}
      /\ (timers' # timers => Gradual \/ sched.by = "inc")
  BY <1>2 DEF NoRate
<1>5. timers \subseteq timers' /\ timers' \subseteq timers \cup {inc} /\ inc \in PeriodicTimers
  BY <1>4 DEF PeriodicTimers
<1>6. /\ ClientsInv'
      /\ \A c \in Clients : Kept(c) \/ Final(c) => (Kept(c) \/ Final(c))'
  BY <1>1, <1>3, <1>5, ClientsUnchanged DEF boundVars, LoopTypeOK
<1>7. /\ ~Idle /\ sched.last \in 0 .. client_num_max
      /\ clients_current_sched_num <= sched.last /\ do_gradual \in BOOLEAN
      /\ phase \in {"init", "handle"} /\ (phase = "init" <=> sched.by = "init")
      /\ clients_current_sched_num \in 0 .. client_num_max
      /\ client_num_max \in Nat /\ clients_rampup_inc \in Nat
  BY <1>1, <1>3, BatchAssumption DEF Idle, LoopTypeOK, LoopSound
<1>8. Gradual \in BOOLEAN
  BY <1>7 DEF Gradual
<1>9. LoopTypeOK'
  BY <1>1, <1>2, <1>3, <1>5, <1>7, <1>8 DEF LoopTypeOK, rateVars, boundVars, NoLoop
<1>10. LoopSound'
  BY <1>1, <1>3, <1>7 DEF LoopSound, Idle, NoLoop
<1>11. RampSound'
  <2>1. Gradual \/ inc \in timers \/ sched.by = "inc" => clients_rampup_inc > 0
    BY <1>3 DEF RampSound, Gradual
  <2>2. rate \notin timers'
    BY <1>3, <1>5 DEF RampSound, inc, rate
  <2>3. do_gradual' \/ inc \in timers' => clients_rampup_inc > 0
    BY <1>2, <1>4, <2>1
  <2>4. clients_rampup_inc > 0 /\ clients_current_sched_num' # client_num_max => Gradual
    BY <1>1, <1>3, <1>7 DEF RampSound, Gradual
  <2>5. QED BY <1>1, <1>2, <2>2, <2>3, <2>4 DEF RampSound, inc, rate, NoLoop
<1>12. NoClientLost' /\ PassedKept'
  BY <1>1, <1>3, <1>6, <1>7, ScheduledAreClients
  DEF NoClientLost, PassedKept, Idle, NoLoop
<1>13. QED BY <1>6, <1>9, <1>10, <1>11, <1>12, InvFromParts DEF LoopInv

(***************************************************************************)
(* Steps of a client.                                                      *)
(***************************************************************************)

\* A transfer finishes.
LEMMA CompleteStep ==
  ASSUME LoadInv, NEW c \in Clients, NEW result \in {"ok", "err"}, Complete(c, result)
  PROVE  LoadInv'
<1>1. /\ phase = "perform" /\ multi[c] = "loading"
      /\ multi' = [multi EXCEPT ![c] = result]
      /\ UNCHANGED <<client_state, url_curr_index, cycle_num, handle,
                     tid_url_completion, active_clients_count,
                     sleeping_clients_count, cycling_completed,
                     requests_completed, clients_current_sched_num, do_gradual,
                     stop_gradual, free_clients, invocation, phase, rounds,
                     sched, run_over, keys, failures, timers, due>>
  BY DEF Complete, batchVars, rampVars, rateVars, loopVars, boundVars
<1>2. multi \in [Clients -> Places]
  BY DEF LoadInv, TypeOK
<1>3. /\ multi' \in [Clients -> Places]
      /\ \A d \in Clients : (multi'[d] # "out" <=> multi[d] # "out")
                          /\ (multi'[d] # "read" \/ multi[d] = "read")
                          /\ (multi'[d] = "loading" => multi[d] = "loading")
  BY <1>1, <1>2 DEF Places
<1>4. /\ \A d \in Clients : InMulti(d)' <=> InMulti(d)
      /\ \A d \in Clients : Kept(d)' <=> Kept(d)
      /\ \A d \in Clients : Final(d)' <=> Final(d)
  BY <1>1, <1>3 DEF InMulti, Kept, Final, sleeping
<1>5. TypeOK'
  BY <1>1, <1>3 DEF LoadInv, TypeOK, ClientTimers, PeriodicTimers, inc, rate, screen
<1>6. CountsExact'
  <2>1. {d \in Clients : InMulti(d)}' = {d \in Clients : InMulti(d)}
    BY <1>4
  <2>2. QED BY <1>1, <2>1 DEF LoadInv, CountsExact, sleeping
<1>7. TimersExclusive' /\ PlacesKnown' /\ PlacesSound'
  BY <1>1, <1>3, <1>4 DEF LoadInv, TimersExclusive, PlacesKnown, PlacesSound, sleeping, completion
<1>8. TransfersGuarded'
  BY <1>1, <1>3 DEF LoadInv, TransfersGuarded, completion
<1>9. LoopSound' /\ RampSound'
  BY <1>1 DEF LoadInv, LoopSound, RampSound, Idle, inc, rate
<1>10. CyclesLeft' /\ LogoffLast' /\ WalksBegun' /\ WalksSound'
  BY <1>1 DEF LoadInv, CyclesLeft, LogoffLast, WalksBegun, WalksSound
<1>11. NoClientLost' /\ PassedKept'
  BY <1>1, <1>4, ScheduledAreClients DEF LoadInv, NoClientLost, PassedKept, Idle
<1>12. QED
  BY <1>5, <1>6, <1>7, <1>8, <1>9, <1>10, <1>11 DEF LoadInv

\* A step of a client outside the loops over clients.
LEMMA OneClientStep ==
  ASSUME LoadInv, NEW c \in Clients, Stepped(c), Keeps(c), Idle,
         UNCHANGED <<rampVars, rateVars, loopVars, run_over, keys>>,
         due' \subseteq due, due' \subseteq timers'
  PROVE  LoadInv'
<1>1. LoopTypeOK /\ LoopSound /\ RampSound /\ NoClientLost
  BY InvParts DEF LoopInv
<1>2. /\ clients_current_sched_num' = clients_current_sched_num
      /\ do_gradual' = do_gradual /\ stop_gradual' = stop_gradual
      /\ free_clients' = free_clients /\ invocation' = invocation
      /\ phase' = phase /\ rounds' = rounds /\ sched' = sched
      /\ run_over' = run_over /\ keys' = keys
  BY DEF rampVars, rateVars, loopVars
<1>3. inc \in PeriodicTimers /\ rate \in PeriodicTimers
  BY DEF PeriodicTimers
<1>4. LoopTypeOK'
  BY <1>1, <1>2 DEF LoopTypeOK
<1>5. LoopSound' /\ RampSound'
  BY <1>1, <1>2, <1>3 DEF LoopSound, RampSound, Idle, Stepped, inc, rate
<1>6. NoClientLost'
  BY <1>1, <1>2, ScheduledAreClients DEF NoClientLost, Stepped, Keeps
<1>7. PassedKept'
  BY <1>2 DEF PassedKept, Idle
<1>8. QED BY <1>4, <1>5, <1>6, <1>7, InvFromParts DEF LoopInv, Stepped

\* A DONE message, when there is no fixed request rate.
LEMMA DrainStep ==
  ASSUME NoRate, LoadInv, NEW c \in Clients, DrainDone(c)
  PROVE  LoadInv'
<1>1. /\ phase = "drain" /\ Done(c)
      /\ UNCHANGED <<rampVars, rateVars, loopVars, run_over, keys, due>>
  BY DEF DrainDone, NoRate, rateVars, loopVars
<1>2. PICK ok \in BOOLEAN :
        load_next_step(c, StateDone(c), tid_url_completion[c], ok)
  BY DEF DrainDone, NoRate
<1>3. InMulti(c) /\ (StateDone(c) = client_state[c] \/ StateDone(c) = "ERROR")
  BY <1>1 DEF Done, InMulti, StateDone
<1>4. PICK state \in States, armed \in BOOLEAN :
        /\ state = StateDone(c) /\ armed = tid_url_completion[c]
        /\ armed <=> completion(c) \in timers
  BY <1>3 DEF LoadInv, TypeOK, TimersExclusive, States
<1>5. Stepped(c) /\ Keeps(c)
  BY <1>1, <1>2, <1>3, <1>4, InvParts, LoadStep
<1>6. due = {} /\ Idle
  BY <1>1 DEF LoadInv, LoopSound
<1>7. QED BY <1>1, <1>5, <1>6, OneClientStep

\* A client has slept enough.
LEMMA SleepingStep ==
  ASSUME LoadInv, NEW c \in Clients, handle_cctx_sleeping_timer(c)
  PROVE  LoadInv'
<1>1. /\ Idle /\ sleeping(c) \in due
      /\ sleeping_clients_count' = sleeping_clients_count - 1
      /\ UNCHANGED <<client_state, url_curr_index, cycle_num, handle, rampVars,
                     rateVars, loopVars, boundVars, cycling_completed,
                     requests_completed>>
  BY DEF handle_cctx_sleeping_timer, Expires
<1>2. PICK ok \in BOOLEAN :
        /\ client_add_to_load(c, url_curr_index[c], ~InMulti(c),
                              timers \ {sleeping(c)}, active_clients_count, ok)
        /\ due' = DueAfter(sleeping(c), ok)
  BY DEF handle_cctx_sleeping_timer
<1>3. /\ due \subseteq timers /\ sleeping(c) \in timers
      /\ completion(c) \notin due
  BY <1>1 DEF LoadInv, TypeOK, TimersExclusive
<1>4. Stepped(c) /\ Keeps(c)
  <2>1. ok /\ Settled(c, ok)
    BY <1>1, <1>2, <1>3, InvParts, WakeSettles DEF boundVars
  <2>2. QED BY <1>1, <2>1, InvParts, SettledStep DEF boundVars
<1>5. due' \subseteq due /\ due' \subseteq timers'
  BY <1>2, <1>3, <1>4 DEF DueAfter, Stepped
<1>6. QED BY <1>1, <1>4, <1>5, OneClientStep DEF boundVars

\* A transfer has taken too long, when there is no fixed request rate.
LEMMA CompletionStep ==
  ASSUME NoRate, LoadInv, NEW c \in Clients, handle_cctx_url_completion_timer(c)
  PROVE  LoadInv'
<1>1. /\ Idle /\ completion(c) \in due
      /\ UNCHANGED <<rampVars, rateVars, loopVars, run_over, keys>>
  BY DEF handle_cctx_url_completion_timer, Expires, NoRate, rateVars
<1>2. PICK ok \in BOOLEAN : /\ load_next_step(c, "ERROR", TRUE, ok)
                            /\ due' = DueAfter(completion(c), ok)
  <2>1. ~(req_rate > 0)
    BY DEF NoRate
  <2>2. QED BY <2>1, Zenon DEF handle_cctx_url_completion_timer
<1>3. /\ due \subseteq timers /\ completion(c) \in timers /\ InMulti(c)
  BY <1>1 DEF LoadInv, TypeOK, TimersExclusive
<1>4. PICK state \in States, armed \in BOOLEAN : state = "ERROR" /\ armed = TRUE
  BY DEF States
<1>5. /\ Stepped(c) /\ Keeps(c)
      /\ timers \ {completion(c)} \subseteq timers'
  BY <1>1, <1>2, <1>3, <1>4, InvParts, LoadStep
<1>6. due' \subseteq due /\ due' \subseteq timers'
  BY <1>2, <1>3, <1>5 DEF DueAfter
<1>7. QED BY <1>1, <1>5, <1>6, OneClientStep

\* The next client of a loop over clients.
LEMMA SchedClientStep ==
  ASSUME LoadInv, SchedClient
  PROVE  LoadInv'
<1>1. /\ sched.by \in {"init", "inc", "key"} /\ sched.next < sched.last
      /\ UNCHANGED <<rampVars, rateVars, rounds, run_over, keys>>
  BY DEF SchedClient
<1>2. PICK ok \in BOOLEAN :
        /\ load_next_step(sched.next, client_state[sched.next],
                          tid_url_completion[sched.next], ok)
        /\ sched' = IF ok THEN [sched EXCEPT !.next = @ + 1] ELSE NoLoop
        /\ phase' = IF ~ok /\ sched.by = "init" THEN "failed" ELSE phase
        /\ due' = IF ~ok /\ sched.by = "inc" THEN {}
                  ELSE due \ {completion(sched.next)}
  BY DEF SchedClient
<1>3. LoopTypeOK /\ LoopSound /\ RampSound /\ NoClientLost /\ PassedKept
  BY InvParts DEF LoopInv
<1>4. /\ ~Idle /\ sched.next \in Clients /\ sched.next \in Nat /\ sched.last \in Nat
      /\ clients_current_sched_num \in Nat /\ client_num_max \in Nat
      /\ clients_current_sched_num <= sched.next /\ sched.last <= client_num_max
      /\ phase \in {"init", "handle"} /\ (phase = "init" <=> sched.by = "init")
      /\ phase # "handle" => due = {}
      /\ due \subseteq timers
  BY <1>1, <1>3, ClientsFinite DEF Idle, LoopTypeOK, LoopSound
<1>5. PICK c \in Clients : c = sched.next
  BY <1>4
<1>6. PICK state \in States, armed \in BOOLEAN :
        /\ state = client_state[c] /\ armed = tid_url_completion[c]
        /\ armed <=> completion(c) \in timers
  BY DEF LoadInv, TypeOK, TimersExclusive
<1>7. /\ Stepped(c) /\ (ok => Keeps(c))
      /\ timers \ {completion(c)} \subseteq timers'
  BY <1>1, <1>2, <1>5, <1>6, InvParts, LoadStep
<1>8. /\ clients_current_sched_num' = clients_current_sched_num
      /\ do_gradual' = do_gradual /\ stop_gradual' = stop_gradual
      /\ free_clients' = free_clients /\ invocation' = invocation
      /\ rounds' = rounds /\ run_over' = run_over /\ keys' = keys
  BY <1>1 DEF rampVars, rateVars
<1>9. \/ /\ ok /\ sched'.by = sched.by /\ sched'.next = sched.next + 1
         /\ sched'.last = sched.last /\ phase' = phase
         /\ sched' \in [by : {"none", "init", "inc", "key", "rate"}, next : Nat, last : Nat]
      \/ /\ ~ok /\ sched' = NoLoop /\ sched'.by = "none"
         /\ sched' \in [by : {"none", "init", "inc", "key", "rate"}, next : Nat, last : Nat]
         /\ phase' = IF sched.by = "init" THEN "failed" ELSE phase
  BY <1>2, <1>3, <1>4 DEF LoopTypeOK, NoLoop
<1>10. due' \subseteq timers' /\ (due = {} => due' = {})
  BY <1>2, <1>4, <1>5, <1>7
<1>11. LoopTypeOK'
  BY <1>3, <1>4, <1>8, <1>9, <1>10 DEF LoopTypeOK
<1>12. LoopSound'
  <2>1. CASE ok
    BY <1>1, <1>3, <1>4, <1>8, <1>9, <1>10, <2>1 DEF LoopSound, Idle
  <2>2. CASE ~ok
    BY <1>1, <1>3, <1>4, <1>8, <1>9, <1>10, <2>2 DEF LoopSound, Idle
  <2>3. QED BY <2>1, <2>2
<1>13. RampSound'
  <2>1. inc \in PeriodicTimers /\ rate \in PeriodicTimers
    BY DEF PeriodicTimers
  <2>2. QED BY <1>3, <1>4, <1>7, <1>8, <1>9, <2>1 DEF RampSound, Stepped, inc, rate
<1>14. NoClientLost'
  <2>1. \A d \in 0 .. clients_current_sched_num - 1 : d # c
    BY <1>4, <1>5
  <2>2. QED BY <1>3, <1>7, <1>8, <2>1, ScheduledAreClients DEF NoClientLost, Stepped
<1>15. PassedKept'
  <2>1. CASE ok
    <3>1. \A d \in 0 .. sched'.next - 1 : d = c \/ (d # c /\ d \in 0 .. sched.next - 1)
      BY <1>4, <1>5, <1>9, <2>1
    <3>2. QED BY <1>3, <1>4, <1>7, <2>1, <3>1, ScheduledAreClients
              DEF PassedKept, Stepped, Keeps
  <2>2. CASE ~ok
    BY <1>9, <2>2 DEF PassedKept, Idle
  <2>3. QED BY <2>1, <2>2
<1>16. QED
  BY <1>7, <1>11, <1>12, <1>13, <1>14, <1>15, InvFromParts DEF LoopInv, Stepped

(***************************************************************************)
(* The invariant.                                                          *)
(***************************************************************************)

\* A step that changes nothing.
LEMMA StutterStep ==
  ASSUME LoadInv, UNCHANGED vars
  PROVE  LoadInv'
<1> USE DEF vars, clientVars, batchVars, rampVars, rateVars, loopVars, boundVars
<1>1. TypeOK'
  BY DEF LoadInv, TypeOK, ClientTimers, PeriodicTimers, inc, rate, screen
<1>2. /\ CountsExact' /\ TimersExclusive' /\ TransfersGuarded' /\ PlacesKnown' /\ PlacesSound'
      /\ NoClientLost' /\ PassedKept'
  BY DEF LoadInv, CountsExact, TimersExclusive, TransfersGuarded, PlacesKnown,
         PlacesSound, NoClientLost, PassedKept, Kept, Final, InMulti, Idle, sleeping, completion
<1>3. LoopSound' /\ RampSound' /\ CyclesLeft' /\ LogoffLast'
      /\ WalksBegun' /\ WalksSound'
  BY DEF LoadInv, LoopSound, RampSound, CyclesLeft, LogoffLast, WalksBegun, WalksSound,
         Idle, inc, rate
<1>4. QED BY <1>1, <1>2, <1>3 DEF LoadInv

\* Nothing of a fixed request rate happens without one.
LEMMA NoRateSteps ==
  ASSUME LoadInv
  PROVE  ~RateClient /\ ~RateEnd /\ ~handle_req_rate_timer
<1>1. sched.by # "rate" /\ rate \notin due
  BY DEF LoadInv, LoopSound, RampSound, TypeOK
<1>2. QED BY <1>1 DEF RateClient, RateEnd, handle_req_rate_timer, Expires

\* Every step keeps the invariant.
LEMMA NextLoad ==
  ASSUME NoRate, LoadInv, [Next]_vars
  PROVE  LoadInv'
<1>1. CASE UNCHANGED vars
  BY <1>1, StutterStep
<1>2. ASSUME NEW c \in Clients, NEW result \in {"ok", "err"}, Complete(c, result)
      PROVE  LoadInv'
  BY <1>2, CompleteStep
<1>3. CASE RunTimePasses
  BY <1>3, LoopSteps
<1>4. CASE Thread
  <2>1. CASE SchedClient
    BY <2>1, SchedClientStep
  <2>2. CASE SchedEnd
    BY <2>2, SchedEndStep
  <2>3. CASE \/ Test \/ Exit \/ BeginDrain \/ EndDrain \/ NoKey \/ DispatchEnd
             \/ \E expired \in SUBSET timers : DispatchBegin(expired)
    BY <2>3, LoopSteps
  <2>4. ASSUME NEW c \in Clients, DrainDone(c) PROVE LoadInv'
    BY <2>4, DrainStep
  <2>5. ASSUME NEW c \in Clients, handle_cctx_sleeping_timer(c) PROVE LoadInv'
    BY <2>5, SleepingStep
  <2>6. ASSUME NEW c \in Clients, handle_cctx_url_completion_timer(c) PROVE LoadInv'
    BY <2>6, CompletionStep
  <2>7. CASE handle_gradual_increase_clients_num_timer
    BY <2>7, GradualStep
  <2>8. ASSUME NEW key \in Keys, KeyPressed(key) PROVE LoadInv'
    BY <2>8, KeyStep
  <2>9. QED
    BY <1>4, <2>1, <2>2, <2>3, <2>4, <2>5, <2>6, <2>7, <2>8, NoRateSteps DEF Thread
<1>5. QED BY <1>1, <1>2, <1>3, <1>4 DEF Next

\* Without a fixed request rate, the invariant holds.
THEOREM LoadInvariant ==
  ASSUME NoRate
  PROVE  Spec => []LoadInv
<1>1. Init => LoadInv
  BY InitLoad
<1>2. LoadInv /\ [Next]_vars => LoadInv'
  BY NextLoad
<1>3. QED BY <1>1, <1>2, PTL DEF Spec

\* No transfer with a timeout is left without its completion timer.
THEOREM TransfersAlwaysGuarded ==
  ASSUME NoRate
  PROVE  Spec => []TransfersGuarded
<1>1. LoadInv => TransfersGuarded
  BY DEF LoadInv
<1>2. QED BY <1>1, LoadInvariant, PTL

\* No scheduled client is forgotten before its final state.
THEOREM NoScheduledClientLost ==
  ASSUME NoRate
  PROVE  Spec => []NoClientLost
<1>1. LoadInv => NoClientLost
  BY DEF LoadInv
<1>2. QED BY <1>1, LoadInvariant, PTL

\* With error recovery no client with cycles left ends in an error.
THEOREM ErrorsAreRecovered ==
  ASSUME NoRate
  PROVE  Spec => []ErrorsRecovered
<1>1. LoadInv => ErrorsRecovered
  BY DEF LoadInv, WalksSound, ErrorsRecovered
<1>2. QED BY <1>1, LoadInvariant, PTL

(***************************************************************************)
(* The end of the load.                                                    *)
(***************************************************************************)

\* The load is left by Exit only, and then nothing happens.
LEMMA OnlyExit ==
  ASSUME LoadInv, [Next]_vars, phase' = "exited"
  PROVE  Exit \/ UNCHANGED vars
<1>1. /\ phase \notin {"init", "handle"} => Idle
      /\ Idle => sched.by = "none"
  BY DEF LoadInv, LoopSound, Idle
<1>2. CASE phase # "exited"
  <2>1. ~SchedClient /\ ~SchedEnd
    BY <1>2 DEF SchedClient, SchedEnd
  <2>2. ~Test /\ ~BeginDrain /\ ~EndDrain /\ ~DispatchEnd
        /\ ~(\E expired \in SUBSET timers : DispatchBegin(expired))
    BY DEF Test, BeginDrain, EndDrain, AfterDrain, DispatchEnd, DispatchBegin
  <2>3. ~(\E c \in Clients : DrainDone(c))
    BY <1>2 DEF DrainDone, AfterDrain
  <2>4. /\ ~(\E c \in Clients : handle_cctx_sleeping_timer(c))
        /\ ~(\E c \in Clients : handle_cctx_url_completion_timer(c))
        /\ ~handle_gradual_increase_clients_num_timer /\ ~NoKey
        /\ ~(\E key \in Keys : KeyPressed(key))
    BY DEF handle_cctx_sleeping_timer, handle_cctx_url_completion_timer,
           handle_gradual_increase_clients_num_timer, NoKey, KeyPressed,
           Expires, loopVars
  <2>5. /\ ~(\E c \in Clients, result \in {"ok", "err"} : Complete(c, result))
        /\ ~RunTimePasses
    BY DEF Complete, RunTimePasses, loopVars
  <2>6. QED
    BY <2>1, <2>2, <2>3, <2>4, <2>5, NoRateSteps DEF Next, Thread
<1>3. CASE phase = "exited"
  <2>1. ~SchedClient /\ ~SchedEnd
    BY <1>1, <1>3 DEF SchedClient, SchedEnd
  <2>2. ~Test /\ ~BeginDrain /\ ~EndDrain /\ ~DispatchEnd
        /\ ~(\E expired \in SUBSET timers : DispatchBegin(expired))
    BY <1>3 DEF Test, BeginDrain, EndDrain, DispatchEnd, DispatchBegin
  <2>3. ~(\E c \in Clients : DrainDone(c))
    BY <1>3 DEF DrainDone
  <2>4. /\ ~(\E c \in Clients : handle_cctx_sleeping_timer(c))
        /\ ~(\E c \in Clients : handle_cctx_url_completion_timer(c))
        /\ ~handle_gradual_increase_clients_num_timer /\ ~NoKey
        /\ ~(\E key \in Keys : KeyPressed(key))
    BY <1>3 DEF handle_cctx_sleeping_timer, handle_cctx_url_completion_timer,
                handle_gradual_increase_clients_num_timer, NoKey, KeyPressed, Expires
  <2>5. /\ ~(\E c \in Clients, result \in {"ok", "err"} : Complete(c, result))
        /\ ~RunTimePasses
    BY <1>3 DEF Complete, RunTimePasses
  <2>6. QED
    BY <2>1, <2>2, <2>3, <2>4, <2>5, NoRateSteps DEF Next, Thread
<1>4. QED BY <1>2, <1>3

\* When it is left, nobody is active, asleep or still to be scheduled.
LEMMA ExitQuiescent ==
  ASSUME NoRate, LoadInv, Exit
  PROVE  QuiescentExit'
<1>1. /\ active_clients_count + sleeping_clients_count = 0 /\ ~do_gradual
      /\ timers' = timers \ PeriodicTimers
      /\ multi' = multi /\ clients_current_sched_num' = clients_current_sched_num
      /\ phase = "test"
  BY DEF Exit, LoadEnds, pending_active_and_waiting_clients_num, NoRate,
         clientVars, rampVars
<1> DEFINE A == {c \in Clients : InMulti(c)}
           B == {c \in Clients : sleeping(c) \in timers}
<1>2. A = {} /\ B = {}
  <2>1. /\ IsFiniteSet(A) /\ IsFiniteSet(B)
        /\ Cardinality(A) \in Nat /\ Cardinality(B) \in Nat
    BY ClientsFinite, FS_Subset, FS_CardinalityType
  <2>2. Cardinality(A) + Cardinality(B) = 0
    BY <1>1 DEF LoadInv, CountsExact
  <2> HIDE DEF A, B
  <2>3. Cardinality(A) = 0 /\ Cardinality(B) = 0
    BY <2>1, <2>2
  <2>4. QED BY <2>1, <2>3, FS_EmptySet
<1>3. \A c \in Clients : ~InMulti(c) /\ sleeping(c) \notin timers /\ completion(c) \notin timers
  BY <1>2 DEF LoadInv, TimersExclusive
<1>4. timers' = {}
  <2>1. \A t \in ClientTimers : \E c \in Clients : t = sleeping(c) \/ t = completion(c)
    BY DEF ClientTimers, sleeping, completion
  <2>2. timers \subseteq ClientTimers \cup PeriodicTimers
    BY DEF LoadInv, TypeOK
  <2>3. QED BY <1>1, <1>3, <2>1, <2>2
<1>5. clients_rampup_inc > 0 => clients_current_sched_num = client_num_max
  BY <1>1 DEF LoadInv, RampSound
<1>6. QED BY <1>1, <1>3, <1>4, <1>5 DEF QuiescentExit, InMulti

\* When the loop has ended, no transfer and no timer is left behind, and a
\* ramp-up has scheduled every client.
THEOREM ExitIsQuiescent ==
  ASSUME NoRate
  PROVE  Spec => []QuiescentExit
<1>1. Init => QuiescentExit
  BY DEF Init, QuiescentExit
<1>2. LoadInv /\ QuiescentExit /\ [Next]_vars => QuiescentExit'
  <2>1. SUFFICES ASSUME LoadInv, QuiescentExit, [Next]_vars, phase' = "exited"
                 PROVE  QuiescentExit'
    BY DEF QuiescentExit
  <2>2. CASE Exit
    BY <2>1, <2>2, ExitQuiescent
  <2>3. CASE UNCHANGED vars
    BY <2>1, <2>3 DEF QuiescentExit, InMulti, vars, clientVars, rampVars, loopVars
  <2>4. QED BY <2>1, <2>2, <2>3, OnlyExit
<1>3. QED BY <1>1, <1>2, LoadInvariant, PTL DEF Spec

(***************************************************************************)
(* With a fixed request rate BooksInv is inductive.                        *)
(***************************************************************************)

\* The books are those of the clients and of the loop.
LEMMA BooksFromParts ==
  ASSUME ClientsBooks', LoopTypeOK', RampRespected', SchedSound'
  PROVE  BooksInv'
BY DEF BooksInv, TypeOK, ClientsBooks, ClientsTypeOK, LoopTypeOK

LEMMA BooksParts ==
  ASSUME BooksInv
  PROVE  ClientsBooks /\ LoopTypeOK /\ RampRespected /\ SchedSound /\ InUse \in Int
<1>1. InUse \in Int
  BY BatchAssumption DEF BooksInv, TypeOK, InUse
<1>2. QED BY <1>1 DEF BooksInv, TypeOK, ClientsBooks, ClientsTypeOK, LoopTypeOK

\* Without a fixed rate they are part of what has been shown.
LEMMA LoadKeepsBooks ==
  ASSUME NoRate, LoadInv
  PROVE  BooksInv
<1>1. SchedSound
  <2>1. /\ req_rate = 0
        /\ clients_current_sched_num \in Nat /\ sched.next \in Nat /\ sched.last \in Nat
    BY BatchAssumption DEF LoadInv, TypeOK, NoRate
  <2>2. /\ phase # "handle" => due = {}
        /\ sched.by = "init" => phase = "init"
        /\ sched.by # "rate"
    BY DEF LoadInv, LoopSound
  <2>3. sched.by # "none" => /\ clients_current_sched_num <= sched.last
                             /\ sched.last <= client_num_max
    BY <2>1, BatchAssumption DEF LoadInv, LoopSound, Idle
  <2>4. do_gradual \/ inc \in timers \/ sched.by = "inc" => clients_rampup_inc > 0
    BY DEF LoadInv, RampSound
  <2>5. QED BY <2>1, <2>2, <2>3, <2>4 DEF SchedSound
<1>2. RampRespected
  BY DEF RampRespected, NoRate
<1>3. QED BY <1>1, <1>2 DEF LoadInv, BooksInv

\* The steps of the loop that schedule nobody.
LEMMA RatePhaseStep ==
  ASSUME BooksInv,
         UNCHANGED <<clientVars, batchVars, rampVars, rateVars, failures>>,
         timers' = timers \/ timers' = timers \ PeriodicTimers,
         run_over' \in BOOLEAN, keys' \in 0 .. MaxKeys,
         phase' \in {"init", "test", "perform", "drain", "dispatch", "handle",
                     "exited", "failed"},
         rounds' \in 0 .. SelectRounds,
         due' \subseteq timers',
         phase' # "handle" => due' = {},
         sched' = NoLoop \/ (sched' = sched /\ (sched.by = "init" => phase' = "init"))
  PROVE  BooksInv'
<1>1. ClientsBooks /\ LoopTypeOK /\ RampRespected /\ SchedSound
  BY BooksParts
<1>2. /\ clients_current_sched_num' = clients_current_sched_num
      /\ do_gradual' = do_gradual /\ stop_gradual' = stop_gradual
      /\ free_clients' = free_clients /\ invocation' = invocation
  BY DEF rampVars, rateVars
<1>3. ClientsBooks'
  BY <1>1, BooksUnchanged
<1>4. sched' = NoLoop => /\ sched'.by = "none" /\ sched'.next = 0 /\ sched'.last = 0
  BY DEF NoLoop
<1>5. sched' \in [by : {"none", "init", "inc", "key", "rate"}, next : Nat, last : Nat]
  BY <1>1 DEF NoLoop, LoopTypeOK
<1>6. LoopTypeOK'
  BY <1>1, <1>2, <1>5 DEF LoopTypeOK
<1>7. RampRespected'
  BY <1>1, <1>2 DEF RampRespected, InUse
<1>8. SchedSound'
  <2>1. inc \in timers' => inc \in timers
    OBVIOUS
  <2>2. CASE sched' = NoLoop
    BY <1>1, <1>2, <1>4, <2>1, <2>2 DEF SchedSound, inc
  <2>3. CASE sched' = sched /\ (sched.by = "init" => phase' = "init")
    BY <1>1, <1>2, <2>1, <2>3 DEF SchedSound, InUse, inc
  <2>4. QED BY <2>2, <2>3
<1>9. QED BY <1>3, <1>6, <1>7, <1>8, BooksFromParts

LEMMA RateLoopSteps ==
  ASSUME BooksInv,
         \/ Test \/ Exit \/ RunTimePasses \/ BeginDrain \/ EndDrain \/ NoKey \/ DispatchEnd
         \/ RateEnd \/ \E expired \in SUBSET timers : DispatchBegin(expired)
  PROVE  BooksInv'
<1>1. LoopTypeOK /\ SchedSound /\ SelectRounds \in Nat
  BY BooksParts, ModeAssumption
<1>2. /\ phase # "handle" => due = {}
      /\ sched.by = "init" => phase = "init"
      /\ run_over \in BOOLEAN /\ due \subseteq timers /\ rounds \in 0 .. SelectRounds
      /\ keys \in 0 .. MaxKeys
      /\ phase \in {"init", "test", "perform", "drain", "dispatch", "handle",
                    "exited", "failed"}
  BY <1>1 DEF SchedSound, LoopTypeOK
<1>3. CASE Test
  <2> USE <1>3 DEF Test, boundVars
  <2>1. QED BY <1>1, <1>2, RatePhaseStep
<1>4. CASE Exit
  <2> USE <1>4 DEF Exit, boundVars
  <2>1. QED BY <1>1, <1>2, RatePhaseStep
<1>5. CASE RunTimePasses
  <2> USE <1>5 DEF RunTimePasses, loopVars
  <2>1. QED BY <1>1, <1>2, RatePhaseStep
<1>6. CASE BeginDrain
  <2> USE <1>6 DEF BeginDrain, boundVars
  <2>1. QED BY <1>1, <1>2, RatePhaseStep
<1>7. CASE EndDrain
  <2> USE <1>7 DEF EndDrain, boundVars
  <2>1. phase' \in {"perform", "test", "dispatch"} /\ rounds' \in 0 .. SelectRounds
    BY <1>1, <1>2 DEF AfterDrain
  <2>2. QED BY <1>1, <1>2, <2>1, RatePhaseStep
<1>8. CASE NoKey
  <2> USE <1>8 DEF NoKey, Expires, boundVars, loopVars
  <2>1. due' \subseteq timers'
    BY <1>2
  <2>2. QED BY <1>1, <1>2, <2>1, RatePhaseStep
<1>9. CASE DispatchEnd
  <2> USE <1>9 DEF DispatchEnd, boundVars
  <2>1. phase' \in {"perform", "test"} /\ rounds' \in 0 .. SelectRounds
    BY <1>1, <1>2
  <2>2. QED BY <1>1, <1>2, <2>1, RatePhaseStep
<1>10. CASE \E expired \in SUBSET timers : DispatchBegin(expired)
  <2> USE <1>10 DEF DispatchBegin, boundVars
  <2>1. due' \subseteq timers'
    OBVIOUS
  <2>2. QED BY <1>1, <1>2, <2>1, RatePhaseStep
<1>11. CASE RateEnd
  <2> USE <1>11 DEF RateEnd, boundVars
  <2>1. QED BY <1>1, <1>2, RatePhaseStep
<1>12. QED
  BY <1>3, <1>4, <1>5, <1>6, <1>7, <1>8, <1>9, <1>10, <1>11

\* The handlers that start a loop over clients, and the end of one that only
\* counts clients in.
LEMMA RateSchedStep ==
  ASSUME BooksInv,
         UNCHANGED <<clientVars, batchVars, free_clients, failures>>,
         timers \ PeriodicTimers \subseteq timers',
         timers' \subseteq timers \cup PeriodicTimers,
         LoopTypeOK', SchedSound',
         clients_current_sched_num <= clients_current_sched_num'
  PROVE  BooksInv'
<1>1. ClientsBooks /\ LoopTypeOK /\ RampRespected /\ InUse \in Int
  BY BooksParts
<1>2. ClientsBooks'
  BY <1>1, BooksUnchanged
<1>3. RampRespected'
  <2>1. InUse' = InUse
    BY DEF InUse
  <2>2. QED BY <1>1, <2>1 DEF RampRespected, LoopTypeOK
<1>4. QED BY <1>2, <1>3, BooksFromParts

\* With a fixed rate the loops that count clients in schedule nobody.
LEMMA NoRateSchedClient ==
  ASSUME FixedRate, BooksInv
  PROVE  ~SchedClient
BY BooksParts DEF FixedRate, SchedSound, LoopTypeOK, SchedClient

\* The end of add_loading_clients.
LEMMA RateSchedEndStep ==
  ASSUME FixedRate, BooksInv, SchedEnd
  PROVE  BooksInv'
<1>1. LoopTypeOK /\ SchedSound /\ req_rate > 0
  BY BooksParts DEF FixedRate
<1>2. /\ sched.by \in {"init", "inc", "key"}
      /\ clients_current_sched_num' = sched.last
      /\ do_gradual' = Gradual
      /\ sched' = NoLoop
      /\ phase' = IF sched.by = "init" THEN "test" ELSE phase
      /\ timers' = timers
           \cup {t \in {inc} : sched.by = "inc" \/ (sched.by = "init" /\ Gradual)}
           \cup {t \in {rate} : sched.by = "init" /\ req_rate > 0}
      /\ UNCHANGED <<clientVars, batchVars, free_clients, failures>>
      /\ stop_gradual' = stop_gradual /\ invocation' = invocation
      /\ run_over' = run_over /\ keys' = keys /\ rounds' = rounds /\ due' = due
  BY DEF SchedEnd, rateVars, boundVars
<1>3. /\ clients_current_sched_num <= sched.last /\ sched.last <= client_num_max
      /\ sched.last \in Nat /\ clients_current_sched_num \in Nat
      /\ sched.by = "init" => due = {}
      /\ do_gradual \/ inc \in timers \/ sched.by = "inc" => clients_rampup_inc > 0
      /\ sched' \in [by : {"none", "init", "inc", "key", "rate"}, next : Nat, last : Nat]
      /\ sched'.by = "none"
  BY <1>1, <1>2 DEF SchedSound, LoopTypeOK, NoLoop
<1>4. /\ Gradual \in BOOLEAN /\ (Gradual => clients_rampup_inc > 0)
  BY <1>1, <1>3 DEF Gradual, LoopTypeOK
<1>5. /\ timers \ PeriodicTimers \subseteq timers'
      /\ timers' \subseteq timers \cup PeriodicTimers
      /\ timers \subseteq timers'
      /\ inc \in timers' => inc \in timers \/ sched.by = "inc" \/ Gradual
  <2>1. inc \in PeriodicTimers /\ rate \in PeriodicTimers /\ inc # rate
    BY DEF PeriodicTimers, inc, rate
  <2>2. QED BY <1>2, <2>1
<1>6. LoopTypeOK'
  <2>1. phase' \in {"init", "test", "perform", "drain", "dispatch", "handle",
                    "exited", "failed"}
    BY <1>1, <1>2 DEF LoopTypeOK
  <2>2. clients_current_sched_num' \in 0 .. client_num_max
    BY <1>2, <1>3, BatchAssumption
  <2>3. free_clients' = free_clients /\ due' \subseteq timers'
    BY <1>1, <1>2, <1>5 DEF LoopTypeOK
  <2>4. QED BY <1>1, <1>2, <1>3, <1>4, <2>1, <2>2, <2>3 DEF LoopTypeOK
<1>7. SchedSound'
  <2>1. phase' # "handle" => due' = {}
    BY <1>1, <1>2, <1>3 DEF SchedSound
  <2>2. do_gradual' \/ inc \in timers' => clients_rampup_inc > 0
    BY <1>2, <1>3, <1>4, <1>5
  <2>3. QED BY <1>3, <2>1, <2>2 DEF SchedSound, inc
<1>8. QED BY <1>2, <1>3, <1>5, <1>6, <1>7, RateSchedStep

\* A loop that counts clients in.
LEMMA RateSchedFrom ==
  ASSUME FixedRate, BooksInv, NEW by \in {"inc", "key"}, NEW n \in Nat,
         clients_current_sched_num + n <= client_num_max
  PROVE  LET s == SchedFrom(by, n)
         IN  /\ s \in [by : {"none", "init", "inc", "key", "rate"}, next : Nat, last : Nat]
             /\ s.by = by /\ s.next = s.last
             /\ clients_current_sched_num <= s.last /\ s.last <= client_num_max
<1>1. clients_current_sched_num \in Nat /\ req_rate > 0
  BY BooksParts, BatchAssumption DEF LoopTypeOK, FixedRate
<1>2. QED BY <1>1 DEF SchedFrom

\* A key.
LEMMA RateKeyStep ==
  ASSUME FixedRate, BooksInv, NEW key \in Keys, KeyPressed(key)
  PROVE  BooksInv'
<1>1. LoopTypeOK /\ SchedSound
  BY BooksParts
<1>2. /\ phase = "handle" /\ Idle /\ keys < MaxKeys
      /\ keys' = keys + 1 /\ due' = due \ {screen}
      /\ stop_gradual' = (key = "m" \/ (stop_gradual /\ key # "a"))
      /\ sched' = IF KeyAdds(key) > 0 /\ clients_current_sched_num < client_num_max
                  THEN SchedFrom("key", Least(KeyAdds(key),
                                              client_num_max - clients_current_sched_num))
                  ELSE NoLoop
      /\ UNCHANGED <<clientVars, batchVars, free_clients, failures>>
      /\ invocation' = invocation /\ do_gradual' = do_gradual
      /\ clients_current_sched_num' = clients_current_sched_num
      /\ phase' = phase /\ rounds' = rounds /\ run_over' = run_over /\ timers' = timers
  BY DEF KeyPressed, Expires, rateVars
<1>3. /\ sched' \in [by : {"none", "init", "inc", "key", "rate"}, next : Nat, last : Nat]
      /\ sched'.by \in {"none", "key"}
      /\ sched'.by = "key" => /\ sched'.next = sched'.last
                              /\ clients_current_sched_num <= sched'.last
                              /\ sched'.last <= client_num_max
  <2>1. clients_current_sched_num \in 0 .. client_num_max /\ client_num_max \in Nat
    BY <1>1, BatchAssumption DEF LoopTypeOK
  <2>2. KeyAdds(key) \in Nat
    BY DEF KeyAdds
  <2>3. CASE sched' = NoLoop
    BY <2>3 DEF NoLoop
  <2>4. CASE sched' = SchedFrom("key", Least(KeyAdds(key),
                                              client_num_max - clients_current_sched_num))
    <3> DEFINE n == Least(KeyAdds(key), client_num_max - clients_current_sched_num)
    <3>1. n \in Nat /\ clients_current_sched_num + n <= client_num_max
      BY <2>1, <2>2 DEF Least
    <3> HIDE DEF n
    <3>2. QED BY <2>4, <3>1, RateSchedFrom DEF n
  <2>5. QED BY <1>2, <2>3, <2>4
<1>4. LoopTypeOK'
  <2>1. free_clients' = free_clients
    BY <1>2
  <2>2. keys' \in 0 .. MaxKeys /\ stop_gradual' \in BOOLEAN
    BY <1>1, <1>2, ModeAssumption DEF LoopTypeOK
  <2>3. QED BY <1>1, <1>2, <1>3, <2>1, <2>2 DEF LoopTypeOK
<1>5. SchedSound'
  BY <1>1, <1>2, <1>3 DEF SchedSound, inc
<1>6. clients_current_sched_num <= clients_current_sched_num'
  BY <1>1, <1>2 DEF LoopTypeOK
<1>7. QED BY <1>2, <1>4, <1>5, <1>6, RateSchedStep

\* The increase timer.
LEMMA RateGradualStep ==
  ASSUME FixedRate, BooksInv, handle_gradual_increase_clients_num_timer
  PROVE  BooksInv'
<1> DEFINE over == client_num_max <= clients_current_sched_num
<1>1. LoopTypeOK /\ SchedSound
  BY BooksParts
<1>2. /\ phase = "handle" /\ Idle /\ inc \in due
      /\ IF stop_gradual
         THEN /\ due' = due \ {inc}
              /\ UNCHANGED <<timers, do_gradual, sched>>
         ELSE /\ timers' = timers \ {inc}
              /\ due' = DueAfter(inc, ~over)
              /\ do_gradual' = GradualAfter(over)
              /\ sched' = IF over THEN NoLoop ELSE SchedFrom("inc", clients_to_sched)
      /\ UNCHANGED <<clientVars, batchVars, free_clients, failures>>
      /\ invocation' = invocation /\ stop_gradual' = stop_gradual /\ keys' = keys
      /\ clients_current_sched_num' = clients_current_sched_num
      /\ phase' = phase /\ rounds' = rounds /\ run_over' = run_over
  BY DEF handle_gradual_increase_clients_num_timer, Expires, rateVars, boundVars
<1>3. /\ clients_current_sched_num \in 0 .. client_num_max /\ client_num_max \in Nat
      /\ client_num_start \in 0 .. client_num_max
      /\ inc \in timers /\ clients_rampup_inc \in Nat /\ clients_rampup_inc > 0
      /\ do_gradual \in BOOLEAN
  BY <1>1, <1>2, BatchAssumption DEF LoopTypeOK, SchedSound
<1>4. /\ sched' \in [by : {"none", "init", "inc", "key", "rate"}, next : Nat, last : Nat]
      /\ sched'.by \in {"none", "inc"}
      /\ sched'.by = "inc" => /\ sched'.next = sched'.last
                              /\ clients_current_sched_num <= sched'.last
                              /\ sched'.last <= client_num_max
  <2>1. CASE stop_gradual
    BY <1>1, <1>2, <2>1 DEF LoopTypeOK, Idle
  <2>2. CASE ~stop_gradual /\ over
    BY <1>2, <2>2 DEF NoLoop
  <2>3. CASE ~stop_gradual /\ ~over
    <3>1. /\ clients_to_sched \in Nat
          /\ clients_current_sched_num + clients_to_sched <= client_num_max
      BY <1>3, <2>3 DEF clients_to_sched, Least
    <3>2. sched' = SchedFrom("inc", clients_to_sched)
      BY <1>2, <2>3
    <3>3. QED BY <3>1, <3>2, RateSchedFrom
  <2>4. QED BY <2>1, <2>2, <2>3
<1>5. /\ timers \ PeriodicTimers \subseteq timers' /\ timers' \subseteq timers
      /\ due' \subseteq timers' /\ do_gradual' \in BOOLEAN
  <2>1. inc \in PeriodicTimers /\ due \subseteq timers
    BY <1>1 DEF PeriodicTimers, LoopTypeOK
  <2>2. QED BY <1>2, <1>3, <2>1 DEF DueAfter, GradualAfter
<1>6. LoopTypeOK'
  <2>1. free_clients' = free_clients
    BY <1>2
  <2>2. QED BY <1>1, <1>2, <1>4, <1>5, <2>1 DEF LoopTypeOK
<1>7. SchedSound'
  BY <1>1, <1>2, <1>3, <1>4 DEF SchedSound
<1>8. clients_current_sched_num <= clients_current_sched_num'
  BY <1>2, <1>3
<1>9. QED BY <1>2, <1>5, <1>6, <1>7, <1>8, RateSchedStep

\* The rate timer schedules no more clients than the ramp-up has left.
LEMMA RateTimerStep ==
  ASSUME FixedRate, BooksInv, handle_req_rate_timer
  PROVE  BooksInv'
<1>1. LoopTypeOK /\ SchedSound /\ RampRespected /\ InUse \in Int
  BY BooksParts
<1>2. /\ phase = "handle" /\ due' = due \ {rate}
      /\ invocation' = (invocation % InvsPerSec) + 1
      /\ sched' = [by |-> "rate", next |-> 0, last |-> RateToSched]
      /\ UNCHANGED <<clientVars, batchVars, free_clients, failures>>
      /\ clients_current_sched_num' = clients_current_sched_num
      /\ do_gradual' = do_gradual /\ stop_gradual' = stop_gradual
      /\ run_over' = run_over /\ keys' = keys
      /\ phase' = phase /\ rounds' = rounds /\ timers' = timers
  BY DEF handle_req_rate_timer, Expires, rampVars, boundVars
<1>3. /\ clients_current_sched_num \in Nat
      /\ clients_current_sched_num \in 0 .. client_num_max /\ client_num_max \in Nat
      /\ InUse <= clients_current_sched_num
      /\ invocation \in Nat /\ InvsPerSec \in Nat \ {0} /\ req_rate \in Nat
  BY <1>1, BatchAssumption DEF LoopTypeOK, RampRespected, FixedRate
<1>4. invocation % InvsPerSec \in 0 .. InvsPerSec - 1
  BY <1>3
<1>5. RateShare(invocation % InvsPerSec) \in Nat
  <2>1. req_rate \div InvsPerSec \in Nat
    BY <1>3
  <2>2. QED BY <2>1 DEF RateShare
<1>6. /\ RateToSched \in Nat
      /\ \/ clients_current_sched_num = client_num_max
         \/ InUse + RateToSched <= clients_current_sched_num
  <2> DEFINE share == RateShare(invocation % InvsPerSec)
  <2> HIDE DEF share
  <2>1. RateToSched = IF clients_current_sched_num < client_num_max
                      THEN Least(share, Most(0, clients_current_sched_num - InUse))
                      ELSE share
    BY DEF RateToSched, share
  <2>2. share \in Nat
    BY <1>5 DEF share
  <2>3. QED BY <1>1, <1>3, <2>1, <2>2 DEF Least, Most
<1>7. /\ sched' \in [by : {"none", "init", "inc", "key", "rate"}, next : Nat, last : Nat]
      /\ sched'.by = "rate" /\ sched'.next = 0 /\ sched'.last = RateToSched
  BY <1>2, <1>6
<1>8. LoopTypeOK'
  <2>1. invocation' \in 0 .. InvsPerSec
    BY <1>2, <1>3, <1>4
  <2>2. free_clients' = free_clients /\ due' \subseteq timers'
    BY <1>1, <1>2 DEF LoopTypeOK
  <2>3. QED BY <1>1, <1>2, <1>7, <2>1, <2>2 DEF LoopTypeOK
<1>9. SchedSound'
  <2>1. InUse' = InUse
    BY <1>2 DEF InUse
  <2>2. \/ clients_current_sched_num' = client_num_max
        \/ InUse' + (sched'.last - sched'.next) <= clients_current_sched_num'
    BY <1>1, <1>2, <1>6, <1>7, <2>1
  <2>3. do_gradual' \/ inc \in timers' => clients_rampup_inc > 0
    BY <1>1, <1>2 DEF SchedSound
  <2>4. QED BY <1>2, <1>7, <2>2, <2>3 DEF SchedSound, inc
<1>10. clients_current_sched_num <= clients_current_sched_num'
  BY <1>2, <1>3
<1>11. QED BY <1>2, <1>8, <1>9, <1>10, RateSchedStep

\* req_rate_sched_clients: the last client of the list is loaded.
LEMMA RateClientBooked ==
  ASSUME BooksInv, RateClient, free_clients # <<>>
  PROVE  /\ LastFree \in Clients /\ Booked(LastFree)
         /\ timers \ {completion(LastFree)} \subseteq timers'
<1> DEFINE c == LastFree
<1>1. ClientsBooks /\ free_clients \in Seq(Clients)
  BY BooksParts DEF LoopTypeOK
<1>2. c \in Clients
  BY <1>1 DEF LastFree
<1>3. \E ok \in BOOLEAN : load_next_step(c, client_state[c], tid_url_completion[c], ok)
  BY DEF RateClient
<1> HIDE DEF c
<1>4. PICK ok \in BOOLEAN : load_next_step(c, client_state[c], tid_url_completion[c], ok)
  BY <1>3
<1>5. PICK state \in States, armed \in BOOLEAN :
        /\ state = client_state[c] /\ armed = tid_url_completion[c]
        /\ armed <=> completion(c) \in timers
  BY <1>1, <1>2 DEF ClientsBooks, ClientsTypeOK, TimersExclusive
<1>6. Booked(c) /\ timers \ {completion(c)} \subseteq timers'
  BY <1>1, <1>2, <1>4, <1>5, LoadBooks
<1>7. QED BY <1>2, <1>6 DEF c

\* The list with the last client taken off.
LEMMA FreeTaken ==
  ASSUME free_clients \in Seq(Clients), free_clients # <<>>
  PROVE  LET n == Len(free_clients)
         IN  /\ n \in Nat /\ n # 0 /\ DOMAIN free_clients = 1 .. n
             /\ LastFree = free_clients[n] /\ LastFree \in Clients
             /\ FreeLeft \in Seq(Clients) /\ Len(FreeLeft) = n - 1
             /\ DOMAIN FreeLeft = 1 .. n - 1
             /\ \A i \in 1 .. n - 1 : FreeLeft[i] = free_clients[i]
<1> DEFINE n == Len(free_clients)
<1>1. n \in Nat /\ n # 0 /\ DOMAIN free_clients = 1 .. n
  OBVIOUS
<1>2. LastFree = free_clients[n]
  BY DEF LastFree
<1>3. LastFree \in Clients
  BY <1>1, <1>2
<1>4. FreeLeft = SubSeq(free_clients, 1, n - 1)
  BY DEF FreeLeft
<1>5. /\ FreeLeft \in Seq(Clients) /\ Len(FreeLeft) = n - 1
      /\ DOMAIN FreeLeft = 1 .. n - 1
      /\ \A i \in 1 .. n - 1 : FreeLeft[i] = free_clients[i]
  BY <1>1, <1>4
<1>6. QED BY <1>1, <1>2, <1>3, <1>5

LEMMA RateClientStep ==
  ASSUME FixedRate, BooksInv, RateClient
  PROVE  BooksInv'
<1>1. /\ LoopTypeOK /\ SchedSound /\ RampRespected /\ InUse \in Int
  BY BooksParts
<1>2. /\ sched.by = "rate" /\ sched.next < sched.last
      /\ clients_current_sched_num' = clients_current_sched_num
      /\ do_gradual' = do_gradual /\ stop_gradual' = stop_gradual
      /\ invocation' = invocation /\ phase' = phase /\ rounds' = rounds
      /\ run_over' = run_over /\ keys' = keys
  BY DEF RateClient, rampVars
<1>3. CASE free_clients = <<>>
  <2>1. /\ sched' = NoLoop
        /\ UNCHANGED <<clientVars, batchVars, timers, due, failures, free_clients>>
    BY <1>3 DEF RateClient
  <2> USE DEF rampVars, rateVars
  <2>2. QED BY <1>1, <1>2, <2>1, RatePhaseStep DEF LoopTypeOK, SchedSound
<1>4. CASE free_clients # <<>>
  <2> DEFINE c == LastFree
             n == Len(free_clients)
  <2>1. free_clients \in Seq(Clients) /\ client_num_max \in Nat
    BY <1>1, BatchAssumption DEF LoopTypeOK
  <2>2. /\ n \in Nat /\ n # 0
        /\ FreeLeft \in Seq(Clients) /\ Len(FreeLeft) = n - 1
    BY <1>4, <2>1, FreeTaken
  <2>3. /\ free_clients' = FreeLeft
        /\ sched' = [sched EXCEPT !.next = @ + 1]
        /\ due' = due \ {completion(c)}
    BY <1>4 DEF RateClient
  <2>4. Booked(c) /\ timers \ {completion(c)} \subseteq timers'
    BY <1>4, RateClientBooked
  <2> HIDE DEF c
  <2>5. InUse' = InUse + 1
    BY <2>1, <2>2, <2>3 DEF InUse
  <2> HIDE DEF n
  <2>6. /\ sched' \in [by : {"none", "init", "inc", "key", "rate"}, next : Nat, last : Nat]
        /\ sched'.by = "rate" /\ sched'.next = sched.next + 1 /\ sched'.last = sched.last
        /\ sched.next \in Nat /\ sched.last \in Nat
    BY <1>1, <1>2, <2>3 DEF LoopTypeOK
  <2>7. LoopTypeOK'
    <3>1. due' \subseteq timers'
      BY <1>1, <2>3, <2>4 DEF LoopTypeOK
    <3>2. free_clients' \in Seq(Clients)
      BY <2>2, <2>3
    <3>3. QED BY <1>1, <1>2, <2>6, <3>1, <3>2 DEF LoopTypeOK
  <2>8. SchedSound'
    <3>1. phase' # "handle" => due' = {}
      BY <1>1, <1>2, <2>3 DEF SchedSound
    <3>2. inc \in timers' => inc \in timers
      BY <2>4 DEF Booked, PeriodicTimers
    <3>3. \/ clients_current_sched_num' = client_num_max
          \/ InUse' + (sched'.last - sched'.next) <= clients_current_sched_num'
      <4>1. clients_current_sched_num \in Int
        BY <1>1 DEF LoopTypeOK
      <4>2. QED BY <1>1, <1>2, <2>5, <2>6, <4>1 DEF SchedSound
    <3>4. QED BY <1>1, <1>2, <2>6, <3>1, <3>2, <3>3 DEF SchedSound, inc
  <2>9. RampRespected'
    <3>1. CASE clients_current_sched_num = client_num_max
      <4>1. InUse' <= client_num_max
        BY <2>1, <2>2, <2>3 DEF InUse, n
      <4>2. QED BY <1>2, <3>1, <4>1 DEF RampRespected
    <3>2. CASE InUse + (sched.last - sched.next) <= clients_current_sched_num
      <4>1. clients_current_sched_num \in Int
        BY <1>1 DEF LoopTypeOK
      <4>2. QED BY <1>1, <1>2, <2>5, <2>6, <3>2, <4>1 DEF RampRespected
    <3>3. QED BY <1>1, <1>2, <3>1, <3>2 DEF SchedSound
  <2>10. QED
    BY <2>4, <2>7, <2>8, <2>9, BooksFromParts DEF Booked
<1>5. QED BY <1>3, <1>4

\* A sleeping timer: its client is back in the multi handle.
LEMMA RateSleepingBooked ==
  ASSUME BooksInv, NEW c \in Clients, handle_cctx_sleeping_timer(c)
  PROVE  /\ Booked(c) /\ sleeping(c) \in timers
         /\ due' \subseteq due \ {sleeping(c), completion(c)}
<1>1. ClientsBooks /\ due \subseteq timers
  BY BooksParts DEF LoopTypeOK
<1>2. /\ sleeping(c) \in due
      /\ sleeping_clients_count' = sleeping_clients_count - 1
      /\ UNCHANGED <<client_state, url_curr_index, cycle_num, handle, failures,
                     cycling_completed, requests_completed>>
  BY DEF handle_cctx_sleeping_timer, Expires, boundVars
<1>3. PICK ok \in BOOLEAN :
        /\ client_add_to_load(c, url_curr_index[c], ~InMulti(c),
                              timers \ {sleeping(c)}, active_clients_count, ok)
        /\ due' = DueAfter(sleeping(c), ok)
  BY DEF handle_cctx_sleeping_timer
<1>4. completion(c) \notin due
  BY <1>1, <1>2 DEF ClientsBooks, TimersExclusive
<1>5. ok /\ Settled(c, ok)
  BY <1>1, <1>2, <1>3, WakeSettles
<1>6. Booked(c)
  BY <1>1, <1>5, SettledBooks
<1>7. QED BY <1>1, <1>2, <1>3, <1>4, <1>6 DEF DueAfter

LEMMA RateSleepingStep ==
  ASSUME BooksInv, NEW c \in Clients, handle_cctx_sleeping_timer(c)
  PROVE  BooksInv'
<1>1. LoopTypeOK /\ SchedSound /\ RampRespected
  BY BooksParts
<1>2. /\ clients_current_sched_num' = clients_current_sched_num
      /\ do_gradual' = do_gradual /\ stop_gradual' = stop_gradual
      /\ free_clients' = free_clients /\ invocation' = invocation
      /\ phase = "handle" /\ phase' = phase /\ rounds' = rounds /\ sched' = sched
      /\ run_over' = run_over /\ keys' = keys
  BY DEF handle_cctx_sleeping_timer, Expires, rampVars, rateVars, loopVars, boundVars
<1>3. Booked(c) /\ due' \subseteq due \ {sleeping(c), completion(c)}
  BY RateSleepingBooked
<1>4. LoopTypeOK'
  <2>1. due' \subseteq timers'
    BY <1>1, <1>3 DEF LoopTypeOK, Booked
  <2>2. QED BY <1>1, <1>2, <2>1 DEF LoopTypeOK
<1>5. SchedSound' /\ RampRespected'
  <2>1. inc \in timers' => inc \in timers
    BY <1>3 DEF Booked, PeriodicTimers
  <2>2. InUse' = InUse
    BY <1>2 DEF InUse
  <2>3. QED BY <1>1, <1>2, <2>1, <2>2 DEF SchedSound, RampRespected, inc
<1>6. QED BY <1>3, <1>4, <1>5, BooksFromParts DEF Booked

\* put_free_client takes nobody off the list.
LEMMA FreePut ==
  ASSUME LoopTypeOK, NEW c \in Clients, put_free_client(c)
  PROVE  free_clients' \in Seq(Clients) /\ InUse' \in Int /\ InUse' <= InUse
<1>1. free_clients \in Seq(Clients) /\ client_num_max \in Nat
  BY BatchAssumption DEF LoopTypeOK
<1>2. CASE CanPutFree
  BY <1>1, <1>2 DEF put_free_client, InUse
<1>3. CASE ~CanPutFree
  BY <1>1, <1>3 DEF put_free_client, InUse
<1>4. QED BY <1>2, <1>3

\* A message is read, or a transfer has taken too long: the client, which is in
\* the multi handle and stays there, is now in its own state or in CSTATE_ERROR.
LEMMA FreedBooks ==
  ASSUME ClientsBooks, NEW c \in Clients, NEW place \in Places \ {"out"},
         NEW st \in {client_state[c], "ERROR"}, InMulti(c),
         multi' = [multi EXCEPT ![c] = place],
         client_state' = [client_state EXCEPT ![c] = st],
         UNCHANGED <<url_curr_index, cycle_num, handle, batchVars, failures>>,
         \/ timers' = timers /\ tid_url_completion' = tid_url_completion
         \/ /\ timers' = timers \ {completion(c)}
            /\ tid_url_completion' = [tid_url_completion EXCEPT ![c] = FALSE]
  PROVE  ClientsBooks'
<1>1. /\ ClientsTypeOK /\ CountsExact /\ TimersExclusive /\ PlacesKnown
      /\ CyclesLeft /\ LogoffLast /\ WalksBegun
  BY DEF ClientsBooks
<1>2. /\ client_state \in [Clients -> States] /\ multi \in [Clients -> Places]
      /\ tid_url_completion \in [Clients -> BOOLEAN]
      /\ client_state[c] \in {"URLS", "ERROR"} /\ "ERROR" \in States
      /\ multi[c] # "out" /\ handle[c]
  BY <1>1 DEF ClientsTypeOK, PlacesKnown, Kept, InMulti, States
<1>3. /\ active_clients_count' = active_clients_count
      /\ sleeping_clients_count' = sleeping_clients_count
      /\ cycling_completed' = cycling_completed
      /\ requests_completed' = requests_completed /\ failures' = failures
      /\ url_curr_index' = url_curr_index /\ cycle_num' = cycle_num /\ handle' = handle
  BY DEF batchVars
<1>4. /\ multi' \in [Clients -> Places] /\ client_state' \in [Clients -> States]
      /\ multi'[c] # "out" /\ client_state'[c] = st /\ st \in {"URLS", "ERROR"}
      /\ st = "URLS" => client_state[c] = "URLS"
      /\ \A d \in Clients \ {c} : multi'[d] = multi[d] /\ client_state'[d] = client_state[d]
  BY <1>2
<1>5. /\ tid_url_completion' \in [Clients -> BOOLEAN] /\ timers' \subseteq timers
      /\ \A d \in Clients : sleeping(d) \in timers' <=> sleeping(d) \in timers
      /\ \A d \in Clients \ {c} : /\ completion(d) \in timers' <=> completion(d) \in timers
                                  /\ tid_url_completion'[d] = tid_url_completion[d]
      /\ tid_url_completion'[c] <=> completion(c) \in timers'
  <2>1. tid_url_completion[c] <=> completion(c) \in timers
    BY <1>1 DEF TimersExclusive
  <2>2. CASE timers' = timers /\ tid_url_completion' = tid_url_completion
    BY <1>2, <2>1, <2>2
  <2>3. CASE /\ timers' = timers \ {completion(c)}
             /\ tid_url_completion' = [tid_url_completion EXCEPT ![c] = FALSE]
    BY <1>2, <2>3, TimerNames
  <2>4. QED BY <2>2, <2>3
<1>6. ClientsTypeOK'
  <2>1. timers' \subseteq ClientTimers \cup PeriodicTimers
    BY <1>1, <1>5 DEF ClientsTypeOK
  <2>2. QED BY <1>1, <1>3, <1>4, <1>5, <2>1
            DEF ClientsTypeOK, ClientTimers, PeriodicTimers, inc, rate, screen
<1>7. CountsExact'
  <2>1. {d \in Clients : InMulti(d)}' = {d \in Clients : InMulti(d)}
    BY <1>2, <1>4 DEF InMulti
  <2>2. {d \in Clients : sleeping(d) \in timers}' = {d \in Clients : sleeping(d) \in timers}
    BY <1>5 DEF sleeping
  <2>3. QED BY <1>1, <1>3, <2>1, <2>2 DEF CountsExact
<1>8. TimersExclusive' /\ PlacesKnown'
  <2>1. SUFFICES ASSUME NEW e \in Clients
                 PROVE  /\ sleeping(e) \in timers' => multi'[e] = "out"
                        /\ completion(e) \in timers' => multi'[e] # "out"
                        /\ tid_url_completion'[e] <=> completion(e) \in timers'
                        /\ multi'[e] # "out" \/ sleeping(e) \in timers' => handle[e]
                        /\ sleeping(e) \in timers' => client_state'[e] = "URLS"
                        /\ multi'[e] # "out" => client_state'[e] \in {"URLS", "ERROR"}
                        /\ completion(e) \in timers' => TRUE \in Timeouts[url_curr_index[e]]
    BY <1>3 DEF TimersExclusive, PlacesKnown, Kept, InMulti, sleeping, completion
  <2>2. CASE e = c
    BY <1>1, <1>2, <1>4, <1>5, <2>2 DEF TimersExclusive, PlacesKnown, InMulti
  <2>3. CASE e # c
    BY <1>1, <1>4, <1>5, <2>3 DEF TimersExclusive, PlacesKnown, Kept, InMulti
  <2>4. QED BY <2>2, <2>3
<1>9. CyclesLeft'
  BY <1>1, <1>3, <1>4 DEF CyclesLeft
<1>10. LogoffLast'
  <2>1. \A e \in Clients : client_state'[e] = "FINISHED_OK" => client_state[e] = "FINISHED_OK"
    BY <1>4
  <2>2. QED BY <1>1, <1>3, <2>1 DEF LogoffLast
<1>11. WalksBegun'
  <2>1. \A e \in Clients : client_state'[e] = "INIT" => client_state[e] = "INIT"
    BY <1>4
  <2>2. QED BY <1>1, <1>3, <2>1 DEF WalksBegun
<1>12. QED
  BY <1>6, <1>7, <1>8, <1>9, <1>10, <1>11 DEF ClientsBooks

LEMMA RateDrainStep ==
  ASSUME FixedRate, BooksInv, NEW c \in Clients, DrainDone(c)
  PROVE  BooksInv'
<1>1. ClientsBooks /\ LoopTypeOK /\ SchedSound /\ RampRespected /\ InUse \in Int
  BY BooksParts
<1>2. /\ phase = "drain" /\ Done(c) /\ put_free_client(c)
      /\ multi' = [multi EXCEPT ![c] = "read"]
      /\ client_state' = [client_state EXCEPT ![c] = StateDone(c)]
      /\ IF CanPutFree THEN UNCHANGED <<phase, rounds>> ELSE AfterDrain(TRUE)
      /\ UNCHANGED <<url_curr_index, cycle_num, handle, tid_url_completion,
                     batchVars, timers, failures>>
      /\ UNCHANGED <<rampVars, invocation, sched, run_over, keys, due>>
  BY DEF DrainDone, FixedRate
<1>3. InMulti(c) /\ StateDone(c) \in {client_state[c], "ERROR"} /\ "read" \in Places \ {"out"}
  BY <1>2 DEF Done, InMulti, StateDone, Places
<1>4. ClientsBooks'
  BY <1>1, <1>2, <1>3, FreedBooks
<1>5. free_clients' \in Seq(Clients) /\ InUse' \in Int /\ InUse' <= InUse
  BY <1>1, <1>2, FreePut
<1>6. /\ phase' \in {"drain", "perform", "test", "dispatch"} /\ rounds' \in 0 .. SelectRounds
      /\ clients_current_sched_num' = clients_current_sched_num
      /\ do_gradual' = do_gradual /\ stop_gradual' = stop_gradual
      /\ due = {} /\ sched.by # "init"
  <2>1. rounds \in 0 .. SelectRounds /\ SelectRounds \in Nat
    BY <1>1, ModeAssumption DEF LoopTypeOK
  <2>2. phase' \in {"drain", "perform", "test", "dispatch"} /\ rounds' \in 0 .. SelectRounds
    BY <1>2, <2>1 DEF AfterDrain
  <2>3. QED BY <1>1, <1>2, <2>2 DEF rampVars, SchedSound
<1>7. LoopTypeOK'
  BY <1>1, <1>2, <1>5, <1>6 DEF LoopTypeOK
<1>8. SchedSound' /\ RampRespected'
  <2>1. /\ clients_current_sched_num \in Int /\ sched.next \in Int /\ sched.last \in Int
    BY <1>1 DEF LoopTypeOK
  <2>2. RampRespected'
    BY <1>1, <1>5, <1>6, <2>1 DEF RampRespected
  <2>3. SchedSound'
    BY <1>1, <1>2, <1>5, <1>6, <2>1 DEF SchedSound, inc
  <2>4. QED BY <2>2, <2>3
<1>9. QED BY <1>4, <1>7, <1>8, BooksFromParts

LEMMA RateCompletionStep ==
  ASSUME FixedRate, BooksInv, NEW c \in Clients, handle_cctx_url_completion_timer(c)
  PROVE  BooksInv'
<1>1. ClientsBooks /\ LoopTypeOK /\ SchedSound /\ RampRespected /\ InUse \in Int
  BY BooksParts
<1>2. /\ phase = "handle" /\ completion(c) \in due /\ put_free_client(c)
      /\ client_state' = [client_state EXCEPT ![c] = "ERROR"]
      /\ tid_url_completion' = [tid_url_completion EXCEPT ![c] = FALSE]
      /\ timers' = timers \ {completion(c)}
      /\ due' = DueAfter(completion(c), CanPutFree)
      /\ UNCHANGED <<url_curr_index, cycle_num, handle, multi, batchVars, failures>>
      /\ UNCHANGED <<rampVars, invocation, loopVars, run_over, keys>>
  BY DEF handle_cctx_url_completion_timer, Expires, FixedRate
<1>3. InMulti(c) /\ due \subseteq timers /\ multi \in [Clients -> Places]
  BY <1>1, <1>2 DEF LoopTypeOK, ClientsBooks, ClientsTypeOK, TimersExclusive
<1>4. ClientsBooks'
  <2>1. PICK place \in Places \ {"out"} : place = multi[c]
    BY <1>3 DEF InMulti
  <2>2. multi' = [multi EXCEPT ![c] = place]
    BY <1>2, <1>3, <2>1
  <2>3. QED BY <1>1, <1>2, <1>3, <2>2, FreedBooks
<1>5. free_clients' \in Seq(Clients) /\ InUse' \in Int /\ InUse' <= InUse
  BY <1>1, <1>2, FreePut
<1>6. /\ phase' = phase /\ rounds' = rounds /\ sched' = sched
      /\ clients_current_sched_num' = clients_current_sched_num
      /\ do_gradual' = do_gradual /\ stop_gradual' = stop_gradual
      /\ due' \subseteq timers' /\ (inc \in timers' => inc \in timers)
  BY <1>2, <1>3 DEF rampVars, loopVars, DueAfter
<1>7. LoopTypeOK'
  BY <1>1, <1>2, <1>5, <1>6 DEF LoopTypeOK
<1>8. SchedSound' /\ RampRespected'
  <2>1. /\ clients_current_sched_num \in Int /\ sched.next \in Int /\ sched.last \in Int
    BY <1>1 DEF LoopTypeOK
  <2>2. RampRespected'
    BY <1>1, <1>5, <1>6, <2>1 DEF RampRespected
  <2>3. SchedSound'
    BY <1>1, <1>2, <1>5, <1>6, <2>1 DEF SchedSound, inc
  <2>4. QED BY <2>2, <2>3
<1>9. QED BY <1>4, <1>7, <1>8, BooksFromParts

\* libcurl finishes a transfer.
LEMMA RateCompleteStep ==
  ASSUME BooksInv, NEW c \in Clients, NEW result \in {"ok", "err"}, Complete(c, result)
  PROVE  BooksInv'
<1>1. ClientsBooks /\ LoopTypeOK /\ SchedSound /\ RampRespected
  BY BooksParts
<1>2. /\ multi[c] = "loading"
      /\ multi' = [multi EXCEPT ![c] = result]
      /\ UNCHANGED <<client_state, url_curr_index, cycle_num, handle,
                     tid_url_completion, batchVars, clients_current_sched_num,
                     do_gradual, stop_gradual, free_clients, invocation, phase,
                     rounds, sched, run_over, keys, failures, timers, due>>
  BY DEF Complete, rampVars, rateVars, loopVars, boundVars
<1>3. ClientsBooks'
  <2>1. InMulti(c) /\ client_state \in [Clients -> States]
    BY <1>1, <1>2 DEF InMulti, ClientsBooks, ClientsTypeOK
  <2>2. client_state' = [client_state EXCEPT ![c] = client_state[c]]
    BY <1>2, <2>1
  <2>3. result \in Places \ {"out"}
    BY DEF Places
  <2>4. QED BY <1>1, <1>2, <2>1, <2>2, <2>3, FreedBooks
<1>4. LoopTypeOK'
  BY <1>1, <1>2 DEF LoopTypeOK
<1>5. SchedSound' /\ RampRespected'
  BY <1>1, <1>2 DEF SchedSound, RampRespected, InUse, inc
<1>6. QED BY <1>3, <1>4, <1>5, BooksFromParts

\* Every step keeps the books.
LEMMA NextBooks ==
  ASSUME FixedRate, BooksInv, [Next]_vars
  PROVE  BooksInv'
<1>1. CASE UNCHANGED vars
  <2> USE <1>1 DEF vars, clientVars, batchVars, rampVars, rateVars, loopVars, boundVars
  <2>1. ClientsBooks'
    BY BooksParts, BooksUnchanged
  <2>2. LoopTypeOK' /\ RampRespected' /\ SchedSound'
    BY BooksParts DEF LoopTypeOK, RampRespected, SchedSound, InUse, inc
  <2>3. QED BY <2>1, <2>2, BooksFromParts
<1>2. ASSUME NEW c \in Clients, NEW result \in {"ok", "err"}, Complete(c, result)
      PROVE  BooksInv'
  BY <1>2, RateCompleteStep
<1>3. CASE RunTimePasses
  BY <1>3, RateLoopSteps
<1>4. CASE Thread
  <2>1. CASE SchedEnd
    BY <2>1, RateSchedEndStep
  <2>2. CASE RateClient
    BY <2>2, RateClientStep
  <2>3. CASE \/ Test \/ Exit \/ BeginDrain \/ EndDrain \/ NoKey \/ DispatchEnd \/ RateEnd
             \/ \E expired \in SUBSET timers : DispatchBegin(expired)
    BY <2>3, RateLoopSteps
  <2>4. ASSUME NEW c \in Clients, DrainDone(c) PROVE BooksInv'
    BY <2>4, RateDrainStep
  <2>5. ASSUME NEW c \in Clients, handle_cctx_sleeping_timer(c) PROVE BooksInv'
    BY <2>5, RateSleepingStep
  <2>6. ASSUME NEW c \in Clients, handle_cctx_url_completion_timer(c) PROVE BooksInv'
    BY <2>6, RateCompletionStep
  <2>7. CASE handle_gradual_increase_clients_num_timer
    BY <2>7, RateGradualStep
  <2>8. CASE handle_req_rate_timer
    BY <2>8, RateTimerStep
  <2>9. ASSUME NEW key \in Keys, KeyPressed(key) PROVE BooksInv'
    BY <2>9, RateKeyStep
  <2>10. QED
    BY <1>4, <2>1, <2>2, <2>3, <2>4, <2>5, <2>6, <2>7, <2>8, <2>9, NoRateSchedClient
    DEF Thread
<1>5. QED BY <1>1, <1>2, <1>3, <1>4 DEF Next

\* The books are kept, whatever the load: with the loop of user_activity_smooth
\* or of user_activity_hyper, with a fixed request rate or without, ramped up or
\* not, whatever the urls and their timeouts.
THEOREM BooksInvariant == Spec => []BooksInv
<1>1. CASE NoRate
  <2>1. Spec => []LoadInv
    BY <1>1, LoadInvariant
  <2>2. LoadInv => BooksInv
    BY <1>1, LoadKeepsBooks
  <2>3. QED BY <2>1, <2>2, PTL
<1>2. CASE FixedRate
  <2>1. Init => BooksInv
    BY <1>2, InitBooks
  <2>2. BooksInv /\ [Next]_vars => BooksInv'
    BY <1>2, NextBooks
  <2>3. QED BY <2>1, <2>2, PTL DEF Spec
<1>3. QED BY <1>1, <1>2, RateOrNot

\* Every variable of a load keeps its type.
THEOREM TypeCorrect == Spec => []TypeOK
<1>1. BooksInv => TypeOK
  BY DEF BooksInv
<1>2. QED BY <1>1, BooksInvariant, PTL

\* As many clients are counted active as the multi handle has, as many sleeping
\* as there are sleeping timers, whatever the load: the counters
\* pending_active_and_waiting_clients_num ends it by.
THEOREM CountersExact == Spec => []CountsExact
<1>1. BooksInv => CountsExact
  BY DEF BooksInv
<1>2. QED BY <1>1, BooksInvariant, PTL

\* The two timers of a client, which share one node, never overlap.
THEOREM TimersNeverOverlap == Spec => []TimersExclusive
<1>1. BooksInv => TimersExclusive
  BY DEF BooksInv
<1>2. QED BY <1>1, BooksInvariant, PTL

\* A client on a url of the cycle has cycles left, whichever way load_error_state
\* and pick_up_next_url have brought it there.
THEOREM CyclesAreLeft == Spec => []CyclesLeft
<1>1. BooksInv => CyclesLeft
  BY DEF BooksInv
<1>2. QED BY <1>1, BooksInvariant, PTL

\* No client is at a url after the cycle before the cycling is over, and none
\* finishes but at the last url.
THEOREM LogoffIsLast == Spec => []LogoffLast
<1>1. BooksInv => LogoffLast
  BY DEF BooksInv
<1>2. QED BY <1>1, BooksInvariant, PTL

\* handle_req_rate_timer and its loop over clients never have more clients in
\* use than the ramp-up has counted in.
THEOREM RampIsRespected == Spec => []RampRespected
<1>1. BooksInv => RampRespected
  BY DEF BooksInv
<1>2. QED BY <1>1, BooksInvariant, PTL

(***************************************************************************)
(* With a fixed request rate and no completion timeouts, the free list.    *)
(***************************************************************************)

\* No client has a completion timer, nor gets one.
LEMMA NoCompletions ==
  ASSUME NoTimeouts, BooksInv, NEW c \in Clients
  PROVE  completion(c) \notin timers /\ ~handle_cctx_url_completion_timer(c)
<1>1. url_curr_index[c] \in Urls /\ due \subseteq timers
  BY DEF BooksInv, TypeOK
<1>2. completion(c) \notin timers
  BY <1>1 DEF BooksInv, PlacesKnown, NoTimeouts
<1>3. QED BY <1>1, <1>2 DEF handle_cctx_url_completion_timer, Expires

LEMMA NoCompletionsNext ==
  ASSUME NoTimeouts, BooksInv', NEW c \in Clients
  PROVE  completion(c) \notin timers'
<1>1. url_curr_index'[c] \in Urls
  BY DEF BooksInv, TypeOK
<1>2. completion(c) \in timers' => TRUE \in Timeouts[url_curr_index'[c]]
  BY DEF BooksInv, PlacesKnown, completion
<1>3. QED BY <1>1, <1>2 DEF NoTimeouts

\* A client with a transfer, a message to be read or a sleeping timer is not on
\* the list.
LEMMA BusyNotFree ==
  ASSUME FreeListSound, NEW c \in Clients,
         Done(c) \/ multi[c] = "loading" \/ sleeping(c) \in timers
  PROVE  \A i \in DOMAIN free_clients : free_clients[i] # c
BY DEF FreeListSound, Done

\* The client whose message is read is put at the end of the list, which has
\* room for it: the clients on the list are some of the others.
LEMMA RoomForTheDone ==
  ASSUME RateInv, NEW c \in Clients, Done(c)
  PROVE  CanPutFree
<1> DEFINE n == Len(free_clients)
<1>1. /\ free_clients \in Seq(Clients) /\ n \in Nat /\ DOMAIN free_clients = 1 .. n
      /\ client_num_max \in Nat \ {0}
  BY BatchAssumption DEF RateInv, BooksInv, TypeOK
<1>2. \A i \in 1 .. n : free_clients[i] \in Clients \ {c}
  BY <1>1, BusyNotFree DEF RateInv
<1>3. \A i, j \in 1 .. n : free_clients[i] = free_clients[j] => i = j
  BY <1>1 DEF RateInv, FreeListSound
<1>4. /\ IsFiniteSet(1 .. n) /\ Cardinality(1 .. n) = n
      /\ IsFiniteSet(Clients) /\ Cardinality(Clients) = client_num_max
  <2>1. 0 \in Int /\ 1 \in Int /\ n \in Int /\ client_num_max - 1 \in Int
    BY <1>1
  <2>2. /\ IsFiniteSet(1 .. n)
        /\ Cardinality(1 .. n) = IF 1 > n THEN 0 ELSE n - 1 + 1
        /\ IsFiniteSet(0 .. client_num_max - 1)
        /\ Cardinality(0 .. client_num_max - 1) =
             IF 0 > client_num_max - 1 THEN 0 ELSE (client_num_max - 1) - 0 + 1
    BY <2>1, FS_Interval
  <2> HIDE DEF n
  <2>3. QED BY <1>1, <2>2 DEF Clients
<1>5. IsFiniteSet(Clients \ {c}) /\ Cardinality(Clients \ {c}) = client_num_max - 1
  BY <1>4, FS_RemoveElement
<1> HIDE DEF n
<1>6. SUFFICES ASSUME ~(n < client_num_max) PROVE FALSE
  BY DEF CanPutFree, n
<1>7. DEFINE f == [i \in 1 .. n |-> free_clients[i]]
<1>8. f \in [1 .. n -> Clients \ {c}]
  BY <1>2
<1>9. \A i \in 1 .. n : f[i] = free_clients[i]
  OBVIOUS
<1>10. Cardinality(Clients \ {c}) < Cardinality(1 .. n)
  BY <1>1, <1>4, <1>5, <1>6
<1> HIDE DEF f
<1>11. \E i, j \in 1 .. n : i # j /\ f[i] = f[j]
  BY <1>4, <1>5, <1>8, <1>10, FS_PigeonHole
<1>12. QED BY <1>3, <1>9, <1>11

\* The clients of the list are left alone.
LEMMA FreeStays ==
  ASSUME NoTimeouts, RateInv, BooksInv', free_clients' = free_clients,
         \A i \in DOMAIN free_clients :
           /\ multi'[free_clients[i]] = multi[free_clients[i]]
           /\ sleeping(free_clients[i]) \in timers' => sleeping(free_clients[i]) \in timers
  PROVE  FreeListSound'
<1>1. FreeListSound /\ free_clients \in Seq(Clients)
  BY DEF RateInv, BooksInv, TypeOK
<1>2. ASSUME NEW i \in DOMAIN free_clients
      PROVE  /\ multi'[free_clients[i]] \in {"out", "read"}
             /\ sleeping(free_clients[i]) \notin timers'
             /\ completion(free_clients[i]) \notin timers'
  <2>1. free_clients[i] \in Clients
    BY <1>1
  <2>2. QED BY <1>1, <1>2, <2>1, NoCompletionsNext DEF FreeListSound
<1>3. QED BY <1>1, <1>2 DEF FreeListSound, sleeping, completion

\* The steps that leave every client alone.
LEMMA FreeIdleStep ==
  ASSUME NoTimeouts, RateInv, BooksInv', free_clients' = free_clients, multi' = multi,
         timers' \subseteq timers \cup PeriodicTimers
  PROVE  FreeListSound'
<1>1. free_clients \in Seq(Clients)
  BY DEF RateInv, BooksInv, TypeOK
<1>2. ASSUME NEW i \in DOMAIN free_clients
      PROVE  sleeping(free_clients[i]) \in timers' => sleeping(free_clients[i]) \in timers
  <2>1. free_clients[i] \in Clients
    BY <1>1
  <2>2. QED BY <2>1, TimerNames
<1>3. QED BY <1>2, FreeStays

\* The steps of a client that is not on the list.
LEMMA FreeOtherStep ==
  ASSUME NoTimeouts, RateInv, BooksInv', free_clients' = free_clients, NEW c \in Clients,
         Done(c) \/ multi[c] = "loading" \/ sleeping(c) \in timers,
         \A d \in Clients \ {c} : /\ multi'[d] = multi[d]
                                  /\ sleeping(d) \in timers' <=> sleeping(d) \in timers
  PROVE  FreeListSound'
<1>1. FreeListSound /\ free_clients \in Seq(Clients)
  BY DEF RateInv, BooksInv, TypeOK
<1>2. \A i \in DOMAIN free_clients : free_clients[i] \in Clients \ {c}
  BY <1>1, BusyNotFree
<1>3. QED BY <1>2, FreeStays

\* req_rate_sched_clients: the last client is taken off.
LEMMA FreeClientStep ==
  ASSUME NoTimeouts, RateInv, BooksInv', RateClient
  PROVE  FreeListSound'
<1>1. BooksInv /\ FreeListSound /\ free_clients \in Seq(Clients) /\ client_num_max \in Nat
  BY BatchAssumption DEF RateInv, BooksInv, TypeOK
<1>2. CASE free_clients = <<>>
  BY <1>2, FreeIdleStep DEF RateClient, clientVars
<1>3. CASE free_clients # <<>>
  <2> DEFINE c == LastFree
             n == Len(free_clients)
  <2>1. /\ n \in Nat /\ n # 0 /\ DOMAIN free_clients = 1 .. n
        /\ c = free_clients[n]
        /\ Len(FreeLeft) = n - 1 /\ DOMAIN FreeLeft = 1 .. n - 1
        /\ \A i \in 1 .. n - 1 : FreeLeft[i] = free_clients[i]
    BY <1>1, <1>3, FreeTaken
  <2>2. n <= client_num_max
    BY <1>1 DEF FreeListSound
  <2>3. free_clients' = FreeLeft
    BY <1>3 DEF RateClient
  <2>4. c \in Clients /\ Booked(c)
    BY <1>1, <1>3, RateClientBooked
  <2> HIDE DEF c, n
  <2>5. /\ Len(free_clients') = n - 1 /\ DOMAIN free_clients' = 1 .. n - 1
        /\ \A i \in 1 .. n - 1 : free_clients'[i] = free_clients[i]
    BY <2>1, <2>3
  <2>6. ASSUME NEW i \in 1 .. n - 1
        PROVE  /\ multi'[free_clients[i]] \in {"out", "read"}
               /\ sleeping(free_clients[i]) \notin timers'
               /\ completion(free_clients[i]) \notin timers'
    <3>1. i \in DOMAIN free_clients /\ n \in DOMAIN free_clients /\ i # n
      BY <2>1
    <3>2. free_clients[i] \in Clients \ {c}
      BY <1>1, <2>1, <3>1 DEF FreeListSound
    <3>3. /\ multi[free_clients[i]] \in {"out", "read"}
          /\ sleeping(free_clients[i]) \notin timers
      BY <1>1, <3>1 DEF FreeListSound
    <3>4. QED BY <2>4, <3>2, <3>3, NoCompletionsNext DEF Booked
  <2>7. \A i, j \in 1 .. n - 1 : free_clients'[i] = free_clients'[j] => i = j
    BY <1>1, <2>1, <2>5 DEF FreeListSound
  <2>8. Len(free_clients') <= client_num_max
    BY <1>1, <2>1, <2>2, <2>5
  <2>9. \A i \in DOMAIN free_clients' :
          /\ multi'[free_clients'[i]] \in {"out", "read"}
          /\ sleeping(free_clients'[i]) \notin timers'
          /\ completion(free_clients'[i]) \notin timers'
    BY <2>5, <2>6
  <2>10. \A i, j \in DOMAIN free_clients' :
           free_clients'[i] = free_clients'[j] => i = j
    BY <2>5, <2>7
  <2>11. QED BY <2>8, <2>9, <2>10 DEF FreeListSound, sleeping, completion
<1>4. QED BY <1>2, <1>3

\* A DONE message: its client is put at the end of the list.
LEMMA FreeDrainStep ==
  ASSUME FixedRate, NoTimeouts, RateInv, BooksInv', NEW c \in Clients, DrainDone(c)
  PROVE  FreeListSound'
<1> DEFINE n == Len(free_clients)
<1>1. /\ FreeListSound /\ multi \in [Clients -> Places] /\ Done(c)
      /\ free_clients \in Seq(Clients) /\ n \in Nat /\ DOMAIN free_clients = 1 .. n
      /\ client_num_max \in Nat
  BY BatchAssumption DEF RateInv, BooksInv, TypeOK, DrainDone
<1>2. n < client_num_max
  BY <1>1, RoomForTheDone DEF CanPutFree
<1>3. /\ free_clients' = Append(free_clients, c) /\ timers' = timers
      /\ multi' = [multi EXCEPT ![c] = "read"]
  BY <1>1, RoomForTheDone DEF DrainDone, put_free_client, FixedRate
<1>4. /\ Len(free_clients') = n + 1 /\ DOMAIN free_clients' = 1 .. n + 1
      /\ free_clients'[n + 1] = c
      /\ \A i \in 1 .. n : free_clients'[i] = free_clients[i]
  BY <1>1, <1>3
<1> HIDE DEF n
<1>5. \A i \in 1 .. n : free_clients[i] \in Clients \ {c}
  BY <1>1, BusyNotFree
<1>6. /\ multi'[c] = "read"
      /\ \A d \in Clients \ {c} : multi'[d] = multi[d]
  BY <1>1, <1>3
<1>7. sleeping(c) \notin timers
  BY <1>1 DEF RateInv, BooksInv, TimersExclusive, InMulti, Done
<1>8. \A i \in 1 .. n + 1 : i = n + 1 \/ i \in 1 .. n
  BY <1>1
<1>9. \A i, j \in 1 .. n + 1 : free_clients'[i] = free_clients'[j] => i = j
  <2>1. \A i, j \in 1 .. n : free_clients[i] = free_clients[j] => i = j
    BY <1>1 DEF FreeListSound
  <2>2. QED BY <1>4, <1>5, <1>8, <2>1
<1>10. ASSUME NEW i \in 1 .. n + 1
       PROVE  /\ multi'[free_clients'[i]] \in {"out", "read"}
              /\ sleeping(free_clients'[i]) \notin timers
              /\ completion(free_clients'[i]) \notin timers'
  <2>1. CASE i = n + 1
    BY <1>4, <1>6, <1>7, <2>1, NoCompletionsNext
  <2>2. CASE i \in 1 .. n
    <3>1. free_clients'[i] = free_clients[i] /\ free_clients[i] \in Clients \ {c}
      BY <1>4, <1>5, <2>2
    <3>2. /\ multi[free_clients[i]] \in {"out", "read"}
          /\ sleeping(free_clients[i]) \notin timers
      BY <1>1, <2>2 DEF FreeListSound
    <3>3. QED BY <1>6, <3>1, <3>2, NoCompletionsNext
  <2>3. QED BY <1>8, <2>1, <2>2
<1>11. Len(free_clients') <= client_num_max
  BY <1>1, <1>2, <1>4
<1>12. \A i \in DOMAIN free_clients' :
         /\ multi'[free_clients'[i]] \in {"out", "read"}
         /\ sleeping(free_clients'[i]) \notin timers'
         /\ completion(free_clients'[i]) \notin timers'
  BY <1>3, <1>4, <1>10
<1>13. \A i, j \in DOMAIN free_clients' :
         free_clients'[i] = free_clients'[j] => i = j
  BY <1>4, <1>9
<1>14. QED BY <1>11, <1>12, <1>13 DEF FreeListSound, sleeping, completion

\* Every step keeps the books and the list.
LEMMA NextRate ==
  ASSUME FixedRate, NoTimeouts, RateInv, [Next]_vars
  PROVE  RateInv'
<1>1. BooksInv /\ BooksInv'
  BY NextBooks DEF RateInv
<1>2. SUFFICES FreeListSound'
  BY <1>1 DEF RateInv
<1>3. CASE UNCHANGED vars
  BY <1>1, <1>3, FreeIdleStep DEF vars, clientVars, rateVars
<1>4. ASSUME NEW c \in Clients, NEW result \in {"ok", "err"}, Complete(c, result)
      PROVE  FreeListSound'
  <2>1. /\ multi[c] = "loading" /\ multi' = [multi EXCEPT ![c] = result]
        /\ free_clients' = free_clients /\ timers' = timers
    BY <1>4 DEF Complete, rateVars
  <2>2. multi \in [Clients -> Places]
    BY <1>1 DEF BooksInv, TypeOK
  <2>3. \A d \in Clients \ {c} : multi'[d] = multi[d]
    BY <2>1, <2>2
  <2>4. QED BY <1>1, <2>1, <2>3, FreeOtherStep
<1>5. CASE \/ RunTimePasses \/ SchedEnd \/ RateEnd \/ Test \/ Exit \/ BeginDrain
           \/ EndDrain \/ NoKey \/ DispatchEnd \/ handle_req_rate_timer
           \/ handle_gradual_increase_clients_num_timer
           \/ \E expired \in SUBSET timers : DispatchBegin(expired)
           \/ \E key \in Keys : KeyPressed(key)
  <2>1. /\ multi' = multi /\ free_clients' = free_clients
        /\ timers' \subseteq timers \cup PeriodicTimers
    BY <1>5 DEF RunTimePasses, SchedEnd, RateEnd, Test, Exit, BeginDrain, EndDrain,
                NoKey, DispatchEnd, handle_req_rate_timer, DispatchBegin, KeyPressed,
                handle_gradual_increase_clients_num_timer, clientVars, rateVars,
                PeriodicTimers
  <2>2. QED BY <1>1, <2>1, FreeIdleStep
<1>6. CASE RateClient
  BY <1>1, <1>6, FreeClientStep
<1>7. ASSUME NEW c \in Clients, DrainDone(c) PROVE FreeListSound'
  BY <1>1, <1>7, FreeDrainStep
<1>8. ASSUME NEW c \in Clients, handle_cctx_sleeping_timer(c) PROVE FreeListSound'
  <2>1. Booked(c) /\ sleeping(c) \in timers
    BY <1>1, <1>8, RateSleepingBooked
  <2>2. free_clients' = free_clients
    BY <1>8 DEF handle_cctx_sleeping_timer, rateVars
  <2>3. QED BY <1>1, <2>1, <2>2, FreeOtherStep DEF Booked
<1>9. QED
  BY <1>1, <1>3, <1>4, <1>5, <1>6, <1>7, <1>8, NoRateSchedClient, NoCompletions
  DEF Next, Thread

\* With a fixed request rate, and no url with a completion timeout, the
\* invariant of such a load holds.
THEOREM RateInvariant ==
  ASSUME FixedRate, NoTimeouts
  PROVE  Spec => []RateInv
<1>1. Init => RateInv
  BY InitBooks, InitFree DEF RateInv
<1>2. RateInv /\ [Next]_vars => RateInv'
  BY NextRate
<1>3. QED BY <1>1, <1>2, PTL DEF Spec

\* A free client is on the free list once, and has neither a transfer under way
\* nor a timer.
THEOREM FreeListStaysSound ==
  ASSUME FixedRate, NoTimeouts
  PROVE  Spec => []FreeListSound
<1>1. RateInv => FreeListSound
  BY DEF RateInv
<1>2. QED BY <1>1, RateInvariant, PTL

\* put_free_client finds room on the list for every client whose message is
\* read.
THEOREM FreeListHasRoom ==
  ASSUME FixedRate, NoTimeouts
  PROVE  Spec => []RoomOnFreeList
<1>1. RateInv => RoomOnFreeList
  BY RoomForTheDone DEF RoomOnFreeList
<1>2. QED BY <1>1, RateInvariant, PTL

(***************************************************************************)
(* How the rate is spread over a second.                                   *)
(***************************************************************************)

\* The requests of the first k invocations of a second, and of the first k of
\* two seconds.
SharesUpTo(k) ==
  k * (req_rate \div InvsPerSec)
    + IF k < req_rate % InvsPerSec THEN k ELSE req_rate % InvsPerSec
SharesOfTwo(k) == IF k <= InvsPerSec THEN SharesUpTo(k)
                  ELSE req_rate + SharesUpTo(k - InvsPerSec)

\* Quotient and remainder.
LEMMA RateDivided ==
  /\ req_rate \div InvsPerSec \in Nat
  /\ req_rate % InvsPerSec \in 0 .. InvsPerSec - 1
  /\ InvsPerSec * (req_rate \div InvsPerSec) + (req_rate % InvsPerSec) = req_rate
  /\ InvsPerSec \in Nat \ {0} /\ req_rate \in Nat
<1>1. /\ req_rate \in Nat /\ InvsPerSec \in Nat \ {0}
  BY BatchAssumption
<1>2. req_rate \div InvsPerSec \in Nat
  BY <1>1
<1>3. req_rate % InvsPerSec \in 0 .. InvsPerSec - 1
  BY <1>1
<1>4. InvsPerSec * (req_rate \div InvsPerSec) + (req_rate % InvsPerSec) = req_rate
  BY <1>1
<1>5. QED BY <1>1, <1>2, <1>3, <1>4

\* One invocation more.
LEMMA ShareAdded ==
  ASSUME NEW k \in 0 .. InvsPerSec - 1
  PROVE  SharesUpTo(k) \in Nat /\ SharesUpTo(k + 1) = SharesUpTo(k) + RateShare(k)
<1> DEFINE q == req_rate \div InvsPerSec
           r == req_rate % InvsPerSec
<1>1. q \in Nat /\ r \in Nat /\ k \in Nat
  BY RateDivided
<1>2. /\ SharesUpTo(k) = k * q + IF k < r THEN k ELSE r
      /\ SharesUpTo(k + 1) = (k + 1) * q + IF k + 1 < r THEN k + 1 ELSE r
      /\ RateShare(k) = q + IF r > k THEN 1 ELSE 0
  BY DEF SharesUpTo, RateShare
<1> HIDE DEF q, r
<1>3. (k + 1) * q = k * q + q /\ k * q \in Nat
  BY <1>1
<1>4. QED BY <1>1, <1>2, <1>3

\* A second has the whole rate.
LEMMA SharesOfOne == SharesUpTo(0) = 0 /\ SharesUpTo(InvsPerSec) = req_rate
<1> DEFINE q == req_rate \div InvsPerSec
           r == req_rate % InvsPerSec
<1>1. q \in Nat /\ r \in 0 .. InvsPerSec - 1 /\ InvsPerSec * q + r = req_rate
      /\ InvsPerSec \in Nat
  BY RateDivided
<1>2. /\ SharesUpTo(0) = 0 * q + IF 0 < r THEN 0 ELSE r
      /\ SharesUpTo(InvsPerSec) = InvsPerSec * q + IF InvsPerSec < r THEN InvsPerSec ELSE r
  BY DEF SharesUpTo
<1> HIDE DEF q, r
<1>3. 0 * q = 0 /\ ~(InvsPerSec < r) /\ InvsPerSec * q \in Nat
  BY <1>1
<1>4. QED BY <1>1, <1>2, <1>3

\* So it goes through two of them.
LEMMA ShareOfTwoAdded ==
  ASSUME NEW k \in 0 .. 2 * InvsPerSec - 1
  PROVE  /\ SharesOfTwo(k) \in Nat
         /\ SharesOfTwo(k + 1) = SharesOfTwo(k) + RateShare(k % InvsPerSec)
<1>1. InvsPerSec \in Nat \ {0} /\ req_rate \in Nat /\ k \in Nat
  BY RateDivided
<1>2. CASE k < InvsPerSec
  <2>1. k % InvsPerSec = k /\ k \in 0 .. InvsPerSec - 1
    BY <1>1, <1>2
  <2>2. QED BY <1>1, <1>2, <2>1, ShareAdded DEF SharesOfTwo
<1>3. CASE ~(k < InvsPerSec)
  <2>1. k - InvsPerSec \in 0 .. InvsPerSec - 1
    BY <1>1, <1>3
  <2>2. k % InvsPerSec = k - InvsPerSec
    BY <1>1, <1>3, <2>1
  <2>3. /\ SharesUpTo(k - InvsPerSec) \in Nat
        /\ SharesUpTo((k - InvsPerSec) + 1) =
             SharesUpTo(k - InvsPerSec) + RateShare(k - InvsPerSec)
    BY <2>1, ShareAdded
  <2>4. SharesOfTwo(k) = req_rate + SharesUpTo(k - InvsPerSec)
    <3>1. CASE k = InvsPerSec
      <4>1. k - InvsPerSec = 0 /\ k <= InvsPerSec
        BY <1>1, <3>1
      <4>2. SharesOfTwo(k) = SharesUpTo(InvsPerSec)
        BY <3>1, <4>1 DEF SharesOfTwo
      <4>3. QED BY <1>1, <4>1, <4>2, SharesOfOne
    <3>2. CASE k # InvsPerSec
      BY <1>1, <1>3, <3>2 DEF SharesOfTwo
    <3>3. QED BY <3>1, <3>2
  <2>5. SharesOfTwo(k + 1) = req_rate + SharesUpTo((k - InvsPerSec) + 1)
    <3>1. ~(k + 1 <= InvsPerSec) /\ (k + 1) - InvsPerSec = (k - InvsPerSec) + 1
      BY <1>1, <1>3
    <3>2. QED BY <3>1, Zenon DEF SharesOfTwo
  <2>6. RateShare(k - InvsPerSec) \in Int
    <3>1. QED BY RateDivided, <1>1, <2>1 DEF RateShare
  <2>7. QED BY <1>1, <2>2, <2>3, <2>4, <2>5, <2>6
<1>4. QED BY <1>2, <1>3

\* handle_req_rate_timer: an invocation makes the share of invocation modulo
\* InvsPerSec and moves on to the next one, so that the i-th after one with the
\* share of s makes that of s + i, modulo InvsPerSec.  Any InvsPerSec
\* invocations in a row, wherever they begin, share exactly the requests of a
\* second.
THEOREM RateSharedExactly ==
  ASSUME NEW s \in 0 .. InvsPerSec - 1, NEW f,
         ArePartialSums(f, [i \in 0 .. InvsPerSec - 1 |-> RateShare((s + i) % InvsPerSec)],
                        InvsPerSec - 1)
  PROVE  f[InvsPerSec - 1] = req_rate
<1> DEFINE n == InvsPerSec - 1
           g == [i \in 0 .. n |-> RateShare((s + i) % InvsPerSec)]
           S == {m \in Nat : m <= n => f[m] = SharesOfTwo(s + m + 1) - SharesOfTwo(s)}
<1>1. InvsPerSec \in Nat \ {0} /\ req_rate \in Nat /\ n \in Nat /\ s \in 0 .. n
  BY RateDivided
<1>2. \A k \in 0 .. n : f[k] = IF k = 0 THEN g[0] ELSE f[k - 1] + g[k]
  BY DEF ArePartialSums
<1>3. \A k \in 0 .. n : /\ g[k] = RateShare((s + k) % InvsPerSec)
                        /\ SharesOfTwo(s + k) \in Nat
                        /\ SharesOfTwo(s + k + 1) = SharesOfTwo(s + k) + g[k]
                        /\ g[k] \in Int
  <2> SUFFICES ASSUME NEW k \in 0 .. n
               PROVE  /\ g[k] = RateShare((s + k) % InvsPerSec)
                      /\ SharesOfTwo(s + k) \in Nat
                      /\ SharesOfTwo(s + k + 1) = SharesOfTwo(s + k) + g[k]
                      /\ g[k] \in Int
    BY Zenon
  <2>1. g[k] = RateShare((s + k) % InvsPerSec)
    OBVIOUS
  <2>2. s + k \in 0 .. 2 * InvsPerSec - 1 /\ (s + k) % InvsPerSec \in Int
    BY <1>1
  <2>3. RateShare((s + k) % InvsPerSec) \in Int
    BY RateDivided DEF RateShare
  <2>4. QED BY <2>1, <2>2, <2>3, ShareOfTwoAdded
<1> HIDE DEF n, g
<1>4. 0 \in S
  <2>1. f[0] = g[0] /\ s + 0 = s /\ 0 \in 0 .. n
    BY <1>1, <1>2
  <2>2. /\ SharesOfTwo(s) \in Nat /\ g[0] \in Int
        /\ SharesOfTwo(s + 0 + 1) = SharesOfTwo(s) + g[0]
    BY <1>3, <2>1
  <2>3. QED BY <2>1, <2>2
<1>5. ASSUME NEW m \in S PROVE m + 1 \in S
  <2>1. m \in Nat /\ (m <= n => f[m] = SharesOfTwo(s + m + 1) - SharesOfTwo(s))
    BY <1>5, Zenon
  <2>2. ASSUME m + 1 <= n
        PROVE  f[m + 1] = SharesOfTwo(s + (m + 1) + 1) - SharesOfTwo(s)
    <3>1. /\ m + 1 \in 0 .. n /\ m \in 0 .. n /\ (m + 1) - 1 = m /\ m + 1 # 0
          /\ s + m + 1 = s + (m + 1) /\ 0 \in 0 .. n /\ s + 0 = s
      BY <1>1, <2>1, <2>2
    <3>2. f[m + 1] = f[m] + g[m + 1]
      BY <1>2, <3>1
    <3>3. SharesOfTwo(s) \in Nat
      BY <1>3, <3>1
    <3>4. /\ SharesOfTwo(s + (m + 1)) \in Nat /\ g[m + 1] \in Int
          /\ SharesOfTwo(s + (m + 1) + 1) = SharesOfTwo(s + (m + 1)) + g[m + 1]
      BY <1>3, <3>1
    <3>5. f[m] = SharesOfTwo(s + (m + 1)) - SharesOfTwo(s)
      BY <1>1, <2>1, <2>2, <3>1
    <3>6. QED BY <3>2, <3>3, <3>4, <3>5
  <2>3. m + 1 \in Nat
    BY <2>1
  <2>4. QED BY <2>2, <2>3
<1>6. S = Nat
  <2> HIDE DEF S
  <2>1. S \in SUBSET Nat
    BY DEF S
  <2>2. QED BY <1>4, <1>5, <2>1, NatsBySteps
<1>7. f[n] = SharesOfTwo(s + n + 1) - SharesOfTwo(s)
  <2>1. n \in S
    BY <1>1, <1>6
  <2>2. QED BY <1>1, <2>1
<1>8. s + n + 1 = s + InvsPerSec /\ s + InvsPerSec - InvsPerSec = s
  BY <1>1 DEF n
<1>9. SharesOfTwo(s + InvsPerSec) = req_rate + SharesOfTwo(s)
  <2>1. SharesOfTwo(s) = SharesUpTo(s)
    BY <1>1 DEF SharesOfTwo, n
  <2>2. CASE s = 0
    BY <1>1, <2>1, <2>2, SharesOfOne DEF SharesOfTwo
  <2>3. CASE s # 0
    BY <1>1, <1>8, <2>1, <2>3 DEF SharesOfTwo, n
  <2>4. QED BY <2>2, <2>3
<1>10. SharesOfTwo(s) \in Nat
  <2>1. 0 \in 0 .. n /\ s + 0 = s
    BY <1>1
  <2>2. QED BY <1>3, <2>1
<1>11. QED BY <1>1, <1>7, <1>8, <1>9, <1>10 DEF n
=============================================================================
