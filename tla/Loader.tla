------------------------------- MODULE Loader -------------------------------
(***************************************************************************)
(* The loading of one batch: loader_fsm.c, with the event loops of         *)
(* loader_smooth.c and loader_hyper.c around it and the keys of screen.c.  *)
(*                                                                         *)
(* One thread does everything: it tests whether the batch is over, lets    *)
(* libcurl work, drains the DONE messages of the multi handle, dispatches  *)
(* the expired timers, and starts again.  Loops over clients take one step *)
(* per client (sched); nothing else runs in between.                       *)
(*                                                                         *)
(* Time is abstract.  A call of dispatch_expired_timers is given the time  *)
(* once and every timer armed by a handler expires later than that, so the *)
(* call handles the timers of a set (due) fixed when it begins; which set  *)
(* is a choice, and so is the order within it.  The timer queue itself is  *)
(* the set TimerService shows it to be.  The logfile timer changes nothing *)
(* modelled here, nor does FRESH_CONNECT, which only delays setup_url.  A   *)
(* failed select, which skips one call of mperform, and failures of memory *)
(* allocation and of tq_schedule_timer are left out.                       *)
(***************************************************************************)
EXTENDS Integers, Sequences, FiniteSets

CONSTANTS
  client_num_max,      \* CLIENTS_NUM_MAX
  client_num_start,    \* CLIENTS_NUM_START, 0 if absent
  clients_rampup_inc,  \* CLIENTS_RAMPUP_INC, 0 if absent
  req_rate,            \* REQ_RATE, 0 if absent
  InvsPerSec,          \* req_rate_timer_invs_per_sec
  cycles_num,          \* CYCLES_NUM
  urls_num,            \* URLS_NUM
  DontCycle,           \* urls with URL_DONT_CYCLE
  Probable,            \* urls with FETCH_PROBABILITY
  Sleeps,              \* Sleeps[u]: whether the sleep after u may be nonzero
  Timeouts,            \* Timeouts[u]: the same of its completion timeout
  ErrorRecovery,       \* error_recovery_client
  RunTime,             \* whether there is a RUN_TIME
  SelectRounds,        \* select calls in mget_url_smooth; 0 in hyper mode
  Keys,                \* the keys the user may press: "m", "a", "+", "*"
  MaxKeys,             \* bound of the keys pressed
  MaxFailures          \* bound of the failures of setup_url

Clients == 0 .. client_num_max - 1
Urls == 0 .. urls_num - 1

ASSUME BatchAssumption ==
  /\ client_num_max \in Nat \ {0}
  /\ client_num_start \in 0 .. client_num_max
  /\ clients_rampup_inc \in Nat
  /\ req_rate \in 0 .. client_num_max
  /\ InvsPerSec \in Nat \ {0}
  /\ cycles_num \in Nat \ {0}
ASSUME UrlsAssumption ==
  /\ urls_num \in Nat \ {0}
  /\ DontCycle \subseteq Urls
  /\ Probable \subseteq Urls
  /\ Sleeps \in [Urls -> (SUBSET BOOLEAN) \ {{}}]
  /\ Timeouts \in [Urls -> (SUBSET BOOLEAN) \ {{}}]
ASSUME ModeAssumption ==
  /\ ErrorRecovery \in BOOLEAN
  /\ RunTime \in BOOLEAN
  /\ SelectRounds \in Nat
  /\ Keys \subseteq {"m", "a", "+", "*"}
  /\ MaxKeys \in Nat /\ MaxFailures \in Nat

VARIABLES
  client_state,               \* per client: INIT, URLS, ERROR, FINISHED_OK
  url_curr_index,             \* per client
  cycle_num,                  \* per client
  handle,                     \* per client: it has an easy handle
  multi,                      \* per client: its place in the multi handle
  tid_url_completion,         \* per client: the id is not -1
  timers,                     \* the timers in the waiting queue
  active_clients_count,
  sleeping_clients_count,
  clients_current_sched_num,
  do_gradual,                 \* do_client_num_gradual_increase
  stop_gradual,               \* stop_client_num_gradual_increase
  cycling_completed,
  requests_completed,
  free_clients,               \* the list of free clients, a stack
  invocation,                 \* req_rate_timer_invocation
  phase,                      \* where the loop is
  rounds,                     \* calls of mperform since the last test
  due,                        \* timers the dispatch in progress still handles
  sched,                      \* the loop over clients in progress
  run_over,                   \* RUN_TIME has passed
  keys,                       \* keys pressed so far
  failures                    \* failures of setup_url so far

clientVars == <<client_state, url_curr_index, cycle_num, handle, multi,
                tid_url_completion>>
batchVars == <<active_clients_count, sleeping_clients_count,
               cycling_completed, requests_completed>>
rampVars == <<clients_current_sched_num, do_gradual, stop_gradual>>
rateVars == <<free_clients, invocation>>
loopVars == <<phase, rounds, sched>>
boundVars == <<run_over, keys, failures>>
stepVars == <<clientVars, batchVars, timers, due, failures>>
vars == <<clientVars, batchVars, rampVars, rateVars, loopVars, boundVars,
          timers, due>>

States == {"INIT", "URLS", "ERROR", "FINISHED_OK"}
\* "out": not in the multi handle; "loading": a transfer is under way; "ok",
\* "err": a DONE message waits to be read; "read": it has been.
Places == {"out", "loading", "ok", "err", "read"}
InMulti(c) == multi[c] # "out"

sleeping(c) == <<"sleeping", c>>
completion(c) == <<"completion", c>>
ClientTimers == {"sleeping", "completion"} \X Clients
inc    == <<"inc", -1>>      \* clients_num_inc_timer_node
rate   == <<"rate", -1>>     \* req_rate_timer_node
screen == <<"screen", -1>>   \* screen_input_timer_node
PeriodicTimers == {inc, rate, screen}

NoLoop == [by |-> "none", next |-> 0, last |-> 0]
Idle == sched.by = "none"

Least(a, b) == IF a < b THEN a ELSE b
Most(a, b) == IF a < b THEN b ELSE a
-----------------------------------------------------------------------------
(***************************************************************************)
(* Which url is next.                                                      *)
(***************************************************************************)

Cycling == Urls \ DontCycle
first_cycling_url == IF Cycling = {} THEN -1
                     ELSE CHOOSE u \in Cycling : \A v \in Cycling : u <= v
last_cycling_url == IF Cycling = {} THEN -1
                    ELSE CHOOSE u \in Cycling : \A v \in Cycling : v <= u

\* A walk: where a client is in its urls, and whether the batch has cycled
\* enough.  over: there is nothing more to fetch.
OneUrlOnNever(w) == [w EXCEPT !.over = TRUE]    \* mutant: no second area
OneUrlOn(w) == IF w.url = urls_num - 1 THEN [w EXCEPT !.over = TRUE]
               ELSE [w EXCEPT !.url = @ + 1]

pick_up_next_url(w) ==
  LET cycled == [w EXCEPT !.cycle = @ + 1]
  IN  CASE w.completed -> OneUrlOn(w)
        [] ~w.completed /\ w.url < last_cycling_url -> [w EXCEPT !.url = @ + 1]
        [] ~w.completed /\ w.url = last_cycling_url ->
             IF cycled.cycle = cycles_num
             THEN OneUrlOn([cycled EXCEPT !.completed = TRUE])
             ELSE [cycled EXCEPT !.url = first_cycling_url]
        [] OTHER -> [w EXCEPT !.over = TRUE]

\* A walk whose url has a probability may skip it, every url may be fetched.
WithSkip(walks) ==
  walks \cup {pick_up_next_url(x) :
               x \in {y \in walks : ~y.over /\ y.url \in Probable}}

\* Where the loop around pick_up_next_url may end, at most two urls in a row
\* being skipped.
NextWalks(w) == WithSkip(WithSkip({pick_up_next_url(w)}))
-----------------------------------------------------------------------------
(***************************************************************************)
(* The states of a client.                                                 *)
(***************************************************************************)

\* What a load_<state>_state function makes of a client: its walk, its new
\* state, the state returned, and whether it has to sleep first.
Outcome(w, state, returned, wait, failed) ==
  [walk |-> w, state |-> state, returned |-> returned, wait |-> wait,
   failed |-> failed]

\* load_urls_state for a client that is not in CSTATE_URLS: the first url.
\* A failed setup_url leaves the state alone and returns -1, CSTATE_ERROR.
FirstUrl(w, state) ==
  LET start == [w EXCEPT !.url = 0]
      fails == Outcome(start, state, "ERROR", FALSE, TRUE)
  IN  {Outcome(start, "URLS", "URLS", FALSE, FALSE)} \cup
      (IF failures < MaxFailures THEN {fails} ELSE {})

\* load_urls_state for a client in CSTATE_URLS.  What setup_url returns is
\* not looked at; what comes of a handle that it left reset is not followed
\* here (see Urls).
WalkedTo(x, wait) ==
  IF x.over THEN Outcome(x, "FINISHED_OK", "FINISHED_OK", FALSE, FALSE)
            ELSE Outcome(x, "URLS", "URLS", wait, FALSE)
NextUrl(w) == {WalkedTo(x, wait) : x \in NextWalks(w), wait \in Sleeps[w.url]}

CyclesOverLate(cycle) == cycle > cycles_num     \* mutant: > for >=
CyclesOverEarly(cycle) == cycle + 1 >= cycles_num  \* mutant: off by one
CyclesOver(cycle) == cycle >= cycles_num

load_error_state(w) ==
  LET advanced == [w EXCEPT !.cycle = @ + 1]
  IN  IF ~ErrorRecovery THEN {Outcome(w, "ERROR", "ERROR", FALSE, FALSE)}
      ELSE IF CyclesOver(advanced.cycle)
           THEN {Outcome(advanced, "ERROR", "ERROR", FALSE, FALSE)}
           ELSE FirstUrl(advanced, "ERROR")

\* load_state_func_table.
Outcomes(w, state) ==
  CASE state = "INIT"  -> FirstUrl(w, "INIT")
    [] state = "URLS"  -> NextUrl(w)
    [] state = "ERROR" -> load_error_state(w)
    [] OTHER -> {Outcome(w, "FINISHED_OK", "FINISHED_OK", FALSE, FALSE)}
-----------------------------------------------------------------------------
(***************************************************************************)
(* load_next_step and what it is made of.                                  *)
(***************************************************************************)

TimeoutBefore(c, u) == Timeouts[url_curr_index[c]]  \* mutant: the last url's
NoTimeout(c, u) == {FALSE}                      \* mutant: never armed
\* Whether a completion timer may be, or is sure to be, armed for the url.
TimeoutOf(c, u) == Timeouts[u]

\* client_add_to_load, the client being outside the multi handle or not, with
\* the queue and the count of active clients it starts from.  libcurl refuses
\* a null handle and one that has been added already.
client_add_to_load(c, u, outside, queue, active, ok) ==
  /\ ok = (outside /\ handle[c])
  /\ multi' = [multi EXCEPT ![c] = IF ok THEN "loading"
                                   ELSE IF outside THEN "out" ELSE @]
  /\ active_clients_count' = IF ok THEN active + 1 ELSE active
  /\ \E armed \in IF ok THEN TimeoutOf(c, u) ELSE {FALSE} :
       /\ timers' = IF armed THEN queue \cup {completion(c)} ELSE queue
       /\ tid_url_completion' = [tid_url_completion EXCEPT ![c] = armed]

\* The client leaves the load for good: its handle is cleaned up and, after an
\* error, made anew.
Retire(c, queue, active, renewed) ==
  /\ multi' = [multi EXCEPT ![c] = "out"]
  /\ handle' = [handle EXCEPT ![c] = renewed]
  /\ active_clients_count' = active
  /\ timers' = queue
  /\ tid_url_completion' = [tid_url_completion EXCEPT ![c] = FALSE]
  /\ UNCHANGED sleeping_clients_count

\* The client sleeps before its next url.
Sleep(c, queue, active) ==
  /\ multi' = [multi EXCEPT ![c] = "out"]
  /\ active_clients_count' = active
  /\ sleeping_clients_count' = sleeping_clients_count + 1
  /\ timers' = queue \cup {sleeping(c)}
  /\ tid_url_completion' = [tid_url_completion EXCEPT ![c] = FALSE]
  /\ UNCHANGED handle

MoveTo(c, o) ==
  /\ url_curr_index' = [url_curr_index EXCEPT ![c] = o.walk.url]
  /\ cycle_num' = [cycle_num EXCEPT ![c] = o.walk.cycle]
  /\ cycling_completed' = o.walk.completed
  /\ client_state' = [client_state EXCEPT ![c] = o.state]
  /\ failures' = IF o.failed THEN failures + 1 ELSE failures

walkVars == <<url_curr_index, cycle_num, cycling_completed, failures>>

QueueWith(c, armed) == timers                   \* mutant: not cancelled
\* The completion timer is cancelled by its id.
QueueWithout(c, armed) == IF armed THEN timers \ {completion(c)} ELSE timers

ActiveWithoutInit(c, state) ==                  \* mutant: not for INIT only
  Most(active_clients_count - 1, 0)

ActiveWithout(c, state) ==
  IF state = "INIT" THEN active_clients_count ELSE Most(active_clients_count - 1, 0)

\* load_next_step for a client in this state whose completion timer is armed
\* or not; ok is false if it returns -1, which CSTATE_ERROR is too.  The clock
\* it compares with RUN_TIME may have been read earlier.
load_next_step(c, state, armed, ok) ==
  LET queue  == QueueWithout(c, armed)
      active == ActiveWithout(c, state)
      here   == [url |-> url_curr_index[c], cycle |-> cycle_num[c],
                 completed |-> cycling_completed, over |-> FALSE]
  IN  \/ /\ state # "INIT" /\ ~(InMulti(c) /\ handle[c])
         /\ ~ok
         /\ timers' = queue
         /\ tid_url_completion' = [tid_url_completion EXCEPT ![c] = FALSE]
         /\ client_state' = [client_state EXCEPT ![c] = state]
         /\ UNCHANGED <<walkVars, handle, multi, active_clients_count,
                        sleeping_clients_count, requests_completed>>
      \/ /\ state # "INIT" => InMulti(c) /\ handle[c]
         /\ run_over
         /\ ok
         /\ Retire(c, queue, active, FALSE)
         /\ requests_completed' = TRUE
         /\ client_state' = [client_state EXCEPT ![c] = state]
         /\ UNCHANGED walkVars
      \/ /\ state # "INIT" => InMulti(c) /\ handle[c]
         /\ \E o \in Outcomes(here, state) :
              /\ MoveTo(c, o)
              /\ \/ /\ o.returned = "URLS" /\ ~o.wait
                    /\ client_add_to_load(c, o.walk.url, TRUE, queue, active, ok)
                    /\ UNCHANGED <<handle, sleeping_clients_count>>
                 \/ /\ o.returned = "URLS" /\ o.wait
                    /\ ok
                    /\ Sleep(c, queue, active)
                 \/ /\ o.returned = "ERROR"
                    /\ ~ok
                    /\ Retire(c, queue, active, TRUE)
                 \/ /\ o.returned = "FINISHED_OK"
                    /\ ok
                    /\ Retire(c, queue, active, FALSE)
         /\ UNCHANGED requests_completed

\* put_free_client: it fails when the list is full.
CanPutFree == Len(free_clients) < client_num_max
put_free_client(c) ==
  free_clients' = IF CanPutFree THEN Append(free_clients, c) ELSE free_clients
-----------------------------------------------------------------------------
(***************************************************************************)
(* The loop over the clients to schedule.                                  *)
(***************************************************************************)

SchedFromNext(by, n) ==                         \* mutant: off by one
  [by |-> by, last |-> clients_current_sched_num + n,
   next |-> clients_current_sched_num + 1]

\* With a fixed request rate clients are counted in, and scheduled later.
SchedFrom(by, n) ==
  LET last == clients_current_sched_num + n
  IN  [by |-> by, last |-> last,
       next |-> IF req_rate > 0 THEN last ELSE clients_current_sched_num]

\* What add_loading_clients adds.
clients_to_sched ==
  IF clients_current_sched_num = 0 /\ client_num_start > 0 THEN client_num_start
  ELSE IF clients_rampup_inc > 0
       THEN Least(clients_rampup_inc, client_num_max - clients_current_sched_num)
       ELSE client_num_max

Init ==
  /\ client_state = [c \in Clients |-> "INIT"]
  /\ url_curr_index = [c \in Clients |-> 0]
  /\ cycle_num = [c \in Clients |-> 0]
  /\ handle = [c \in Clients |-> TRUE]
  /\ multi = [c \in Clients |-> "out"]
  /\ tid_url_completion = [c \in Clients |-> FALSE]
  /\ timers = {screen}
  /\ active_clients_count = 0
  /\ sleeping_clients_count = 0
  /\ clients_current_sched_num = 0
  /\ do_gradual = FALSE
  /\ stop_gradual = FALSE
  /\ cycling_completed = (Cycling = {})
  /\ requests_completed = FALSE
  /\ free_clients = IF req_rate > 0 THEN [i \in 1 .. client_num_max |-> client_num_max - i]
                                    ELSE <<>>
  /\ invocation = 0
  /\ phase = "init"
  /\ rounds = 0
  /\ due = {}
  /\ sched = SchedFrom("init", clients_to_sched)
  /\ run_over = FALSE
  /\ keys = 0
  /\ failures = 0

\* orderly_sched_clients: one client.  If load_next_step fails the loop ends
\* and clients_current_sched_num is not advanced; the caller fails too: the
\* batch at its start, the increase timer (which is not queued again), a key
\* without further effect.
SchedClient ==
  /\ sched.by \in {"init", "inc", "key"}
  /\ sched.next < sched.last
  /\ \E ok \in BOOLEAN :
       /\ load_next_step(sched.next, client_state[sched.next],
                         tid_url_completion[sched.next], ok)
       /\ sched' = IF ok THEN [sched EXCEPT !.next = @ + 1] ELSE NoLoop
       /\ phase' = IF ~ok /\ sched.by = "init" THEN "failed" ELSE phase
       /\ due' = IF ~ok /\ sched.by = "inc" THEN {}
                 ELSE due \ {completion(sched.next)}
  /\ UNCHANGED <<rampVars, rateVars, rounds, run_over, keys>>

\* Whether the ramp-up goes on after add_loading_clients.
Gradual == do_gradual \/ /\ sched.by # "key"
                         /\ clients_rampup_inc > 0
                         /\ sched.last < client_num_max

\* The end of add_loading_clients and add_loading_clients_num, and after the
\* first one the end of init_timers_and_add_initial_clients_to_load.
SchedEnd ==
  /\ sched.by \in {"init", "inc", "key"}
  /\ sched.next = sched.last
  /\ clients_current_sched_num' = sched.last
  /\ do_gradual' = Gradual
  /\ sched' = NoLoop
  /\ phase' = IF sched.by = "init" THEN "test" ELSE phase
  /\ timers' = timers
       \cup {t \in {inc} : sched.by = "inc" \/ (sched.by = "init" /\ Gradual)}
       \cup {t \in {rate} : sched.by = "init" /\ req_rate > 0}
  /\ UNCHANGED <<clientVars, batchVars, stop_gradual, rateVars, boundVars,
                 rounds, due>>

FreeLeftAll == free_clients                     \* mutant: not taken off
\* get_free_client: the last one of the list, and what is left of it.
LastFree == free_clients[Len(free_clients)]
FreeLeft == SubSeq(free_clients, 1, Len(free_clients) - 1)

\* req_rate_sched_clients: one client.  Without a free client it gives up;
\* what load_next_step returns is not looked at.
RateClient ==
  /\ sched.by = "rate"
  /\ sched.next < sched.last
  /\ IF free_clients = <<>>
     THEN /\ sched' = NoLoop
          /\ UNCHANGED <<clientVars, batchVars, timers, due, failures, free_clients>>
     ELSE LET c == LastFree
          IN  /\ free_clients' = FreeLeft
              /\ \E ok \in BOOLEAN :
                   load_next_step(c, client_state[c], tid_url_completion[c], ok)
              /\ sched' = [sched EXCEPT !.next = @ + 1]
              /\ due' = due \ {completion(c)}
  /\ UNCHANGED <<rampVars, invocation, phase, rounds, run_over, keys>>

RateEnd ==
  /\ sched.by = "rate"
  /\ sched.next = sched.last
  /\ sched' = NoLoop
  /\ UNCHANGED <<clientVars, batchVars, timers, due, rampVars, rateVars,
                 boundVars, phase, rounds>>
-----------------------------------------------------------------------------
(***************************************************************************)
(* The loop of the batch: user_activity_smooth and mget_url_smooth, or     *)
(* next_load_cb_hyper and mperform_hyper.                                  *)
(***************************************************************************)

pending_active_and_waiting_clients_num ==
  IF req_rate > 0 /\ (cycling_completed \/ requests_completed) THEN 0
  ELSE LET total == active_clients_count + sleeping_clients_count
       IN  IF total # 0 THEN total
           ELSE IF req_rate > 0 /\ clients_current_sched_num > 0 THEN 1 ELSE 0

LoadEndsEarly ==                                \* mutant: ramp-up forgotten
  pending_active_and_waiting_clients_num = 0
LoadEnds == pending_active_and_waiting_clients_num = 0 /\ ~do_gradual

Test ==
  /\ phase = "test"
  /\ ~LoadEnds
  /\ phase' = "perform"
  /\ rounds' = 0
  /\ UNCHANGED <<clientVars, batchVars, rampVars, rateVars, boundVars, timers,
                 due, sched>>

\* The load has ended: the periodic timers are cancelled.
Exit ==
  /\ phase = "test"
  /\ LoadEnds
  /\ phase' = "exited"
  /\ timers' = timers \ PeriodicTimers
  /\ UNCHANGED <<clientVars, batchVars, rampVars, rateVars, boundVars, rounds,
                 due, sched>>

\* libcurl finishes a transfer, well or not.
Complete(c, result) ==
  /\ phase = "perform"
  /\ multi[c] = "loading"
  /\ multi' = [multi EXCEPT ![c] = result]
  /\ UNCHANGED <<client_state, url_curr_index, cycle_num, handle,
                 tid_url_completion, batchVars, rampVars, rateVars, loopVars,
                 boundVars, timers, due>>

\* RUN_TIME passes.
RunTimePasses ==
  /\ RunTime
  /\ phase = "perform"
  /\ ~run_over
  /\ run_over' = TRUE
  /\ UNCHANGED <<clientVars, batchVars, rampVars, rateVars, loopVars, keys,
                 failures, timers, due>>

BeginDrain ==
  /\ phase = "perform"
  /\ phase' = "drain"
  /\ UNCHANGED <<clientVars, batchVars, rampVars, rateVars, boundVars, rounds,
                 sched, timers, due>>

\* Where the loop goes from mperform: mget_url_smooth calls it once before its
\* select loop and ignores its failures; mperform_hyper fails before it gets
\* to the timers.
AfterDrain(failed) ==
  IF SelectRounds > 0 /\ rounds = 0
  THEN phase' = "perform" /\ rounds' = 1
  ELSE /\ phase' = IF failed /\ SelectRounds = 0 THEN "test" ELSE "dispatch"
       /\ UNCHANGED rounds

Done(c) == multi[c] \in {"ok", "err"}
StateDone(c) == IF multi[c] = "err" THEN "ERROR" ELSE client_state[c]

\* A DONE message: the next step is loaded at once, or with a fixed request
\* rate the client is put on the free list, still in the multi handle.
DrainDone(c) ==
  /\ phase = "drain"
  /\ Done(c)
  /\ IF req_rate > 0
     THEN /\ put_free_client(c)
          /\ multi' = [multi EXCEPT ![c] = "read"]
          /\ client_state' = [client_state EXCEPT ![c] = StateDone(c)]
          /\ IF CanPutFree THEN UNCHANGED <<phase, rounds>> ELSE AfterDrain(TRUE)
          /\ UNCHANGED <<url_curr_index, cycle_num, handle, tid_url_completion,
                         batchVars, timers, failures>>
     ELSE /\ \E ok \in BOOLEAN :
               load_next_step(c, StateDone(c), tid_url_completion[c], ok)
          /\ UNCHANGED <<free_clients, phase, rounds>>
  /\ UNCHANGED <<rampVars, invocation, sched, run_over, keys, due>>

EndDrain ==
  /\ phase = "drain"
  /\ \A c \in Clients : ~Done(c)
  /\ AfterDrain(FALSE)
  /\ UNCHANGED <<clientVars, batchVars, rampVars, rateVars, boundVars, sched,
                 timers, due>>
-----------------------------------------------------------------------------
(***************************************************************************)
(* dispatch_expired_timers and the handlers of the timers.                 *)
(***************************************************************************)

\* The timers that have expired at the time given to the call.
DispatchBegin(expired) ==
  /\ phase = "dispatch"
  /\ phase' = "handle"
  /\ due' = expired
  /\ UNCHANGED <<clientVars, batchVars, rampVars, rateVars, boundVars, rounds,
                 sched, timers>>

Expires(t) == phase = "handle" /\ Idle /\ t \in due

DueAgain(t, ok) == due                          \* mutant: not popped
\* A handler that returns -1 ends the call.
DueAfter(t, ok) == IF ok THEN due \ {t} ELSE {}

handle_cctx_sleeping_timer(c) ==
  /\ Expires(sleeping(c))
  /\ sleeping_clients_count' = sleeping_clients_count - 1
  /\ \E ok \in BOOLEAN :
       /\ client_add_to_load(c, url_curr_index[c], ~InMulti(c),
                             timers \ {sleeping(c)}, active_clients_count, ok)
       /\ due' = DueAfter(sleeping(c), ok)
  /\ UNCHANGED <<client_state, url_curr_index, cycle_num, handle, rampVars,
                 rateVars, loopVars, boundVars, cycling_completed,
                 requests_completed>>

\* The transfer has taken too long: an error of the client.
handle_cctx_url_completion_timer(c) ==
  /\ Expires(completion(c))
  /\ IF req_rate > 0
     THEN /\ put_free_client(c)
          /\ client_state' = [client_state EXCEPT ![c] = "ERROR"]
          /\ tid_url_completion' = [tid_url_completion EXCEPT ![c] = FALSE]
          /\ timers' = timers \ {completion(c)}
          /\ due' = DueAfter(completion(c), CanPutFree)
          /\ UNCHANGED <<url_curr_index, cycle_num, handle, multi, batchVars,
                         failures>>
     ELSE /\ \E ok \in BOOLEAN :
               /\ load_next_step(c, "ERROR", TRUE, ok)
               /\ due' = DueAfter(completion(c), ok)
          /\ UNCHANGED free_clients
  /\ UNCHANGED <<rampVars, invocation, loopVars, run_over, keys>>

GradualKept(over) == do_gradual                 \* mutant: never reset
GradualAfter(over) == do_gradual /\ ~over

\* add_loading_clients on the increase timer: held back by the key 'm', over
\* when every client has been scheduled, or the next clients.
handle_gradual_increase_clients_num_timer ==
  LET over == client_num_max <= clients_current_sched_num
  IN  /\ Expires(inc)
      /\ IF stop_gradual
         THEN /\ due' = due \ {inc}
              /\ UNCHANGED <<timers, do_gradual, sched>>
         ELSE /\ timers' = timers \ {inc}
              /\ due' = DueAfter(inc, ~over)
              /\ do_gradual' = GradualAfter(over)
              /\ sched' = IF over THEN NoLoop ELSE SchedFrom("inc", clients_to_sched)
      /\ UNCHANGED <<clientVars, batchVars, rateVars, boundVars, phase, rounds,
                     clients_current_sched_num, stop_gradual>>

InUse == client_num_max - Len(free_clients)

\* How many requests this invocation of the rate timer makes: the rate is
\* spread over a second, and bounded by the clients counted in so far.
RateShare(inv) ==
  req_rate \div InvsPerSec + IF req_rate % InvsPerSec > inv THEN 1 ELSE 0
RateToSchedAll == RateShare(invocation % InvsPerSec)  \* mutant: ramp-up ignored
RateToSched ==
  LET share == RateShare(invocation % InvsPerSec)
  IN  IF clients_current_sched_num < client_num_max
      THEN Least(share, Most(0, clients_current_sched_num - InUse)) ELSE share

handle_req_rate_timer ==
  /\ Expires(rate)
  /\ due' = due \ {rate}
  /\ invocation' = (invocation % InvsPerSec) + 1
  /\ sched' = [by |-> "rate", next |-> 0, last |-> RateToSched]
  /\ UNCHANGED <<clientVars, batchVars, rampVars, free_clients, boundVars,
                 phase, rounds, timers>>

KeyAdds(key) == IF key = "+" THEN 1 ELSE IF key = "*" THEN 10 ELSE 0

\* on_keybord_input, for a key that was pressed; add_loading_clients_num does
\* nothing when there are no more clients.
KeyPressed(key) ==
  /\ Expires(screen)
  /\ keys < MaxKeys
  /\ keys' = keys + 1
  /\ due' = due \ {screen}
  /\ stop_gradual' = (key = "m" \/ (stop_gradual /\ key # "a"))
  /\ sched' = IF KeyAdds(key) > 0 /\ clients_current_sched_num < client_num_max
              THEN SchedFrom("key", Least(KeyAdds(key),
                                          client_num_max - clients_current_sched_num))
              ELSE NoLoop
  /\ UNCHANGED <<clientVars, batchVars, rateVars, clients_current_sched_num,
                 do_gradual, phase, rounds, run_over, failures, timers>>

\* No key was pressed.
NoKey ==
  /\ Expires(screen)
  /\ due' = due \ {screen}
  /\ UNCHANGED <<clientVars, batchVars, rampVars, rateVars, loopVars,
                 boundVars, timers>>

\* The call ends, and with it a round of mget_url_smooth or a call of
\* next_load_cb_hyper.
DispatchEnd ==
  /\ phase = "handle"
  /\ Idle
  /\ due = {}
  /\ IF rounds < SelectRounds THEN phase' = "perform" /\ rounds' = rounds + 1
                              ELSE phase' = "test" /\ UNCHANGED rounds
  /\ UNCHANGED <<clientVars, batchVars, rampVars, rateVars, boundVars, sched,
                 timers, due>>

\* The steps of the thread of the batch.
Thread ==
  \/ SchedClient
  \/ SchedEnd
  \/ RateClient
  \/ RateEnd
  \/ Test
  \/ Exit
  \/ BeginDrain
  \/ \E c \in Clients : DrainDone(c)
  \/ EndDrain
  \/ \E expired \in SUBSET timers : DispatchBegin(expired)
  \/ \E c \in Clients : handle_cctx_sleeping_timer(c)
  \/ \E c \in Clients : handle_cctx_url_completion_timer(c)
  \/ handle_gradual_increase_clients_num_timer
  \/ handle_req_rate_timer
  \/ \E key \in Keys : KeyPressed(key)
  \/ NoKey
  \/ DispatchEnd

Next ==
  \/ Thread
  \/ \E c \in Clients, result \in {"ok", "err"} : Complete(c, result)
  \/ RunTimePasses

Spec == Init /\ [][Next]_vars

\* The thread never stops, and time passes: every timer in the queue is seen
\* expired sooner or later.  Nothing is assumed of the transfers.
Fairness ==
  /\ WF_vars(Thread)
  /\ \A t \in ClientTimers \cup {inc, rate} :
       SF_vars(\E expired \in SUBSET timers : t \in expired /\ DispatchBegin(expired))
FairSpec == Spec /\ Fairness
-----------------------------------------------------------------------------
(***************************************************************************)
(* Properties.                                                             *)
(***************************************************************************)

\* Every variable has its type.
TypeOK ==
  /\ client_state \in [Clients -> States]
  /\ url_curr_index \in [Clients -> Urls]
  /\ cycle_num \in [Clients -> Nat]
  /\ handle \in [Clients -> BOOLEAN]
  /\ multi \in [Clients -> Places]
  /\ tid_url_completion \in [Clients -> BOOLEAN]
  /\ timers \subseteq ClientTimers \cup PeriodicTimers
  /\ active_clients_count \in Nat
  /\ sleeping_clients_count \in Int
  /\ clients_current_sched_num \in 0 .. client_num_max
  /\ {do_gradual, stop_gradual, cycling_completed, requests_completed,
      run_over} \subseteq BOOLEAN
  /\ free_clients \in Seq(Clients)
  /\ invocation \in 0 .. InvsPerSec
  /\ phase \in {"init", "test", "perform", "drain", "dispatch", "handle",
                "exited", "failed"}
  /\ rounds \in 0 .. SelectRounds
  /\ due \subseteq timers
  /\ sched \in [by : {"none", "init", "inc", "key", "rate"}, next : Nat, last : Nat]
  /\ keys \in 0 .. MaxKeys
  /\ failures \in 0 .. MaxFailures

\* The two counters the end of the load is decided by are exact: as many
\* clients are active as there are handles in the multi handle, as many sleep
\* as there are sleeping timers.
CountsExact ==
  /\ active_clients_count = Cardinality({c \in Clients : InMulti(c)})
  /\ sleeping_clients_count = Cardinality({c \in Clients : sleeping(c) \in timers})

\* client.h: a client has "two not overlapping timers" which share one timer
\* node: a client asleep is out of the multi handle, a client with a completion
\* timer is in it, and knows the timer's id.
TimersExclusive ==
  \A c \in Clients :
    /\ sleeping(c) \in timers => ~InMulti(c)
    /\ completion(c) \in timers => InMulti(c)
    /\ tid_url_completion[c] <=> completion(c) \in timers

\* A transfer whose url must have a completion timeout is never left without
\* the timer that ends it.
TransfersGuarded ==
  \A c \in Clients :
    multi[c] = "loading" /\ Timeouts[url_curr_index[c]] = {TRUE} =>
      completion(c) \in timers

\* A client that has been scheduled is never forgotten by both libcurl and the
\* timer queue before it has come to a final state.
Kept(c) == InMulti(c) \/ sleeping(c) \in timers
Final(c) == client_state[c] \in {"FINISHED_OK", "ERROR"} \/ ~handle[c]
NoClientLost ==
  \A c \in 0 .. clients_current_sched_num - 1 : Kept(c) \/ Final(c)

\* When the loop ends, no transfer and no client timer is left behind, and a
\* ramp-up has scheduled every client.
QuiescentExit ==
  phase = "exited" =>
    /\ timers = {}
    /\ \A c \in Clients : ~InMulti(c)
    /\ clients_rampup_inc > 0 => clients_current_sched_num = client_num_max

\* A client works on a url of the cycle only while it has cycles left, whatever
\* errors it recovers from: load_error_state looks for the end of the cycles
\* by >=, pick_up_next_url by equality.
CyclesLeft ==
  \A c \in Clients :
    client_state[c] = "URLS" /\ url_curr_index[c] <= last_cycling_url =>
      cycle_num[c] < cycles_num

\* README, URL_DONT_CYCLE: the second non-cycling area is for a logoff.  It is
\* entered only when the cycling is over, and a client that finished went
\* through it to its end.
LogoffLast ==
  \A c \in Clients :
    /\ url_curr_index[c] > last_cycling_url => cycling_completed
    /\ client_state[c] = "FINISHED_OK" =>
         cycling_completed /\ url_curr_index[c] = urls_num - 1

\* load_next_step: an error state "recovers the client".  While it has cycles
\* left, no client is given up for an error of its transfers.
ErrorsRecovered ==
  phase = "exited" /\ ErrorRecovery /\ failures = 0 /\ ~run_over =>
    \A c \in Clients : client_state[c] = "ERROR" => cycle_num[c] >= cycles_num

\* The ramp-up is held: by the key m, or because a client that could not be set
\* up ended the increase timer.
RampHeld ==
  /\ do_gradual
  /\ \/ stop_gradual
     \/ inc \notin timers /\ failures > 0

\* The loop ends, if not the ramp-up is held for ever: every transfer is cut
\* off by its completion timer, every client comes to a final state, and the
\* ramp-up to its last client.
Terminates == <>(phase \in {"exited", "failed"}) \/ <>[]RampHeld

\* put_free_client, "should not happen": a free client is on the list once, and
\* has neither a transfer under way nor a timer.
FreeListSound ==
  /\ Len(free_clients) <= client_num_max
  /\ \A i, j \in DOMAIN free_clients :
       free_clients[i] = free_clients[j] => i = j
  /\ \A i \in DOMAIN free_clients :
       /\ multi[free_clients[i]] \in {"out", "read"}
       /\ {sleeping(free_clients[i]), completion(free_clients[i])} \cap timers = {}

\* put_free_client, "no room in free client client list", "should not happen":
\* there is room for every client whose message is being read.
RoomOnFreeList == phase = "drain" => \A c \in Clients : Done(c) => CanPutFree

\* req_rate_sched_clients: "respect gradual increase of clients": no more
\* clients are in use than the ramp-up has counted in.
RampRespected == req_rate > 0 => InUse <= clients_current_sched_num

\* README, CYCLES_NUM: the "number of cycles is to be performed by each
\* client": at the end every client that finished has done them all.
AllCyclesDone ==
  phase = "exited" /\ ~run_over /\ Cycling # {} =>
    \A c \in Clients : client_state[c] = "FINISHED_OK" => cycle_num[c] = cycles_num

(***************************************************************************)
(* The books of a load: an inductive invariant, whatever the load.         *)
(***************************************************************************)

\* A client in the multi handle or asleep has an easy handle and is past
\* CSTATE_INIT; only an error that waits to be recovered from keeps one in the
\* multi handle out of CSTATE_URLS.  A completion timer has a timeout.
PlacesKnown ==
  \A c \in Clients :
    /\ Kept(c) => handle[c]
    /\ sleeping(c) \in timers => client_state[c] = "URLS"
    /\ InMulti(c) => client_state[c] \in {"URLS", "ERROR"}
    /\ completion(c) \in timers => TRUE \in Timeouts[url_curr_index[c]]

\* A client before its first url has done no cycle; without a cycling url the
\* cycling is over.
WalksBegun ==
  /\ Cycling = {} => cycling_completed
  /\ \A c \in Clients : client_state[c] = "INIT" => cycle_num[c] = 0

\* Timers are due in a dispatch only.  The loops that count clients in stay
\* within the clients, and with a fixed rate have nothing to schedule; the
\* loop of the rate timer schedules no more than the clients counted in and not
\* in use.
SchedSound ==
  /\ phase # "handle" => due = {}
  /\ sched.by = "init" => phase = "init"
  /\ sched.by \in {"init", "inc", "key"} =>
       /\ req_rate > 0 => sched.next = sched.last
       /\ clients_current_sched_num <= sched.last
       /\ sched.last <= client_num_max
  /\ sched.by = "rate" =>
       \/ clients_current_sched_num = client_num_max
       \/ InUse + (sched.last - sched.next) <= clients_current_sched_num
  /\ do_gradual \/ inc \in timers \/ sched.by = "inc" => clients_rampup_inc > 0

BooksInv ==
  /\ TypeOK /\ CountsExact /\ TimersExclusive /\ PlacesKnown
  /\ CyclesLeft /\ LogoffLast /\ WalksBegun
  /\ RampRespected /\ SchedSound

(***************************************************************************)
(* What is more when there is no fixed request rate.                       *)
(***************************************************************************)
NoRate == req_rate = 0

\* A client in the multi handle or asleep is in CSTATE_URLS; no message is left
\* behind read.
PlacesSound ==
  \A c \in Clients :
    /\ multi[c] # "read"
    /\ Kept(c) => client_state[c] = "URLS"

\* Timers are due in a dispatch only; a loop over clients runs at the start or
\* in a dispatch, and stays within the clients.
LoopSound ==
  /\ phase # "handle" => due = {}
  /\ phase \notin {"init", "handle"} => Idle
  /\ phase = "init" <=> sched.by = "init"
  /\ sched.by # "rate"
  /\ ~Idle => /\ clients_current_sched_num <= sched.next
              /\ sched.next <= sched.last
              /\ sched.last <= client_num_max

\* The ramp-up goes on until every client has been scheduled.
RampSound ==
  /\ rate \notin timers
  /\ do_gradual \/ inc \in timers \/ sched.by = "inc" => clients_rampup_inc > 0
  /\ clients_rampup_inc > 0 /\ clients_current_sched_num # client_num_max =>
       phase \in {"init", "failed"} \/ do_gradual

\* A client in its final error state has no cycle left.
WalksSound ==
  ErrorRecovery /\ failures = 0 /\ ~run_over =>
    \A c \in Clients : client_state[c] = "ERROR" => cycle_num[c] >= cycles_num

\* The clients the loop in progress has passed are not lost either.
PassedKept ==
  ~Idle => \A c \in 0 .. sched.next - 1 : Kept(c) \/ Final(c)

LoadInv ==
  /\ TypeOK /\ CountsExact /\ TimersExclusive /\ PlacesKnown
  /\ CyclesLeft /\ LogoffLast /\ WalksBegun
  /\ TransfersGuarded /\ PlacesSound /\ WalksSound
  /\ LoopSound /\ RampSound /\ NoClientLost /\ PassedKept

(***************************************************************************)
(* What is more when there is one, unless a url may have a completion      *)
(* timeout: a client whose transfer has timed out is put on the free list  *)
(* while it may still be put there again.                                  *)
(***************************************************************************)
FixedRate == req_rate > 0
NoTimeouts == \A u \in Urls : Timeouts[u] = {FALSE}

RateInv == BooksInv /\ FreeListSound
=============================================================================
