# A TLA+ model of curl-loader

curl-loader simulates the load of thousands of HTTP/FTP clients. One *batch* is
a group of clients with the same list of urls; each client fetches the urls in
order, over and over, on its own libcurl easy handle, and all handles of a batch
run in one libcurl multi handle on one thread. This directory models that program:
the queue of timers and its memory pools, the state machine that moves every
client through its urls, what a url is completed from, the threads that a batch may
be divided over, and the statistics they keep. It is checked with TLC and, where
it matters most, proved with TLAPS. Paths below are relative to `src/curl-loader/`.

## 1. Inventory

| Component | State | Operations | Talks to |
|---|---|---|---|
| Timer waiting queue (`heap.c`, `timer_queue.c`) | binary heap of hnodes, id -> slot table, cursor of the last id and lowest freed id | schedule, cancel by id, dispatch the nearest; periodic timers are pushed again under the id they have | called by the state machine; calls the handlers, which schedule and cancel |
| Memory pools (`mpool.c`) | blocks, free list, number of objects | take, return, grow, free | hnodes of the queue |
| Loading state machine (`loader_fsm.c`) | per client: state, url, cycle, handle, timer ids; per batch: active and sleeping counts, cycling_completed, ramp-up flags, free list | `load_next_step`, the six timer handlers, schedulers for ramp-up and for a fixed rate | multi handle, queue, statistics |
| Event loops (`loader_smooth.c`, `loader_hyper.c`) | where the loop is | test, let libcurl work, drain DONE messages, dispatch timers, exit | all of the above |
| Screen keys (`screen.c`) | - | m, a, +, * | ramp-up flags and counts |
| Threads and sub-batches (`loader.c`, `batch.c`) | array of batch contexts | divide a batch over threads, start, join | statistics |
| Statistics (`statistics.c`) | delta and total counters per batch | add, reset, dump at intervals by the leader thread | counters of the other threads |
| Client bookkeeping (`client.c`, tracing in `loader.c`) | per request header counters | callbacks of libcurl | statistics |
| Configuration (`parse_conf.c`, `conf.c`) | the batch contexts | parse, validate, post-validate | initial state of all |
| Urls (`url.c`, part of `parse_conf.c`) | url sets, templates, response values | timeouts, set and template expansion, response scan | state machine |
| Addresses, environment, OpenSSL locks, allocation | - | system calls | - |

What is hard here:

* *Interleaving in one thread.* DONE messages, expired timers and key presses
  meet in any order within a round of the loop. A transfer that times out may
  also be done; a timer handler cancels and schedules other timers while its own
  is off the heap and keeps its id.
* *Two books for one fact.* Whether a client is active is known to the multi
  handle, to the completion timer, to `tid_url_completion`, to the state of the
  client and to a counter; the loop ends by the counters.
* *Failure half way.* A loop over clients that stops in the middle; a handler
  whose failure removes its timer and aborts the dispatch.
* *Ending.* The loop must end, and not before every client is done.
* *Nothing is locked.* The leader thread adds and resets the counters of the others
  while these count, and copies of url contexts share what they point to, which the
  first thread to end frees.
* *Text in pieces.* A response arrives in packets; a token, or its value, may be cut
  anywhere, and interrupted.

What makes each part correct: ids are unique, inside the table and never lost,
and the nearest timer comes first (queue); counters, timers and handles agree,
no scheduled client is forgotten, the cycles end, and the loop ends when, and
only when, all is quiet (state machine); the free list holds every free client
once (fixed rate); totals lose and repeat nothing (statistics); clients and
addresses are divided without loss (sub-batches); requests and responses are
counted once (client bookkeeping); a pool gives out no object twice and frees
every block once (pools); a url is completed from what this client has been told
(urls). `PROJECT.json` lists the
hazards at their lines, with the properties that cover each.

## 2. Modules

| Module | What it is |
|---|---|
| `TimerService` | abstract: a set of pending timers with distinct ids; cancelling an id removes exactly its timer; a nearest expired timer is dispatched |
| `TimerQueue` | the heap, the id table, `tq_schedule_timer`, `tq_cancel_timer`, `tq_dispatch_nearest_timer`; implements `TimerService` |
| `TimerQueueProofs`, `TimerQueueOrder` | the proofs about it |
| `MCTimerQueue` | its instances for TLC |
| `Loader` | `loader_fsm.c` with the loops of both modes and the keys |
| `LoaderProofs` | the proofs about it, for loads without a fixed request rate, and for those with one whose urls have no completion timeouts |
| `MCLoader` | its instances for TLC |
| `ObjectPool` | abstract: a set of objects in use; an object taken is not in use, one returned is |
| `Mpool` | `mpool.c`: blocks, the free list with its pointers, growth, `mpool_free`; implements `ObjectPool` |
| `MpoolProofs`, `MCMpool` | its proofs and instances |
| `SubBatches` | `main` of `loader.c`: validation, contexts, addresses, cutting a batch for threads, starting and joining them |
| `Client` | the counting in libcurl's callback, against an HTTP exchange on the handle |
| `Threads` | extends both: every thread with its counters, the leader that collects, final dumps, SIGINT; implements `StartSpec` of `SubBatches` |
| `ThreadsProofs`, `ThreadsCounts`, `MCThreads` | its proofs (the second: those about sums) and instances |
| `Keyval` | the values of response tokens: the scanner, and `Collected`, a reference that looks at the whole text at once |
| `Urls` | setting up a url for a client (templates, token files, form records, URL_USE_CURRENT) and scanning what comes in, with threads that share it |
| `UrlsProofs`, `MCUrls` | the proofs about both, and the instances |
| `NatLemmas` | smallest and largest numbers, induction, iteration and sums, for all sets of proofs |

### TimerQueue

State: `heap`, `curr_heap_size`, `max_heap_size`, `ids_arr`, `ids_last`,
`ids_min_free` as in `heap`; `next_timer` is the field of the timer nodes; `calling`
is the hnode `tq_dispatch_nearest_timer` has popped and whose handler runs;
`sift` is where `filter_up` or `filter_down` is; `hnodes_out` counts the hnodes
taken from the pool. Each iteration of the two loops is an action, and nothing
else runs until the loop has ended. A handler is the interval between
`DispatchBegin` and `DispatchReschedule` or `DispatchEnd`, in which timers may be
scheduled and cancelled.

`ids_min_free_restore` is never read and left out. Slots beyond the size are never
read and not kept. A write behind the id table is lost in the model; the
property `IdsInTable` is what says that it does not happen.

### Loader

One action is one step of the thread; loops over clients take one step per client
(`sched`), which nothing interrupts.

* `load_next_step(c, state, armed, ok)` is the whole function: cancelling the
  completion timer, leaving the multi handle (which fails for a client that is
  not in it), the RUN_TIME test, the state function, and then one of: retire,
  add to the load, sleep. `ok` is false when it returns -1, which `CSTATE_ERROR`
  also is, so a client in its final error state looks like a failure to the
  callers, as in the code.
* `pick_up_next_url`, `NextWalks`, `FirstUrl`, `NextUrl`, `load_error_state` are the
  state functions; a walk carries a client's url and cycle and the batch-wide
  `cycling_completed`.
* `handle_cctx_sleeping_timer`, `handle_cctx_url_completion_timer`,
  `handle_gradual_increase_clients_num_timer`, `handle_req_rate_timer`,
  `KeyPressed`/`NoKey` are the handlers.
* `Test`, `Exit`, `BeginDrain`, `DrainDone`, `EndDrain`, `DispatchBegin`,
  `DispatchEnd` are the loop. `SelectRounds` is 0 in hyper mode and otherwise the
  number of select calls in `mget_url_smooth`.
* `Complete` is libcurl finishing a transfer, well or not; nothing forces it to.

Abstractions: time. A call of `dispatch_expired_timers` compares with one time,
and what its handlers arm expires later; so the call handles a set of timers fixed
when it begins. Which set, and the order in it, is a choice, which includes
the order the queue has. The queue is taken as the set that `TimerService`
is, which needs that no timer node is scheduled twice: `TimersExclusive` says so.
The logfile timer, FRESH_CONNECT (which delays `setup_url`), a failed select, and
failures of memory and of scheduling a timer are left out, and so is `setup_url`
failing for a later url than the first, whose result nobody looks at: `Urls` has it.

libcurl (external): adding a handle fails if it is null or added already,
removing fails if it is not there; removing a handle discards its message.

### Mpool

State: the objects in memory order, numbered from 1, so that a block is an
interval; `free_list_head` and `link_next` are the pointers, `chain` is an auxiliary
copy of the list as a sequence, which `ListSound` compares with the pointers.
`mpool_add` writes the next pointer of an object only if the list is not empty, which
is right only because every object that enters an empty list has a null pointer.
`mpool_init`, `mpool_take_obj` (with and without growth, and failing), `mpool_return_obj`
and `mpool_free` are the operations the loader calls; the two loops of `mpool_free` take a
step per iteration (`walk`, `free_block`). A growth that gets only some of its blocks
counts as success, as in the code. When `mpool_free` refuses, because objects
are missing, the pool is dropped with its blocks.

### SubBatches, Client, Threads

`SubBatches` is sequential up to the start of the threads: `parse_config_file` validates
and gives every client an address, `cut_subbatch` is one iteration of
`create_thr_subbatches`, whose result `main` ignores, and `start_thread` one
`pthread_create`. What happens to a thread that has nothing to run on, or was not
created and is joined all the same, is in the model (`batch_function_fails`,
`join_crashes`).

`Client` is `client_tracing_function` for one client per batch. libcurl (external) sends
requests, and answers with interim responses, redirects, bodies and trailers; the callback sees
headers one by one and tells the first of a response from header counters that other
kinds of information reset. `untold` and `unanswered` are auxiliary: they count
exactly the cases in which those counters cannot tell, so that `RequestsCounted`
and `ResponsesCounted` are equalities up to them.

`Threads` adds what the threads do with the counts. A count is a load and a store
(`thr[k].loaded`), collecting from a batch an addition and a reset. `raced` is set when a
store overwrites a counter that has changed since it was loaded: `Conserved`, which says
that every count is in exactly one place, is stated up to that race and to what a reset takes
twice. In hyper mode the first thread to end exits the process.

### Keyval, Urls

`kv_scan` takes one character after another (`kv_next`) and keeps what it has matched
between calls; `kv_flush` is the interruption of a text by something else, which ends
what is collected. `Collected` says what should come out of the whole text. In the runs words
and values are over a small alphabet: two or three word characters, a separator and a
quote. Words are assumed to consist of word characters (`LoadsAssumption`), and `value[]`
to have room for a character and the 0 (`CharAssumption`: it has 256 places). With `VALUE_SIZE`
1 nothing would ever be kept, a value would not end where its word does, and `ScanSound` fail.

In `Urls` a url context is a record of what the code tells apart: its RESPONSE_TOKENs,
the number of `%s` of its template, its URL_TOKENs, lines of a token file, form
records. `que_array` has the keyvals, one queue for each index of a client, shared
by the threads, with the url of the batch that was parsed as context; so other threads
than the first scan nothing. `setup_url` is one step, except that
completing a template takes one step per token (`LookUp`) and one for the substitution
(`construct_url`), since the array of values is shared by the threads. `request` is what the handle
has been given. `heard` is auxiliary: the text a client was told for a url, and the places where
it was interrupted; no packet boundary is kept. A setup that fails leaves a reset handle, with which the client is
loaded all the same: libcurl's message then names no client, which ends the
thread in smooth mode, and lets the client wait for its completion timer in hyper
mode. `Gone` and the `..._crashes` actions are the use of what the first thread to end
has freed.

## 3. Runs

`timer_queue*` use client timers `c1`... (one-shot) and periodic timers.

| Run | Shows | Bounds |
|---|---|---|
| `timer_queue` | types, ids, hnodes, and that the queue implements `TimerService` | 3 one-shot and 1 periodic timer, room for 4, times 0..1. Two times give earlier, equal and later; 4 nodes give a heap with both kinds of child |
| `timer_queue_deep` | `HeapOrdered` when a node is replaced from another subtree | 7 timers for 6 slots, filled first and then drained, times 0..1: 6 nodes are the least where `filter_up` after a removal matters, the seventh timer is refused. Timers are scheduled in a fixed order, with all expiration times |
| `loader_hyper` | counters, timers, cycles, login and logoff areas | 2 clients, 3 urls, 2 cycles, one failing setup, up to 2 skipped urls, RUN_TIME |
| `loader_rate` | counters, free list, room on it, and ramp-up with a fixed rate | 3 clients, rate 2 in 2 invocations, ramp-up by 2, one key, one failing setup, no completion timeouts |
| `loader_ends` | no client lost, quiet exit, errors recovered, and `Terminates` | 2 clients, 2 urls, 2 cycles, ramp-up by 1, 2 keys of four, one failing setup, smooth mode with one select round |
| `mpool` | list, counters, blocks, and that the pool implements `ObjectPool` | 3 blocks of 2 objects; asked at first for none, less than a block, and 2 blocks |
| `threads` | equipment, addresses, requests and responses counted, counts conserved | room for 4 batches; 96 configurations cut for 0, 2, 3 and 5 threads; one of them followed through its load |
| `urls` | what is scanned, what a template is completed with, who sends which record | seven loads, up to 2 clients in 2 threads, 5 urls, 6 characters and interruptions in all, values of 2 characters |

Two clients are the least that disagree about `cycling_completed`; two cycles have a first and
a last one; three urls have all areas. Four select rounds differ from one only in
how often the same things are repeated before the test of the loop. `MaxTime`,
`MaxLost`, `MaxKeys`, `MaxFailures` bound what the environment may do, and at most
two urls in a row are skipped for their probability. Deadlock is not checked: a load,
a pool and a program end, and the clock of the queue stops at its bound.

`threads`: 5 clients for 2 and 3 threads leave a remainder; 2 clients for 3 threads leave a
sub-batch without any; 5 threads are more than there are batches; address ranges
are too short, exact, or shared, IPv4 and IPv6, whose scope ends at
`LastAddress`. `LoadedConfigs` are the configurations whose load is followed after the
start, with `MaxRequests` requests: two without threads, one with. The state
constraint `Bounds` leaves long exchanges to the load without threads (all of them
are there) and keeps those of threads to request, answer and end, so that
what varies is collecting, ending and stopping.

`urls`: `Scanned` sends text character by character, up to six of five kinds, interruptions counted, to
two words of which one begins the other: every cut into packets and every
interruption. `Chained` has a template that is itself scanned for one of its tokens,
and two clients; `TwoDeclare` two urls with the same token; `Currents` URL_USE_CURRENT with
and without a form, and templates that cannot be completed; `Files` all kinds of records
and lines; `Cut` is with -t, with one client and with two in each of two threads. `VALUE_SIZE` is 3
instead of 256, so that values are cut. Random records are drawn from files that
are not empty, and the first url of a load can be set up.

Violations, each of a statement of the sources or the manual (see the findings in
`PROJECT.json`):

| Run | What the code does |
|---|---|
| `loader_cycles` | the first client to finish ends the cycling of all |
| `loader_double_free` | with a rate and completion timeouts a client is freed twice |
| `threads_totals` | a thread that ends keeps, or takes, counts that never get into the file of the first batch |
| `urls_obtained` | a template is completed with an empty value when no response had its token |

More behaviours are in the models and have no run of their own: a refused
`tq_schedule_timer` keeps its hnode (`tq_schedule_timer_fails`); a queue that is too small for
its periodic timers gives out an id behind its table, and one that has grown an id in use
(see `HasRoom` below); with a request rate the loop ends as soon as `cycling_completed`
is set, whatever is still loading or sleeping (`LoadEnds`), and goes on for ever when no
client is left; with urls that do not cycle only, that flag is set from the start, so that
such a load ends before its first request (`Init`); UNIQUE_USERS appends 1 for every client
(`FormRecords`); a url that cannot be set up is fetched with a reset handle.

Fairness (`FairSpec` of `Loader`): weak fairness of the thread's steps, since it
never blocks for longer than its select or libevent timeout; and for each timer,
strong fairness of a dispatch in which it has expired, since the clock runs and
the nearest expired timer is taken first. Nothing is assumed of transfers and keys.
`Terminates` has one exception, `RampHeld`: the key m, which holds the ramp-up until the key
a by design, and a client that cannot be set up, whose failure removes the timer of the
ramp-up. No other specification states fairness: their properties are safety.

## 4. Proofs

### TimerQueue

The theorems assume `HasRoom`: the queue was created with a slot for every timer.
Both loops create it for `client_num_max + PERIODIC_TIMERS_NUMBER + 1` timers, which is enough for
every batch that does not have both a ramp-up and a request rate: such a batch
has four periodic timers where three are counted. Without room `heap_push` grows the table and
`heap_get_node_id` may give out an id in use, or, while a periodic timer keeps its id off the
heap, one behind the table.

`ShapeInv` is the inductive invariant. `IdsUnique` alone is not inductive: that the
next id is free needs `CursorSound` (every free id is above `ids_last` or not below
`ids_min_free`, so the scan finds one), which needs that the queue has fewer
nodes than slots when a timer is scheduled, which needs `NodesDistinct` (no timer is
queued twice) and a pigeonhole argument over the timers; and that a kept id is
not given away needs `KeptIdBusy` and `NoIdLost`. `TimerQueueProofs` begins with the facts
about the table and the pigeonhole, then has one lemma per action and
the theorems `TypeCorrect`, `IdsStayInTable`, `IdsStayUnique`, `NoIdEverLost` and
`HnodesStayAccounted`.

`OrderInv` says where the heap may be out of order while a loop runs: only at the
moving slot in `filter_up`, only below it in `filter_down`, and in both cases the
children of the slot are not earlier than its parent. `TimerQueueOrder` proves it
inductive with `ShapeInv`, concludes `HeapStaysOrdered`, that the top is a nearest
timer, and `QueueImplementsService`: every step of the queue is a step of
`TimerService` under `pending <- {heap[s] : s \in Slots}`, or a stutter.

### Loader

Everything about a load is arbitrary: the number of clients and urls, which of them cycle, sleep, time
out or may be skipped, the cycles, the ramp-up, the mode of the loop, error recovery, RUN_TIME, and
the number of keys and failing setups. The theorems are of three kinds.

**Every load.** `BooksInv` is what holds with a request rate or without: the counters, the timers, the
cycles and the logoff (`CountsExact`, `TimersExclusive`, `CyclesLeft`, `LogoffLast`), `RampRespected`, and

* `PlacesKnown`: a client in the multi handle or asleep has an easy handle and is past `CSTATE_INIT`; a
  client asleep is in `CSTATE_URLS`; a completion timer belongs to a url with a timeout. Without it
  `load_next_step` for a client that is about to be scheduled could meet a transfer under way, and
  both counters would drift.
* `WalksBegun`: without a cycling url the cycling is over from the start, and a client before its first url has
  done no cycle.
* `SchedSound`: due timers exist inside a dispatch only, and the loop of the rate timer has at most as many
  clients left to take as were counted in and are not in use. `RampRespected` is not inductive without
  it, since the timer decides once how many it will take.

`BooksInvariant` needs no assumption. A load that both has a rate and lets transfers time out may
put a client on the free list twice (`loader_double_free`), and take it from there while its transfer is
under way. The books hold in spite of it, because `load_next_step` removes the handle from the multi handle
and cancels the timer of whichever client it is given, and because `put_free_client` looks at the
room first.

`LoaderProofs` first shows where a walk leads (`PickSound`, `NextWalksSound`,
`OutcomesSound`), then that `load_next_step`, for a client in any place, lets the client join, rest, leave, or refuses
and changes nothing (`LoadEffect`, `LoadSettles`); a client that does any of these keeps the books
(`SettledBooks`), the two counters by the cardinalities of the sets they count (`PlacedCounts`).

**Without a rate.** `LoadInv` has besides, under the assumption `NoRate`, `TransfersGuarded`, `NoClientLost` and

* `PlacesSound`: a client in the multi handle is in `CSTATE_URLS`, and no message is left behind read.
* `LoopSound`: a loop over clients runs beyond the clients already scheduled. It is why the step of a loop that
  fails half way loses nobody who was counted in.
* `RampSound`: unless the batch failed at its start, the ramp-up is not over before
  every client has been scheduled, and the increase timer exists only with a ramp-up.
* `WalksSound`: a client in its final error state has no cycle left.
* `PassedKept`: `NoClientLost` for the clients that the loop in progress has passed.

`LoadInvariant` has one lemma per action. `QuiescentExit` follows at `Exit`: both counters are zero and
exact, so nobody is in the multi handle or asleep, and nothing happens after it. With a rate none of these
holds: a load ends with transfers under way, and a client that ended in an error is not scheduled again.

**With a rate.** `FreeListSound` is the property of `FixedRate` that completion timeouts break, so
`RateInv`, which is `BooksInv` and `FreeListSound`, assumes `NoTimeouts` too. A client whose message is
read, or that wakes up, is not on the list (`BusyNotFree`). `FreeListHasRoom` needs a count on top: the clients on the list are
different ones, and the one whose message is read is not among them, so the list is shorter than
`client_num_max`. `RateSharedExactly` is arithmetic: the shares of any `InvsPerSec` consecutive
invocations sum to `req_rate`, wherever in a second the first one is. It follows from a closed
form of the partial sums over two seconds; a sum is the last of its partial sums (`ArePartialSums` of
`NatLemmas`, where `PartialSums` says that there are some for all values).

### Mpool

`PoolInv` is the inductive invariant: `ListSound`, `CountsMatch` and `BlocksFreedOnce`, with
`BlocksSound` (the marked objects are the first ones of the blocks), `Unused` (an object never
on the list, or taken, has a null pointer) and `WalkSound` (the walk of `mpool_free` has
collected the blocks of the part of the list behind it). `Unused` is why the missing
write of `mpool_add` is harmless; `WalkSound` with `CountsMatch` is why the walk finds as many
blocks as were allocated. `PoolServed` is the refinement `out`: every step is one of
`ObjectPool` or a stutter. Block size, number of blocks and the first request are arbitrary.

### Threads

`Inv` has five parts, each inductive with the ones before: `StartInv` (where `main` is says what the
batches have), `Rising` (addresses of a batch rise, and those of a later batch are above those of an
earlier one: `AddressesDedicated`), `Covered` (every address was added to the interface:
`AddressesAdded`), `ClientInv` (the header counters that are not zero say how far the exchange is:
`RequestsCounted`, `ResponsesCounted`) and `StatInv` (types of the counters, and the range a thread
collects from). Configurations, numbers of threads, statuses and bounds are arbitrary.
`StartImplemented` shows that the threads, seen from the start of the program, only do
what `StartSpec` of `SubBatches` allows.

`ThreadsCounts` has the two properties about sums over the batches. `NoneInvented` says so only once a thread was
started: before, a negative number of clients, which validation has yet to refuse, would make it
false. From `Divided` (the batch is whole, or every sub-batch has at most its share) the sum is bounded by the number of
values and their bound (`SumBounded`). `Conserved` is, for each counter, `Balance`: what is in the
totals of the leader and `With` the batches is what the clients have counted, where `With` takes
account of a count between load and store and of a collection between addition and reset. A step of a thread
changes one value, or moves one from a batch to the total (`SumChanged`). That needs `Numbered`, `UrlsFirst` (until a
thread ends the batches with counters of urls come first, which is the range the leader collects) and `UrlsUncounted`.

### Keyval and Urls

`UrlsInv` consists of `QueuesOK` (types; every client has the keyvals of the parsed tokens, in their order, `AreTokens`),
`Agreement` (a keyval against what its client was told) and `Requested` (`HandOut`: a client that fetches has
the record and the line that are its own; `Completes`: what a thread completes is a template that can be).

`Agreement` is the heart. `Follows` relates every state of the scanner to the whole text so far: while it
matches, `index` is the length of the one part of the word that stands at the end of the text, from where a run of
word characters begins (`Matching`); once the word is found, at the first place where a value may begin, what it has kept is the
beginning of that value (`Collecting`). One more character keeps it (`kv_next`), by cases on
match, beginning, end and overflow of the value. `Agree` adds interruptions: the first one
that finds the word ends it, and what comes later does not matter. `ScanSound` follows at every
moment, so no cut into packets makes a difference. The alphabet, the words (also those that begin
alike), the size of values, the loads and the numbers of clients and threads are arbitrary.

`TemplatesOwn` (`CompletedFromOwn`) needs `Found` besides: the values looked up so far are those of the first keyval of each
word, and no other thread has written to the array they share. That is so without -t, or with one
client in each thread (`Undisturbed`); with more the array is overwritten, which is why the property says no more.

### Induction

The library's theorems of induction cannot be used, so `NatLemmas` derives what is needed from the existence of a smallest
element: `NatsBySteps` (a set with 0 and all successors of its members is `Nat`), `Iterated` (a function
defined by its first value and a step exists), and from them the facts about partial sums. `kv_scan` and `Sum` are recursive functions, for
which the equations they are defined by are obtained from `Iterated` and `PartialSums`.

### Only model-checked

* `Terminates`: liveness under fairness is out of reach of the prover.
* The four violations, which are counterexamples.

Every other property of a passing run is stated by a theorem. The proofs show it for the specification of
the module, whose bounds (`MaxTime`, `MaxKeys`, `MaxFailures`, `MaxRequests`, `MaxLost`) are constants of any size.

## 5. Not modelled

* Parsers of configuration tags, and the validation of urls: formats, and one check after
  another; `SubBatches` has the validation of the general section, `Loader` and `Urls` assume what
  the others let through (`UrlsAssumption`, `Accepted`).
* The options `setup_curl_handle_init` gives to libcurl, the texts of urls and forms (buffers
  and their sizes included), cookies of token files, random urls, headers, uploads, multipart
  forms, authentication.
* Byte counts, delays, averages, log files and the output of statistics.
* `ip_secondary.c` (netlink I/O), `environment.c`, `ssl_thr_lock.c`, `cl_alloc.c` (no logic of their own),
  terminal handling, libevent registrations of hyper mode.
* `script/`, a scripting engine with its own libraries (PCRE among them) that the loader does
  not link, `packages/` and `patches/`. `script/` alone is almost four fifths of the C code of
  the repository, which is why the map covers a small share of all lines.

What would be worth adding: how often a client can be on the free list with a rate and completion timeouts,
and `setup_url` failing for later urls in `Loader`, where it ends a smooth load.
