------------------------------ MODULE Threads ------------------------------
(***************************************************************************)
(* The threads of the program, each with a sub-batch, and the statistics   *)
(* they keep (statistics.c): every thread counts in the delta of its own   *)
(* batch, and the thread of the first batch, the leader, collects the      *)
(* deltas of all at intervals into its totals.  A thread whose load ends   *)
(* dumps final statistics: it collects from the batches that follow its    *)
(* own.                                                                    *)
(*                                                                         *)
(* Nothing is locked.  To count is to load a counter and to store it; to   *)
(* collect from a batch is to add its delta and then to reset it.  The     *)
(* counters of one delta are added, and reset, in one step each; adding to *)
(* the total and resetting the own delta is one step as well.              *)
(*                                                                         *)
(* The loads that are followed are those of the configurations in          *)
(* LoadedConfigs, up to MaxRequests requests, from when all threads have   *)
(* started; a batch has one client.                                        *)
(* Beyond half of BATCHES_MAX_NUM threads, final statistics are collected  *)
(* from behind the end of bc_arr; these loads are not followed.            *)
(***************************************************************************)
EXTENDS SubBatches, Client

CONSTANTS
  LoadedConfigs,   \* bound: configurations whose load is followed
  MaxRequests      \* bound: with so many threads, requests of all clients

ASSUME LoadAssumption ==
  /\ Batches = Slots
  /\ LoadedConfigs \subseteq Configs
  /\ MaxRequests \in [ThreadNums -> Nat]

VARIABLES
  loading_mode,   \* "smooth" or "hyper"
  stop_loading,
  thr,            \* per batch: what its thread is doing
  delta,          \* per batch: http_delta, https_delta and op_delta
  total,          \* per batch: http_total, https_total and op_total
  raced           \* auxiliary: a count and a reset have met

statVars == <<thr, delta, total, raced>>
vars == <<startVars, clientVars, statVars, loading_mode, stop_loading>>

\* Where a thread is: "idle", storing a counter, adding or resetting the delta
\* of the j-th batch after its own, adding to its totals, or done with it all.
\* why is what it collects for: an interval, its end, or stop_loading.  loaded
\* is what it has read.
Idle == [at |-> "idle", counter |-> None, set |-> {}, j |-> 0, why |-> "none",
         loaded |-> Zero]

Init ==
  /\ StartInit
  /\ ClientInit
  /\ loading_mode \in {"smooth", "hyper"}
  /\ stop_loading = FALSE
  /\ thr = [k \in Slots |-> Idle]
  /\ delta = [k \in Slots |-> Zero]
  /\ total = [k \in Slots |-> Zero]
  /\ raced = FALSE

\* The load is followed once every thread is past its initialization.
Followed ==
  /\ pc = "join"
  /\ running \cup ended = created
  /\ conf \in LoadedConfigs
  /\ 2 * threads <= BATCHES_MAX_NUM

Loading(k) == Followed /\ k \in running
-----------------------------------------------------------------------------
\* An event of a client, and a counter loaded for it if there is one.
Event(k) ==
  /\ Loading(k)
  /\ thr[k].at = "idle"
  /\ \E counter \in Counters \cup {None} :
       /\ counter \in OpCounters => bc[k].op_url_num # 0
       /\ ClientNext(k, counter)
       /\ thr' = IF counter = None THEN thr
                 ELSE [thr EXCEPT ![k] = [Idle EXCEPT !.at = "store",
                                                      !.counter = counter,
                                                      !.loaded = delta[k]]]
  /\ Sum(sent') <= MaxRequests[threads]
  /\ UNCHANGED <<startVars, delta, total, raced, loading_mode, stop_loading>>

\* A sub-batch whose cutting failed has no counters of urls: op_stat_update
\* counts through a null pointer.
event_crashes(k) ==
  /\ Loading(k)
  /\ thr[k].at = "idle"
  /\ bc[k].op_url_num = 0
  /\ \E counter \in OpCounters : ClientNext(k, counter)
  /\ process_crashes
  /\ UNCHANGED <<statVars, loading_mode, stop_loading>>

\* The counter is stored.
Store(k) ==
  /\ Loading(k)
  /\ thr[k].at = "store"
  /\ delta' = [delta EXCEPT ![k][thr[k].counter] =
                  thr[k].loaded[thr[k].counter] + 1]
  /\ raced' = (raced \/ delta[k][thr[k].counter] # thr[k].loaded[thr[k].counter])
  /\ thr' = [thr EXCEPT ![k] = Idle]
  /\ UNCHANGED <<startVars, clientVars, total, loading_mode, stop_loading>>
-----------------------------------------------------------------------------
\* Collecting begins: from the batches after the own one, the one behind the
\* last included (i <= threads_subbatches_num).
CollectOneMore(j) == IF j <= threads + 1 THEN "add" ELSE "total" \* mutant
CollectFrom(j) == IF j <= threads THEN "add" ELSE "total"
Collecting(set, why) ==
  [Idle EXCEPT !.at = CollectFrom(1), !.set = set, !.j = 1, !.why = why]

is_batch_group_leader(k) == bc[k].batch_id = 0

\* dump_snapshot_interval by the leader: operational statistics first; with
\* stop_loading, dump_final_statistics instead.
dump_snapshot_interval(k) ==
  /\ Loading(k)
  /\ thr[k].at = "idle"
  /\ is_batch_group_leader(k)
  /\ thr' = [thr EXCEPT ![k] = IF stop_loading THEN Collecting(HttpCounters, "stop")
                               ELSE Collecting(OpCounters, "interval")]
  /\ UNCHANGED <<startVars, clientVars, delta, total, raced, loading_mode,
                 stop_loading>>

\* dump_final_statistics at the end of a load.
dump_final_statistics(k) ==
  /\ Loading(k)
  /\ thr[k].at = "idle"
  /\ talk[k] = "idle"
  /\ thr' = [thr EXCEPT ![k] = Collecting(HttpCounters, "end")]
  /\ UNCHANGED <<startVars, clientVars, delta, total, raced, loading_mode,
                 stop_loading>>

\* op_stat_point_add wants as many urls in both.
SameUrls(k, m) ==
  thr[k].set = OpCounters => bc[k].op_url_num = bc[m].op_url_num

\* stat_point_add, or op_stat_point_add.
Added(left, right, set) ==
  [c \in Counters |-> IF c \in set THEN left[c] + right[c] ELSE left[c]]
ResetOf(point, set) == [c \in Counters |-> IF c \in set THEN 0 ELSE point[c]]

CollectAdd(k) ==
  /\ Loading(k)
  /\ thr[k].at = "add"
  /\ delta' = IF SameUrls(k, k + thr[k].j)
              THEN [delta EXCEPT ![k] = Added(@, delta[k + thr[k].j], thr[k].set)]
              ELSE delta
  /\ thr' = [thr EXCEPT ![k].at = "reset", ![k].loaded = delta[k + thr[k].j]]
  /\ UNCHANGED <<startVars, clientVars, total, raced, loading_mode, stop_loading>>

\* "reset just after collecting".
not_reset(k) == delta                           \* mutant: forgotten
reset_other(k) ==
  [delta EXCEPT ![k + thr[k].j] = ResetOf(@, thr[k].set)]

CollectReset(k) ==
  /\ Loading(k)
  /\ thr[k].at = "reset"
  /\ delta' = reset_other(k)
  /\ raced' = (raced \/ \E c \in thr[k].set :
                           delta[k + thr[k].j][c] # thr[k].loaded[c])
  /\ thr' = [thr EXCEPT ![k].at = CollectFrom(thr[k].j + 1),
                        ![k].j = thr[k].j + 1, ![k].loaded = Zero]
  /\ UNCHANGED <<startVars, clientVars, total, loading_mode, stop_loading>>

\* Totals are advanced, and the own delta reset unless they are final.
total_advanced(k) == [total EXCEPT ![k] = Added(@, delta[k], thr[k].set)]

\* ... at an interval: http statistics follow the operational ones.
AdvanceTotal(k) ==
  /\ Loading(k)
  /\ thr[k].at = "total" /\ thr[k].why = "interval"
  /\ total' = total_advanced(k)
  /\ delta' = [delta EXCEPT ![k] = ResetOf(@, thr[k].set)]
  /\ thr' = [thr EXCEPT ![k] = IF thr[k].set = OpCounters
                               THEN Collecting(HttpCounters, "interval") ELSE Idle]
  /\ UNCHANGED <<startVars, clientVars, raced, loading_mode, stop_loading>>

\* ... of the final http statistics, and the operational ones follow.
FinalTotal(k) ==
  /\ Loading(k)
  /\ thr[k].at = "total" /\ thr[k].why # "interval" /\ thr[k].set = HttpCounters
  /\ total' = total_advanced(k)
  /\ thr' = [thr EXCEPT ![k] = Collecting(OpCounters, thr[k].why)]
  /\ UNCHANGED <<startVars, clientVars, delta, raced, loading_mode, stop_loading>>

\* ... the last ones.  Hyper mode and stop_loading call exit then.
Dumped(k) ==
  /\ total' = total_advanced(k)
  /\ thr' = [thr EXCEPT ![k] = [Idle EXCEPT !.at = "dumped"]]
  /\ IF loading_mode = "hyper" \/ thr[k].why = "stop"
     THEN process_exits ELSE UNCHANGED startVars
  /\ UNCHANGED <<clientVars, delta, raced, loading_mode, stop_loading>>

\* A load of less than a second has no operational statistics.
FinalShort(k) ==
  /\ Loading(k)
  /\ thr[k].at = "total" /\ thr[k].why # "interval" /\ thr[k].set = HttpCounters
  /\ Dumped(k)

FinalEnd(k) ==
  /\ Loading(k)
  /\ thr[k].at = "total" /\ thr[k].why # "interval" /\ thr[k].set = OpCounters
  /\ Dumped(k)

\* batch_function returns, without final statistics if the load fails; what
\* op_delta held is gone.
batch_returns(k) ==
  /\ Loading(k)
  /\ thr[k].at \in {"dumped", "idle"}
  /\ free_batch_data_allocations(k)
  /\ delta' = [delta EXCEPT ![k] = ResetOf(@, OpCounters)]
  /\ UNCHANGED <<clientVars, thr, total, raced, loading_mode, stop_loading>>

\* sigint_handler.
sigint ==
  /\ Followed
  /\ stop_loading' = TRUE
  /\ UNCHANGED <<startVars, clientVars, statVars, loading_mode>>

Next ==
  \/ StartNext /\ UNCHANGED <<clientVars, statVars, loading_mode, stop_loading>>
  \/ \E k \in Slots :
       \/ Event(k)
       \/ event_crashes(k)
       \/ Store(k)
       \/ dump_snapshot_interval(k)
       \/ dump_final_statistics(k)
       \/ CollectAdd(k)
       \/ CollectReset(k)
       \/ AdvanceTotal(k)
       \/ FinalTotal(k)
       \/ FinalShort(k)
       \/ FinalEnd(k)
       \/ batch_returns(k)
  \/ sigint

Spec == Init /\ [][Next]_vars
-----------------------------------------------------------------------------
(***************************************************************************)
(* Properties.                                                             *)
(***************************************************************************)

StatTypes ==
  /\ loading_mode \in {"smooth", "hyper"}
  /\ stop_loading \in BOOLEAN
  /\ thr \in [Slots -> [at : {"idle", "store", "add", "reset", "total", "dumped"},
                        counter : Counters \cup {None},
                        set : {{}, HttpCounters, OpCounters},
                        j : Nat,
                        why : {"none", "interval", "end", "stop"},
                        loaded : [Counters -> Nat]]]
  /\ delta \in [Slots -> [Counters -> Nat]]
  /\ total \in [Slots -> [Counters -> Nat]]
  /\ raced \in BOOLEAN
  /\ \A k \in Slots : thr[k].at \in {"add", "reset"} => thr[k].j \in 1 .. threads

\* Every variable has its type, and no thread collects from behind the batch
\* that follows the last.
TypeOK == StartTypes /\ ClientTypes /\ StatTypes

\* What the leader has in its totals, and what is still in the deltas, is what
\* the clients have counted, nothing lost and nothing twice: until the leader
\* takes its final totals, however the others collect from each other and end,
\* and unless a count and a reset have met.  The operational counters of a
\* thread that returns are lost, unless they were collected.
Stored(k, c) == IF thr[k].at = "store" /\ thr[k].counter = c THEN 1 ELSE 0
Twice(k, c) ==
  IF thr[k].at = "reset" /\ c \in thr[k].set THEN thr[k].loaded[c] ELSE 0
LeaderCounts ==
  /\ thr[0].at # "dumped"
  /\ ~(thr[0].set = OpCounters /\ thr[0].why # "interval")

Conserved ==
  pc # "crashed" /\ ~raced /\ LeaderCounts =>
    \A c \in IF ended = {} THEN Counters ELSE HttpCounters :
      total[0][c] + Sum([k \in Slots |-> delta[k][c] + Stored(k, c) - Twice(k, c)])
        = Sum([k \in Slots |-> st[k][c]])

\* README 9: "total statistics is written to the file $batch-name_0.txt".  When
\* every thread has ended its load, the totals of the leader are the responses
\* of all clients.
TotalInFile0 ==
  pc = "exited" /\ 0 \in created /\ created = ended =>
    \A c \in Classes : total[0][c] = Sum([k \in Slots |-> st[k][c]])
=============================================================================
