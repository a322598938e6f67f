----------------------------- MODULE MCThreads -----------------------------
(***************************************************************************)
(* Instances of Threads.  The configurations vary what validation and      *)
(* cutting look at; the one whose load is followed is a small one.         *)
(***************************************************************************)
EXTENDS Threads

MCBatches == 0 .. BATCHES_MAX_NUM - 1

MCConfig(n, start, v6, max, shared, rate) ==
  [client_num_max |-> n, client_num_start |-> start, clients_rampup_inc |-> 2,
   ipv6 |-> v6, ip_addr_min |-> 1, ip_addr_max |-> max,
   ip_shared_num |-> shared, req_rate |-> rate, run_time |-> 1, urls_num |-> 1]

MCConfigs ==
  {MCConfig(n, start, v6, max, shared, rate) :
     n \in {0, 2, 5}, start \in {0, 2}, v6 \in BOOLEAN, max \in {1, 5},
     shared \in {0, 2}, rate \in {0, 2}}

MCMaxRequests == [t \in ThreadNums |-> IF t = 0 THEN 2 ELSE 1]

\* A batch without -t goes through whole exchanges; threads through short ones,
\* but collect, end and are stopped at any time.
Bounds ==
  IF threads = 0
  THEN loading_mode = "smooth" /\ ~stop_loading
  ELSE /\ \A k \in Batches : /\ talk[k] \notin {"interim", "body", "trailer"}
                             /\ status[k] \in {0, 404}
       /\ stop_loading => loading_mode = "smooth"

MCLoaded == {MCConfig(2, 2, FALSE, 1, 0, 0)}
=============================================================================
