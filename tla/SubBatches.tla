----------------------------- MODULE SubBatches -----------------------------
(***************************************************************************)
(* The start of the program, main of loader.c: the batch of the            *)
(* configuration file is validated and given its client contexts, every    *)
(* client gets an address, and with -t the batch is cut into sub-batches,  *)
(* one for each thread.                                                    *)
(*                                                                         *)
(* main runs alone until it starts the threads; each iteration of the loop *)
(* of create_thr_subbatches is an action.  A call that may fail may always *)
(* do so; what main does then is modelled, which for create_thr_subbatches *)
(* is nothing at all.  The file has one batch (main: "De-facto the support *)
(* is only for a single batch").  An address is a number; those of IPv6    *)
(* count within the scope, the low 14 bytes that ipv6_increment advances.  *)
(* An address array that is null and one with null entries are not told    *)
(* apart: both are shorter than the batch.                                 *)
(***************************************************************************)
EXTENDS Integers, Sequences

CONSTANTS
  BATCHES_MAX_NUM,
  ThreadNums,       \* the numbers that -t may give, 0 being none
  Configs,          \* the batches that the configuration file may describe
  LastAddress       \* of the scope of IPv6 addresses

ConfigFields ==
  [client_num_max : Int, client_num_start : Int, clients_rampup_inc : Int,
   ipv6 : BOOLEAN, ip_addr_min : Nat, ip_addr_max : Nat, ip_shared_num : Nat,
   req_rate : Nat, run_time : Nat, urls_num : Nat]

ASSUME StartAssumption ==
  /\ BATCHES_MAX_NUM \in Nat \ {0}
  /\ ThreadNums \subseteq Nat \ {1}      \* conf.c:171
  /\ Configs \subseteq ConfigFields
  /\ LastAddress \in Nat

VARIABLES
  pc,        \* where main is, or what became of the process
  threads,   \* threads_subbatches_num
  conf,      \* auxiliary: the batch as the configuration file has it
  bc,        \* bc_arr
  master,    \* in create_thr_subbatches
  i,         \* of its loop, and of that of main
  iface,     \* addresses added to the network interface
  created,   \* threads (batches, without -t) that exist
  running,   \* those that load, past initial_handles_init
  ended      \* those that have returned

startVars == <<pc, threads, conf, bc, master, i, iface, created, running,
               ended>>

Slots == 0 .. BATCHES_MAX_NUM - 1

\* Sums over the batches.
Sum(g) ==
  LET upTo[k \in Slots] == IF k = 0 THEN g[0] ELSE upTo[k - 1] + g[k]
  IN  upTo[BATCHES_MAX_NUM - 1]

\* A batch context.  cctx_array is the number of contexts in the array, 0 if
\* it is null; ip_addr_array[j] is the address of client j - 1; op_url_num is
\* the number of urls in op_delta.
Batch ==
  [client_num_max : Int, client_num_start : Int, clients_rampup_inc : Int,
   ipv6 : BOOLEAN, ip_addr_min : Nat, ip_addr_max : Nat, ip_shared_num : Nat,
   req_rate : Nat, run_time : Nat, shared_index : Nat, cctx_array : Nat,
   free_clients_count : Nat, ip_addr_array : Seq(Nat), op_url_num : Nat,
   batch_id : Nat]

ZeroBatch ==
  [client_num_max |-> 0, client_num_start |-> 0, clients_rampup_inc |-> 0,
   ipv6 |-> FALSE, ip_addr_min |-> 0, ip_addr_max |-> 0, ip_shared_num |-> 0,
   req_rate |-> 0, run_time |-> 0, shared_index |-> 0, cctx_array |-> 0,
   free_clients_count |-> 0, ip_addr_array |-> <<>>, op_url_num |-> 0,
   batch_id |-> 0]

StartInit ==
  /\ pc = "parse"
  /\ threads \in ThreadNums
  /\ conf \in Configs
  /\ bc = [k \in Slots |-> ZeroBatch]
  /\ master = ZeroBatch
  /\ i = 0
  /\ iface = {}
  /\ created = {} /\ running = {} /\ ended = {}
-----------------------------------------------------------------------------
\* validate_batch_general: a range of a single address is shared by all.
SharedNum(c) ==
  IF c.ip_addr_min = c.ip_addr_max /\ (c.ipv6 \/ c.ip_addr_min # 0)
  THEN 1 ELSE c.ip_shared_num

\* ... and what it refuses.
validate_batch_general(c) ==
  /\ c.client_num_max >= 1
  /\ c.client_num_start \in 0 .. c.client_num_max
  /\ c.clients_rampup_inc >= 0
  /\ ~c.ipv6 /\ SharedNum(c) = 0 =>
       c.ip_addr_max - c.ip_addr_min + 1 >= c.client_num_max
  /\ c.req_rate <= c.client_num_max

\* post_validate_init: contexts, the list of free clients, statistics.
post_validate_init(c) ==
  [client_num_max |-> c.client_num_max,
   client_num_start |-> c.client_num_start,
   clients_rampup_inc |-> c.clients_rampup_inc,
   ipv6 |-> c.ipv6, ip_addr_min |-> c.ip_addr_min, ip_addr_max |-> c.ip_addr_max,
   ip_shared_num |-> SharedNum(c),
   req_rate |-> c.req_rate, run_time |-> c.run_time, shared_index |-> 0,
   cctx_array |-> c.client_num_max,
   free_clients_count |-> IF c.req_rate = 0 THEN 0 ELSE c.client_num_max,
   ip_addr_array |-> <<>>, op_url_num |-> c.urls_num, batch_id |-> 0]

parse_config_file ==
  /\ pc = "parse"
  /\ validate_batch_general(conf)
  /\ bc' = [bc EXCEPT ![0] = post_validate_init(conf)]
  /\ pc' = "addresses"
  /\ UNCHANGED <<threads, conf, master, i, iface, created, running, ended>>

\* main returns: the file is refused, memory or a call of the system fails, an
\* IPv6 address is out of scope, or thread_openssl_setup fails.
main_returns ==
  /\ pc \in {"parse", "addresses", "cut"}
  /\ pc' = "failed"
  /\ UNCHANGED <<threads, conf, bc, master, i, iface, created, running, ended>>

\* ip_addr_str_allocate_init: the address of client j.  Shared addresses are
\* used in turn.
Address(b, j) ==
  b.ip_addr_min + (IF b.ip_shared_num = 0 THEN j
                   ELSE (b.shared_index + j) % b.ip_shared_num)

InScope(b) ==
  b.ipv6 => \A j \in 0 .. b.client_num_max - 1 : Address(b, j) <= LastAddress

\* next_ipv4_shared_index, called for n clients.
SharedIndexAfter(b, n) ==
  IF b.ip_shared_num = 0 THEN b.shared_index
  ELSE (b.shared_index + n) % b.ip_shared_num

\* The first n clients have got theirs.
WithAddresses(b, n) ==
  [b EXCEPT !.ip_addr_array = [j \in 1 .. n |-> Address(b, j - 1)],
            !.shared_index = SharedIndexAfter(b, n)]

AddressSet(b) == {b.ip_addr_array[j] : j \in 1 .. Len(b.ip_addr_array)}

create_ip_addrs ==
  /\ pc = "addresses"
  /\ InScope(bc[0])
  /\ bc' = [bc EXCEPT ![0] = WithAddresses(@, @.client_num_max)]
  /\ iface' = {Address(bc[0], j) : j \in 0 .. bc[0].client_num_max - 1}
  /\ pc' = IF threads = 0 THEN "start" ELSE "cut"
  /\ UNCHANGED <<threads, conf, master, i, created, running, ended>>
-----------------------------------------------------------------------------
\* create_thr_subbatches returns -1 at once, and main goes on with the batch
\* uncut and the others zero.
CutRefused ==
  \/ threads > BATCHES_MAX_NUM
  \/ bc[0].ip_shared_num > 1 /\ threads < bc[0].ip_shared_num
  \/ bc[0].client_num_max < threads

create_thr_subbatches ==
  /\ pc = "cut"
  /\ master' = bc[0]
  /\ pc' = IF CutRefused THEN "start" ELSE "cutting"
  /\ UNCHANGED <<threads, conf, bc, i, iface, created, running, ended>>

\* The clients of a sub-batch; what the division leaves over is lost, as the
\* test for the last sub-batch, i != subbatches_num, always holds.
ClientsRoundedUp ==                             \* mutant: none is lost
  (master.client_num_max + threads - 1) \div threads
ClientsPerThread == master.client_num_max \div threads

\* A sub-batch gets its share of a setting that is not zero, and 1 at least.
ShareWhole(x) == x                              \* mutant: not divided
ShareOf(x) ==
  IF x = 0 THEN 0 ELSE IF x \div threads = 0 THEN 1 ELSE x \div threads

\* IPv4 ranges follow each other, the greatest address being that of no
\* client; in an IPv6 range it is left out.
FirstAddressAgain(k) == master.ip_addr_min      \* mutant: i not looked at
FirstAddressAfter(k) ==                         \* mutant: after the greatest
  IF master.ip_shared_num # 0 \/ k = 0 THEN master.ip_addr_min
  ELSE bc[k - 1].ip_addr_max + 1
FirstAddress(k) ==
  IF master.ip_shared_num # 0 \/ k = 0 THEN master.ip_addr_min
  ELSE IF master.ipv6 THEN bc[k - 1].ip_addr_max + 1
  ELSE bc[k - 1].ip_addr_max
EndAddress(k) ==
  IF master.ip_shared_num # 0 THEN master.ip_addr_max
  ELSE FirstAddress(k) + ClientsPerThread

\* The settings copied; req_rate and run_time are not among them.
Sized(k) ==
  [bc[k] EXCEPT !.client_num_max = ClientsPerThread,
                !.client_num_start = ShareOf(master.client_num_start),
                !.clients_rampup_inc = ShareOf(master.clients_rampup_inc),
                !.ipv6 = master.ipv6,
                !.ip_addr_min = FirstAddress(k),
                !.ip_addr_max = EndAddress(k)]

Addressed(k, n) ==
  WithAddresses([Sized(k) EXCEPT !.ip_shared_num = master.ip_shared_num], n)

\* Contexts and the list of free clients; batch 0 keeps those of the whole.
WithContexts(k) ==
  IF k = 0 THEN Addressed(k, ClientsPerThread)
  ELSE [Addressed(k, ClientsPerThread) EXCEPT
          !.cctx_array = ClientsPerThread,
          !.free_clients_count =
            IF master.req_rate = 0 THEN 0 ELSE ClientsPerThread]

Cut(k) == [WithContexts(k) EXCEPT !.op_url_num = conf.urls_num]

\* What an iteration that fails to allocate leaves: addresses for n clients, or
\* contexts with or without the list of free clients and the statistics.
CutShort(k, n) ==
  {Addressed(k, n), WithContexts(k),
   [WithContexts(k) EXCEPT !.free_clients_count = bc[k].free_clients_count],
   Cut(k)}

\* ipv6_increment passes no address beyond the scope.  Shared addresses are
\* those of the whole batch, whose scope create_ip_addrs has tested.
Fits(k) ==
  master.ipv6 /\ master.ip_shared_num = 0 => EndAddress(k) <= LastAddress

\* An iteration.
cut_subbatch ==
  /\ pc = "cutting"
  /\ i < threads
  /\ Fits(i)
  /\ bc' = [bc EXCEPT ![i] = Cut(i)]
  /\ i' = i + 1
  /\ UNCHANGED <<pc, threads, conf, master, iface, created, running, ended>>

\* ipv6_increment fails, having zeroed the address; the arrays of the batch
\* are still those it had.
cut_out_of_scope ==
  /\ pc = "cutting"
  /\ i < threads
  /\ ~Fits(i)
  /\ bc' = [bc EXCEPT ![i] =
              IF FirstAddress(i) > LastAddress
              THEN [Sized(i) EXCEPT !.ip_addr_min = 0, !.ip_addr_max = bc[i].ip_addr_max]
              ELSE [Sized(i) EXCEPT !.ip_addr_max = 0]]
  /\ pc' = "start"
  /\ i' = 0
  /\ UNCHANGED <<threads, conf, master, iface, created, running, ended>>

\* An allocation fails.
cut_fails(n) ==
  /\ pc = "cutting"
  /\ i < threads
  /\ Fits(i)
  /\ n <= ClientsPerThread
  /\ \E b \in CutShort(i, n) : bc' = [bc EXCEPT ![i] = b]
  /\ pc' = "start"
  /\ i' = 0
  /\ UNCHANGED <<threads, conf, master, iface, created, running, ended>>

cut_ends ==
  /\ pc = "cutting"
  /\ i = threads
  /\ pc' = "start"
  /\ i' = 0
  /\ UNCHANGED <<threads, conf, bc, master, iface, created, running, ended>>
-----------------------------------------------------------------------------
\* main starts the next thread, or runs the only batch itself.
BatchesNum == IF threads = 0 THEN 1 ELSE threads

start_thread ==
  /\ pc = "start"
  /\ i < BatchesNum /\ i < BATCHES_MAX_NUM
  /\ bc' = [bc EXCEPT ![i].batch_id = i]
  /\ created' = created \cup {i}
  /\ i' = i + 1
  /\ UNCHANGED <<pc, threads, conf, master, iface, running, ended>>

\* pthread_create fails, which main only reports.
start_thread_fails ==
  /\ pc = "start"
  /\ i < threads /\ i < BATCHES_MAX_NUM
  /\ bc' = [bc EXCEPT ![i].batch_id = i]
  /\ i' = i + 1
  /\ UNCHANGED <<pc, threads, conf, master, iface, created, running, ended>>

start_ends ==
  /\ pc = "start"
  /\ i = BatchesNum
  /\ pc' = "join"
  /\ UNCHANGED <<threads, conf, bc, master, i, iface, created, running, ended>>

\* More threads than batch contexts: what lies beyond bc_arr is written.
start_beyond ==
  /\ pc = "start"
  /\ i < BatchesNum /\ i = BATCHES_MAX_NUM
  /\ pc' = "crashed"
  /\ UNCHANGED <<threads, conf, bc, master, i, iface, created, running, ended>>

\* The thread reads its first context; if there are none, a null pointer.
batch_function(k) ==
  /\ pc \in {"start", "join"}
  /\ k \in created \ (running \cup ended)
  /\ IF bc[k].cctx_array = 0
     THEN pc' = "crashed" /\ running' = running
     ELSE pc' = pc /\ running' = running \cup {k}
  /\ UNCHANGED <<threads, conf, bc, master, i, iface, created, ended>>

\* batch_function gives back contexts and operational statistics.
GivenBack(b) == [b EXCEPT !.cctx_array = 0, !.op_url_num = 0]

\* It returns before it loads: a file cannot be created, or the handles not be
\* initialized, which only the latter makes it give anything back for.
batch_function_fails(k) ==
  /\ pc \in {"start", "join"}
  /\ k \in created \ (running \cup ended)
  /\ bc' \in {bc, [bc EXCEPT ![k] = GivenBack(@)]}
  /\ ended' = ended \cup {k}
  /\ UNCHANGED <<pc, threads, conf, master, i, iface, created, running>>

\* It returns after the load.
free_batch_data_allocations(k) ==
  /\ pc \in {"start", "join"}
  /\ k \in running
  /\ bc' = [bc EXCEPT ![k] = GivenBack(@)]
  /\ running' = running \ {k}
  /\ ended' = ended \cup {k}
  /\ UNCHANGED <<pc, threads, conf, master, i, iface, created>>

\* main has joined every thread.
main_joined ==
  /\ pc = "join"
  /\ created = ended
  /\ pc' = "exited"
  /\ UNCHANGED <<threads, conf, bc, master, i, iface, created, running, ended>>

\* ... or joins one that was never started: its id is not initialized.
join_crashes ==
  /\ pc = "join"
  /\ created # 0 .. BatchesNum - 1
  /\ pc' = "crashed"
  /\ UNCHANGED <<threads, conf, bc, master, i, iface, created, running, ended>>

\* A thread calls exit.
process_exits ==
  /\ pc \in {"start", "join"}
  /\ pc' = "exited"
  /\ UNCHANGED <<threads, conf, bc, master, i, iface, created, running, ended>>

\* ... or a count through a null pointer ends the process.
process_crashes ==
  /\ pc \in {"start", "join"}
  /\ pc' = "crashed"
  /\ UNCHANGED <<threads, conf, bc, master, i, iface, created, running, ended>>

\* What main and its threads do before the batches are loaded, and after.
StartNext ==
  \/ parse_config_file
  \/ main_returns
  \/ create_ip_addrs
  \/ create_thr_subbatches
  \/ cut_subbatch
  \/ cut_out_of_scope
  \/ \E n \in 0 .. master.client_num_max : cut_fails(n)
  \/ cut_ends
  \/ start_thread
  \/ start_thread_fails
  \/ start_ends
  \/ start_beyond
  \/ \E k \in Slots : batch_function(k) \/ batch_function_fails(k)
  \/ main_joined
  \/ join_crashes

\* What a thread does once it loads.
ThreadEnds ==
  \/ process_exits
  \/ process_crashes
  \/ \E k \in Slots : free_batch_data_allocations(k)

StartSpec == StartInit /\ [][StartNext \/ ThreadEnds]_startVars
-----------------------------------------------------------------------------
(***************************************************************************)
(* Properties.                                                             *)
(***************************************************************************)

StartTypes ==
  /\ pc \in {"parse", "addresses", "cut", "cutting", "start", "join",
             "failed", "crashed", "exited"}
  /\ threads \in ThreadNums
  /\ conf \in Configs
  /\ bc \in [Slots -> Batch]
  /\ master \in Batch
  /\ i \in Nat
  /\ iface \subseteq Nat
  /\ created \subseteq Slots
  /\ running \subseteq created /\ ended \subseteq created \ running

\* Whatever failed before and was ignored, a batch that runs has at least one
\* client, a context for each, and no more clients to start with than it has.
RunningEquipped ==
  \A k \in running :
    /\ bc[k].client_num_max \in 1 .. bc[k].cctx_array
    /\ bc[k].client_num_start \in 0 .. bc[k].client_num_max

\* README, IP_ADDR_MAX: "a dedicated IP for each client".  Unless addresses are
\* shared, no two clients of the batches that run have the same.
AddressesDedicated ==
  SharedNum(conf) = 0 =>
    \A k, l \in running :
      \A p \in 1 .. Len(bc[k].ip_addr_array), q \in 1 .. Len(bc[l].ip_addr_array) :
        bc[k].ip_addr_array[p] = bc[l].ip_addr_array[q] => k = l /\ p = q

\* The addresses of the clients were added to the interface before the batch
\* was cut.  The exception is an IPv6 range that is not shared: a sub-batch
\* leaves out one address, so later ones get addresses that nobody added.
AddressesAdded ==
  threads = 0 \/ ~conf.ipv6 \/ SharedNum(conf) # 0 =>
    \A k \in running : AddressSet(bc[k]) \subseteq iface

\* Cutting invents no clients: once threads are started, all batches together
\* have no more than the configuration asks for.
NoneInvented ==
  created # {} =>
    Sum([k \in Slots |-> IF k \in created THEN bc[k].client_num_max ELSE 0])
      <= conf.client_num_max
=============================================================================
