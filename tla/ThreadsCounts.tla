---------------------------- MODULE ThreadsCounts ----------------------------
(***************************************************************************)
(* Sums over the batches, for every number of threads and batches and      *)
(* every configuration: cutting a batch invents no clients, and what the   *)
(* leader has collected and what is still in the deltas is what the        *)
(* clients have counted.                                                   *)
(***************************************************************************)
EXTENDS ThreadsProofs, NatLemmas

(***************************************************************************)
(* Sums.                                                                   *)
(***************************************************************************)

Last == BATCHES_MAX_NUM - 1

\* The sum is the last of the partial sums.
LEMMA SumIsPartial ==
  ASSUME NEW g \in [Slots -> Int]
  PROVE  \E f : ArePartialSums(f, g, Last) /\ Sum(g) = f[Last]
<1> DEFINE Goes(f) == f = [k \in Slots |-> IF k = 0 THEN g[0] ELSE f[k - 1] + g[k]]
           u == CHOOSE f : Goes(f)
<1>1. Last \in Nat /\ Slots = 0 .. Last BY StartAssumption DEF Last, Slots
<1>2. PICK f : ArePartialSums(f, g, Last) BY <1>1, PartialSums
<1>3. Goes(f)
  <2>1. f = [k \in Slots |-> f[k]] BY <1>1, <1>2 DEF ArePartialSums
  <2>2. \A k \in Slots : f[k] = IF k = 0 THEN g[0] ELSE f[k - 1] + g[k]
    BY <1>1, <1>2 DEF ArePartialSums
  <2>3. QED BY <2>1, <2>2
<1>4. Goes(u)
  <2> HIDE DEF Goes
  <2>1. QED BY <1>3
<1>5. Sum(g) = u[Last] BY Zenon DEF Sum, Last
<1> HIDE DEF u
<1>6. ASSUME \E k \in 0 .. Last : u[k] # f[k] PROVE FALSE
  <2> DEFINE D == {k \in 0 .. Last : u[k] # f[k]}
  <2>1. D \in SUBSET Nat /\ D # {} BY <1>1, <1>6
  <2>2. PICK m \in D : \A k \in D : m <= k
    <3> HIDE DEF D
    <3>1. QED BY <2>1, SmallestOfNats
  <2>3. m \in Slots /\ m \in Nat /\ m \in 0 .. Last BY <1>1
  <2>4. m # 0 => m - 1 \in 0 .. Last /\ m - 1 \notin D BY <1>1, <2>2, <2>3
  <2>5. m # 0 => u[m - 1] = f[m - 1] BY <2>4
  <2>6. u[m] = IF m = 0 THEN g[0] ELSE u[m - 1] + g[m] BY <1>4, <2>3
  <2>7. f[m] = IF m = 0 THEN g[0] ELSE f[m - 1] + g[m] BY <1>3, <2>3
  <2>8. u[m] = f[m] BY <2>5, <2>6, <2>7
  <2>9. QED BY <2>8
<1>7. u[Last] = f[Last] BY <1>1, <1>6
<1>8. QED BY <1>2, <1>5, <1>7

\* A sum is an integer.
LEMMA SumType ==
  ASSUME NEW g \in [Slots -> Int]
  PROVE  Sum(g) \in Int
<1>1. Last \in Nat BY StartAssumption DEF Last
<1>2. PICK f : ArePartialSums(f, g, Last) /\ Sum(g) = f[Last] BY SumIsPartial
<1>3. f[Last] \in Int BY <1>1, <1>2 DEF ArePartialSums
<1>4. QED BY <1>2, <1>3

\* It changes by as much as one of its values does.
LEMMA OneChanged ==
  ASSUME NEW g \in [Slots -> Int], NEW h \in [Slots -> Int], NEW j \in Slots,
         \A k \in Slots : k # j => h[k] = g[k]
  PROVE  Sum(h) = Sum(g) + (h[j] - g[j])
<1>1. Last \in Nat /\ Slots = 0 .. Last BY StartAssumption DEF Last, Slots
<1>2. PICK f : ArePartialSums(f, g, Last) /\ Sum(g) = f[Last] BY SumIsPartial
<1>3. PICK e : ArePartialSums(e, h, Last) /\ Sum(h) = e[Last] BY SumIsPartial
<1>4. e[Last] - f[Last] = h[j] - g[j]
  <2>1. DifferAt(g, h, j, Last) /\ j \in 0 .. Last BY <1>1 DEF DifferAt
  <2>2. QED BY <1>1, <1>2, <1>3, <2>1, SumChanged
<1>5. Sum(g) \in Int /\ Sum(h) \in Int /\ h[j] \in Int /\ g[j] \in Int BY SumType
<1>6. QED BY <1>2, <1>3, <1>4, <1>5

\* It is the same if two of them change by opposite amounts.
LEMMA TwoChanged ==
  ASSUME NEW g \in [Slots -> Int], NEW h \in [Slots -> Int],
         NEW j \in Slots, NEW l \in Slots, j # l,
         h[j] - g[j] = g[l] - h[l],
         \A k \in Slots : k # j /\ k # l => h[k] = g[k]
  PROVE  Sum(h) = Sum(g)
<1> DEFINE m == [g EXCEPT ![j] = h[j]]
<1>1. m \in [Slots -> Int] /\ m[j] = h[j] /\ \A k \in Slots : k # j => m[k] = g[k]
  OBVIOUS
<1> HIDE DEF m
<1>2. Sum(m) = Sum(g) + (m[j] - g[j]) BY <1>1, OneChanged
<1>3. \A k \in Slots : k # l => h[k] = m[k] BY <1>1
<1>4. Sum(h) = Sum(m) + (h[l] - m[l]) BY <1>1, <1>3, OneChanged
<1>5. Sum(g) \in Int /\ Sum(m) \in Int /\ Sum(h) \in Int BY <1>1, SumType
<1>6. h[j] \in Int /\ g[j] \in Int /\ h[l] \in Int /\ g[l] \in Int OBVIOUS
<1>7. QED BY <1>1, <1>2, <1>4, <1>5, <1>6

\* Of values 0 it is 0.
LEMMA SumZero ==
  ASSUME NEW g \in [Slots -> Int], \A k \in Slots : g[k] = 0
  PROVE  Sum(g) = 0
<1>1. Last \in Nat /\ Slots = 0 .. Last BY StartAssumption DEF Last, Slots
<1>2. PICK f : ArePartialSums(f, g, Last) /\ Sum(g) = f[Last] BY SumIsPartial
<1>3. g \in [0 .. Last -> Nat] BY <1>1
<1>4. f[Last] \in Nat /\ f[Last] <= 0 * 0
  <2>1. 0 \in Nat OBVIOUS
  <2>2. \A k \in 0 .. Last : g[k] <= 0 BY <1>1
  <2>3. \A k \in 0 .. Last : k >= 0 => g[k] = 0 BY <1>1
  <2>4. QED BY <1>1, <1>2, <1>3, <2>1, <2>2, <2>3, SumBounded
<1>5. QED BY <1>2, <1>4
-----------------------------------------------------------------------------
(***************************************************************************)
(* Cutting invents no clients.                                             *)
(***************************************************************************)

\* The whole batch is the only one, or every sub-batch has its share at most.
Uncut ==
  /\ bc[0].client_num_max = conf.client_num_max
  /\ \A k \in Slots \ {0} : bc[k].client_num_max = 0

Cuts ==
  /\ threads # 0
  /\ \A k \in Slots :
       IF k < threads
       THEN bc[k].client_num_max \in 0 .. conf.client_num_max \div threads
       ELSE bc[k].client_num_max = 0

Divided ==
  /\ pc \notin {"parse", "failed"} =>
       /\ conf.client_num_max \in Nat
       /\ Uncut \/ Cuts
       /\ pc = "cutting" => IF i = 0 THEN Uncut ELSE Cuts
  /\ pc \in {"parse", "failed"} => created = {}

\* It is kept where no batch gets another number of clients.
LEMMA DividedKept ==
  ASSUME Divided, pc \notin {"parse", "failed"},
         pc' # "cutting" \/ (pc = "cutting" /\ i' = i),
         pc' \notin {"parse", "failed"},
         \A k \in Slots : bc'[k].client_num_max = bc[k].client_num_max,
         conf' = conf, threads' = threads
  PROVE  Divided'
<1>1. 0 \in Slots BY FirstSlot
<1>2. Uncut' <=> Uncut BY <1>1 DEF Uncut
<1>3. Cuts' <=> Cuts BY DEF Cuts
<1>4. QED BY <1>2, <1>3 DEF Divided

\* An iteration, at whatever point it ends, gives a sub-batch its share.
LEMMA DividedIteration ==
  ASSUME StartInv, Divided, pc = "cutting", i < threads,
         NEW b, b.client_num_max = ClientsPerThread, bc' = [bc EXCEPT ![i] = b],
         UNCHANGED <<threads, conf>>,
         \/ pc' = "start" /\ i' = 0
         \/ pc' = "cutting" /\ i' = i + 1
  PROVE  Divided'
<1>1. /\ conf \in Configs /\ Cutting /\ threads \in Nat
      /\ bc \in [Slots -> Batch] /\ i \in Slots
  BY IterationContext
<1>2. /\ conf.client_num_max \in Nat
      /\ threads # 0 /\ i \in Nat /\ threads <= BATCHES_MAX_NUM
      /\ master.client_num_max = conf.client_num_max
  BY <1>1, WholeFields DEF Cutting, ConfValid, Slots
<1> DEFINE q == conf.client_num_max \div threads
<1>3. q \in Nat /\ b.client_num_max = q
  BY <1>1, <1>2, Quotient DEF ClientsPerThread
<1>4. \A k \in Slots : bc'[k] = IF k = i THEN b ELSE bc[k] BY <1>1
<1>5. ASSUME NEW k \in Slots
      PROVE  IF k < threads THEN bc'[k].client_num_max \in 0 .. q
             ELSE bc'[k].client_num_max = 0
  <2>1. CASE k = i BY <1>3, <1>4, <2>1
  <2>2. CASE k # i
    <3>1. bc'[k] = bc[k] BY <1>4, <2>2
    <3>2. CASE i = 0
      <4>1. Uncut BY <3>2 DEF Divided
      <4>2. bc[k].client_num_max = 0 BY <2>2, <3>2, <4>1 DEF Uncut
      <4>3. QED BY <1>3, <3>1, <4>2
    <3>3. CASE i # 0
      <4>1. Cuts BY <3>3 DEF Divided
      <4>2. QED BY <3>1, <4>1 DEF Cuts
    <3>4. QED BY <3>2, <3>3
  <2>3. QED BY <2>1, <2>2
<1>6. Cuts' BY <1>2, <1>5 DEF Cuts
<1>7. pc' = "cutting" => i' # 0 BY <1>2
<1>8. QED BY <1>2, <1>6, <1>7 DEF Divided

\* What an iteration has given its batch is the share, at whatever point it
\* fails.
LEMMA IterationShare ==
  ASSUME StartInv, pc = "cutting", i < threads,
         NEW n \in Nat, NEW b \in CutShort(i, n)
  PROVE  b.client_num_max = ClientsPerThread
<1>1. Sized(i) = [bc[i] EXCEPT !.client_num_max = ClientsPerThread,
                               !.client_num_start = ShareOf(master.client_num_start),
                               !.clients_rampup_inc = ShareOf(master.clients_rampup_inc),
                               !.ipv6 = master.ipv6,
                               !.ip_addr_min = FirstAddress(i),
                               !.ip_addr_max = EndAddress(i)]
  BY DEF Sized
<1>2. Unaddressed \in Batch /\ Unaddressed.client_num_max = ClientsPerThread
      /\ ClientsPerThread \in Nat
  BY IterationContext, SizedFields
<1>3. ASSUME NEW m \in Nat
      PROVE  Addressed(i, m) \in Batch /\ Addressed(i, m).client_num_max = ClientsPerThread
  BY <1>2, WithAddressesFields DEF Addressed, Unaddressed
<1>4. WithContexts(i).client_num_max = ClientsPerThread
  <2>1. PICK a \in Batch : a = Addressed(i, ClientsPerThread)
                           /\ a.client_num_max = ClientsPerThread
    BY <1>2, <1>3
  <2>2. QED BY <2>1 DEF WithContexts, Batch
<1>5. QED
  <2>1. CASE b = Addressed(i, n) BY <1>3, <2>1
  <2>2. CASE b = WithContexts(i) BY <1>4, <2>2
  <2>3. CASE b = [WithContexts(i) EXCEPT !.free_clients_count = bc[i].free_clients_count]
    BY <1>4, <2>3
  <2>4. CASE b = Cut(i) BY <1>4, <2>4 DEF Cut
  <2>5. QED BY <2>1, <2>2, <2>3, <2>4 DEF CutShort

\* The shares are kept from step to step.
LEMMA DividedInductive ==
  StartInv /\ Divided /\ [StartStep]_startVars => Divided'
<1> SUFFICES ASSUME StartInv, Divided, [StartStep]_startVars PROVE Divided' OBVIOUS
<1>0. bc \in [Slots -> Batch] /\ 0 \in Slots /\ conf \in Configs
      /\ running \subseteq Slots /\ created \subseteq Slots
  BY FirstSlot DEF StartInv, StartTypes
<1>1. CASE parse_config_file
  <2>1. ConfValid(conf) BY <1>0, <1>1, Validated DEF parse_config_file
  <2>2. /\ bc' = [bc EXCEPT ![0] = post_validate_init(conf)]
        /\ pc' = "addresses" /\ conf' = conf /\ pc = "parse"
    BY <1>1 DEF parse_config_file
  <2>3. \A k \in Slots \ {0} : bc'[k] = ZeroBatch
    BY <1>0, <2>2 DEF StartInv, Stages
  <2>4. bc'[0].client_num_max = conf.client_num_max
    BY <1>0, <2>2 DEF post_validate_init
  <2>5. Uncut' BY <2>2, <2>3, <2>4 DEF Uncut, ZeroBatch
  <2>6. QED BY <2>1, <2>2, <2>5 DEF Divided, ConfValid
<1>2. CASE create_ip_addrs
  <2>1. /\ bc' = [bc EXCEPT ![0] = WithAddresses(bc[0], bc[0].client_num_max)]
        /\ pc = "addresses" /\ pc' \in {"start", "cut"}
        /\ conf' = conf /\ threads' = threads
    BY <1>2 DEF create_ip_addrs
  <2>2. bc'[0].client_num_max = bc[0].client_num_max
    BY <1>0, <2>1 DEF WithAddresses
  <2>3. \A k \in Slots : bc'[k].client_num_max = bc[k].client_num_max
    BY <1>0, <2>1, <2>2
  <2>4. pc \notin {"parse", "failed"} /\ pc' \notin {"cutting", "parse", "failed"}
    BY <2>1
  <2>5. QED BY <2>1, <2>3, <2>4, DividedKept
<1>3. CASE create_thr_subbatches
  <2>1. /\ pc = "cut" /\ pc' \in {"start", "cutting"}
        /\ UNCHANGED <<threads, conf, bc, i>>
    BY <1>3 DEF create_thr_subbatches
  <2>2. /\ i = 0 /\ ConfValid(conf) /\ bc[0] = Whole
        /\ \A k \in Slots \ {0} : bc[k] = ZeroBatch
    BY <2>1 DEF StartInv, Stages
  <2>3. bc[0].client_num_max = conf.client_num_max
    BY <1>0, <2>2, WholeFields
  <2>4. Uncut' BY <2>1, <2>2, <2>3 DEF Uncut, ZeroBatch
  <2>5. QED BY <2>1, <2>2, <2>4 DEF Divided, ConfValid
<1>4. CASE cut_subbatch
  <2>1. /\ pc = "cutting" /\ i < threads
        /\ bc' = [bc EXCEPT ![i] = Cut(i)] /\ i' = i + 1 /\ pc' = pc
        /\ UNCHANGED <<threads, conf>>
    BY <1>4 DEF cut_subbatch
  <2>2. Cut(i) \in CutShort(i, ClientsPerThread) BY DEF CutShort
  <2>3. ClientsPerThread \in Nat BY <2>1, IterationContext
  <2>4. Cut(i).client_num_max = ClientsPerThread
    BY <2>1, <2>2, <2>3, IterationShare
  <2>5. QED BY <2>1, <2>4, DividedIteration
<1>5. CASE cut_out_of_scope
  <2>1. /\ pc = "cutting" /\ i < threads /\ i' = 0 /\ pc' = "start"
        /\ UNCHANGED <<threads, conf>>
    BY <1>5 DEF cut_out_of_scope
  <2>2. /\ Sized(i) \in Batch /\ Sized(i).client_num_max = ClientsPerThread
    BY <2>1, IterationContext, SizedFields
  <2>3. PICK b : bc' = [bc EXCEPT ![i] = b] /\ b.client_num_max = ClientsPerThread
    <3>1. [Sized(i) EXCEPT !.ip_addr_min = 0, !.ip_addr_max = bc[i].ip_addr_max]
            .client_num_max = ClientsPerThread
      BY <2>2 DEF Batch
    <3>2. [Sized(i) EXCEPT !.ip_addr_max = 0].client_num_max = ClientsPerThread
      BY <2>2 DEF Batch
    <3>3. CASE FirstAddress(i) > LastAddress
      BY <1>5, <3>1, <3>3 DEF cut_out_of_scope
    <3>4. CASE ~(FirstAddress(i) > LastAddress)
      BY <1>5, <3>2, <3>4 DEF cut_out_of_scope
    <3>5. QED BY <3>3, <3>4
  <2>4. QED BY <2>1, <2>3, DividedIteration
<1>6. ASSUME NEW n \in 0 .. master.client_num_max, cut_fails(n) PROVE Divided'
  <2>1. /\ pc = "cutting" /\ i < threads /\ i' = 0 /\ pc' = "start"
        /\ UNCHANGED <<threads, conf>>
    BY <1>6 DEF cut_fails
  <2>2. PICK b \in CutShort(i, n) : bc' = [bc EXCEPT ![i] = b]
    BY <1>6 DEF cut_fails
  <2>3. n \in Nat OBVIOUS
  <2>4. b.client_num_max = ClientsPerThread BY <2>1, <2>2, <2>3, IterationShare
  <2>5. QED BY <2>1, <2>2, <2>4, DividedIteration
<1>7. CASE start_thread \/ start_thread_fails
  <2>1. /\ pc = "start" /\ pc' = pc /\ conf' = conf /\ threads' = threads
        /\ bc' = [bc EXCEPT ![i].batch_id = i]
    BY <1>7 DEF start_thread, start_thread_fails
  <2>2. \A k \in Slots : bc'[k].client_num_max = bc[k].client_num_max
    BY <1>0, <2>1 DEF Batch
  <2>3. pc \notin {"parse", "failed"} /\ pc' \notin {"cutting", "parse", "failed"}
    BY <2>1
  <2>4. QED BY <2>1, <2>2, <2>3, DividedKept
<1>8. ASSUME NEW k \in Slots,
             \/ free_batch_data_allocations(k)
             \/ batch_function_fails(k)
      PROVE  Divided'
  <2>1. /\ pc \in {"start", "join"} /\ pc' = pc /\ conf' = conf /\ threads' = threads
        /\ bc' = bc \/ bc' = [bc EXCEPT ![k] = GivenBack(bc[k])]
    BY <1>0, <1>8 DEF free_batch_data_allocations, batch_function_fails
  <2>2. GivenBack(bc[k]).client_num_max = bc[k].client_num_max
    BY <1>0 DEF GivenBack, Batch
  <2>3. \A l \in Slots : bc'[l].client_num_max = bc[l].client_num_max
    BY <1>0, <2>1, <2>2
  <2>4. pc \notin {"parse", "failed"} /\ pc' \notin {"cutting", "parse", "failed"}
    BY <2>1
  <2>5. QED BY <2>1, <2>3, <2>4, DividedKept
<1>9. CASE main_returns
  BY <1>9 DEF main_returns, StartInv, Stages, Divided
<1>10. CASE \/ cut_ends \/ start_ends \/ start_beyond \/ main_joined \/ join_crashes
            \/ process_exits \/ process_crashes
            \/ \E k \in Slots : batch_function(k)
  <2>1. /\ pc \in {"cutting", "start", "join"} /\ pc' \in {"start", "join", "crashed", "exited"}
        /\ UNCHANGED <<conf, threads, bc>>
    BY <1>10 DEF cut_ends, start_ends, start_beyond, main_joined, join_crashes,
       process_exits, process_crashes, batch_function
  <2>2. pc \notin {"parse", "failed"} /\ pc' \notin {"cutting", "parse", "failed"}
    BY <2>1
  <2>3. QED BY <2>1, <2>2, DividedKept
<1>11. CASE UNCHANGED startVars
  <2>1. Uncut' <=> Uncut BY <1>11 DEF Uncut, startVars
  <2>2. Cuts' <=> Cuts BY <1>11 DEF Cuts, startVars
  <2>3. UNCHANGED <<pc, conf, i, created>> BY <1>11 DEF startVars
  <2>4. QED BY <2>1, <2>2, <2>3 DEF Divided
<1>12. QED
  BY <1>1, <1>2, <1>3, <1>4, <1>5, <1>6, <1>7, <1>8, <1>9, <1>10, <1>11
  DEF StartStep, StartNext, ThreadEnds

\* No clients are invented: neither by cutting a batch nor by a cutting that
\* fails (loader.c:1999).
THEOREM ClientsNotInvented == Spec => []NoneInvented
<1>1. Init => Divided BY DEF Init, StartInit, Divided
<1>2. Inv /\ Divided /\ [Next]_vars => Divided'
  BY StepsOfStart, DividedInductive DEF Inv
<1>3. ASSUME Inv, Divided PROVE NoneInvented
  <2> SUFFICES ASSUME created # {}
               PROVE  Sum([k \in Slots |-> IF k \in created THEN bc[k].client_num_max
                                           ELSE 0]) <= conf.client_num_max
    BY DEF NoneInvented
  <2> DEFINE g == [k \in Slots |-> IF k \in created THEN bc[k].client_num_max ELSE 0]
  <2>1. pc \notin {"parse", "failed"}
    BY <1>3 DEF Divided
  <2>2. conf.client_num_max \in Nat /\ (Uncut \/ Cuts) BY <1>3, <2>1 DEF Divided
  <2>3. threads \in Nat BY <1>3, StartAssumption DEF Inv, StartInv, StartTypes
  <2>4. PICK q \in Nat, t \in Nat :
          /\ t * q <= conf.client_num_max
          /\ \A k \in Slots : g[k] \in 0 .. q /\ (k >= t => g[k] = 0)
    <3>1. CASE Uncut
      <4>1. 1 * conf.client_num_max <= conf.client_num_max BY <2>2
      <4>2. \A k \in Slots : /\ g[k] \in 0 .. conf.client_num_max
                             /\ k >= 1 => g[k] = 0
        BY <2>2, <3>1 DEF Uncut
      <4> HIDE DEF g
      <4>3. QED BY <2>2, <4>1, <4>2
    <3>2. CASE Cuts
      <4> DEFINE q == conf.client_num_max \div threads
      <4>1. threads \in Nat \ {0} BY <2>3, <3>2 DEF Cuts
      <4>2. q \in Nat /\ threads * q <= conf.client_num_max
        BY <2>2, <4>1, Quotient
      <4>3. \A k \in Slots : IF k < threads THEN bc[k].client_num_max \in 0 .. q
                             ELSE bc[k].client_num_max = 0
        BY <3>2 DEF Cuts
      <4> HIDE DEF q
      <4>4. Slots \subseteq Nat BY DEF Slots
      <4>5. \A k \in Slots : g[k] \in 0 .. q /\ (k >= threads => g[k] = 0)
        BY <2>3, <4>2, <4>3, <4>4
      <4> HIDE DEF g
      <4>6. QED BY <2>3, <4>2, <4>5
    <3>3. QED BY <2>2, <3>1, <3>2
  <2>5. DOMAIN g = Slots /\ g = [k \in Slots |-> g[k]] OBVIOUS
  <2> HIDE DEF g
  <2>6. g \in [Slots -> Nat] BY <2>4, <2>5
  <2>7. Last \in Nat /\ Slots = 0 .. Last BY StartAssumption DEF Last, Slots
  <2>8. PICK f : ArePartialSums(f, g, Last) /\ Sum(g) = f[Last]
    BY <2>6, SumIsPartial
  <2>9. /\ g \in [0 .. Last -> Nat]
        /\ \A k \in 0 .. Last : g[k] <= q
        /\ \A k \in 0 .. Last : k >= t => g[k] = 0
    BY <2>4, <2>6, <2>7
  <2>10. f[Last] \in Nat /\ f[Last] <= t * q
    BY <2>7, <2>8, <2>9, SumBounded
  <2>11. t * q \in Nat OBVIOUS
  <2>12. Sum(g) <= conf.client_num_max BY <2>2, <2>4, <2>8, <2>10, <2>11
  <2>13. QED BY <2>12 DEF g
<1>4. QED BY <1>1, <1>2, <1>3, ThreadsInvariant, PTL DEF Spec
-----------------------------------------------------------------------------
(***************************************************************************)
(* The batches that have counters of urls.                                 *)
(***************************************************************************)

\* A batch that is started has its number.
Numbered == \A k \in created : bc[k].batch_id = k

\* Until a thread ends, those that have counters of urls come first.
UrlsFirst ==
  ended = {} =>
    /\ \A k \in Slots : bc[k].op_url_num \in {0, conf.urls_num}
    /\ \A k, l \in Slots : k < l /\ bc[k].op_url_num = 0 => bc[l].op_url_num = 0
    /\ pc = "cutting" => \A k \in Slots : k < i => bc[k].op_url_num = conf.urls_num

\* That is kept where no batch gets or loses counters of urls.
LEMMA UrlsFirstKept ==
  ASSUME UrlsFirst, ended' = ended,
         pc' # "cutting" \/ (pc = "cutting" /\ i' = i),
         \A k \in Slots : bc'[k].op_url_num = bc[k].op_url_num,
         conf' = conf
  PROVE  UrlsFirst'
BY DEF UrlsFirst

\* Giving addresses takes none away.
LEMMA AddressesNoUrls ==
  ASSUME NEW b \in Batch, NEW n
  PROVE  WithAddresses(b, n).op_url_num = b.op_url_num
<1> DEFINE arr == [j \in 1 .. n |-> Address(b, j - 1)]
           s == SharedIndexAfter(b, n)
<1>1. WithAddresses(b, n) = [b EXCEPT !.ip_addr_array = arr, !.shared_index = s]
  BY DEF WithAddresses
<1> HIDE DEF arr, s
<1>2. QED BY <1>1 DEF Batch

\* What an iteration has given its batch, at whatever point it ends.
LEMMA IterationUrls ==
  ASSUME StartInv, pc = "cutting", i < threads
  PROVE  /\ Sized(i).op_url_num = bc[i].op_url_num
         /\ \A n \in Nat : \A b \in CutShort(i, n) :
              b.op_url_num \in {bc[i].op_url_num, conf.urls_num}
         /\ Cut(i).op_url_num = conf.urls_num
<1>1. /\ Sized(i) \in Batch /\ Unaddressed \in Batch /\ bc[i] \in Batch
      /\ ClientsPerThread \in Nat
  BY IterationContext, SizedFields
<1>2. Sized(i).op_url_num = bc[i].op_url_num
  <2> DEFINE q == ClientsPerThread
             s == ShareOf(master.client_num_start)
             r == ShareOf(master.clients_rampup_inc)
             f == FirstAddress(i)
             e == EndAddress(i)
             v == master.ipv6
  <2>1. Sized(i) = [bc[i] EXCEPT !.client_num_max = q, !.client_num_start = s,
                       !.clients_rampup_inc = r, !.ipv6 = v,
                       !.ip_addr_min = f, !.ip_addr_max = e]
    BY DEF Sized
  <2> HIDE DEF q, s, r, f, e, v
  <2>2. QED BY <1>1, <2>1 DEF Batch
<1>3. Unaddressed.op_url_num = bc[i].op_url_num
  BY <1>1, <1>2 DEF Unaddressed, Batch
<1>4. ASSUME NEW m \in Nat
      PROVE  Addressed(i, m) \in Batch /\ Addressed(i, m).op_url_num = bc[i].op_url_num
  <2>1. PICK u \in Batch : u = Unaddressed BY <1>1
  <2>2. Addressed(i, m) = WithAddresses(u, m)
    BY <2>1 DEF Addressed, Unaddressed
  <2>3. WithAddresses(u, m) \in Batch /\ WithAddresses(u, m).op_url_num = u.op_url_num
    BY WithAddressesFields, AddressesNoUrls
  <2>4. QED BY <1>3, <2>1, <2>2, <2>3
<1>5. WithContexts(i).op_url_num = bc[i].op_url_num
  <2>1. PICK a \in Batch : a = Addressed(i, ClientsPerThread)
                           /\ a.op_url_num = bc[i].op_url_num
    BY <1>1, <1>4
  <2>2. QED BY <2>1 DEF WithContexts, Batch
<1>6. Cut(i).op_url_num = conf.urls_num
  <2>1. PICK a \in Batch : a = Addressed(i, ClientsPerThread) BY <1>1, <1>4
  <2>2. QED BY <2>1 DEF Cut, WithContexts, Batch
<1>7. ASSUME NEW n \in Nat, NEW b \in CutShort(i, n)
      PROVE  b.op_url_num \in {bc[i].op_url_num, conf.urls_num}
  <2>1. CASE b = Addressed(i, n) BY <1>4, <2>1
  <2>2. CASE b = WithContexts(i) BY <1>5, <2>2
  <2>3. CASE b = [WithContexts(i) EXCEPT !.free_clients_count = bc[i].free_clients_count]
    BY <1>5, <2>3
  <2>4. CASE b = Cut(i) BY <1>6, <2>4
  <2>5. QED BY <2>1, <2>2, <2>3, <2>4 DEF CutShort
<1>8. QED BY <1>2, <1>6, <1>7

\* An iteration gives counters of urls to the next batch, or fails to.
LEMMA UrlsFirstIteration ==
  ASSUME StartInv, UrlsFirst, pc = "cutting", i < threads,
         NEW b, b.op_url_num = bc[i].op_url_num \/ b.op_url_num = conf.urls_num,
         bc' = [bc EXCEPT ![i] = b], UNCHANGED <<conf, ended>>,
         \/ pc' = "start"
         \/ pc' = "cutting" /\ i' = i + 1 /\ b.op_url_num = conf.urls_num
  PROVE  UrlsFirst'
<1>1. /\ conf \in Configs /\ Cutting /\ bc \in [Slots -> Batch] /\ i \in Slots
      /\ ended = {}
  BY IterationContext
<1>2. \A k \in Slots : bc'[k] = IF k = i THEN b ELSE bc[k] BY <1>1
<1>3. Slots \subseteq Nat BY DEF Slots
<1>4. \A k \in Slots : k < i => bc[k].op_url_num = conf.urls_num
  BY <1>1 DEF UrlsFirst
<1>5. \A k \in Slots : k > i => bc[k].op_url_num = 0
  <2>1. \A k \in Slots : k > i => bc[k] = ZeroBatch
    BY <1>1, <1>3 DEF Cutting
  <2>2. QED BY <2>1 DEF ZeroBatch
<1>6. bc[i].op_url_num \in {0, conf.urls_num} BY <1>1 DEF UrlsFirst
<1>7. \A k \in Slots : bc'[k].op_url_num =
        IF k < i THEN conf.urls_num ELSE IF k = i THEN b.op_url_num ELSE 0
  BY <1>1, <1>2, <1>3, <1>4, <1>5
<1>8. b.op_url_num \in {0, conf.urls_num} BY <1>6
<1>9. \A k, l \in Slots : k < l /\ bc'[k].op_url_num = 0 => bc'[l].op_url_num = 0
  BY <1>1, <1>3, <1>7, <1>8
<1>10. \A k \in Slots : bc'[k].op_url_num \in {0, conf.urls_num} BY <1>7, <1>8
<1>11. pc' = "cutting" => \A k \in Slots : k < i' => bc'[k].op_url_num = conf.urls_num
  <2>1. ASSUME pc' = "cutting", NEW k \in Slots, k < i'
        PROVE  bc'[k].op_url_num = conf.urls_num
    <3>1. i' = i + 1 /\ b.op_url_num = conf.urls_num BY <2>1
    <3>2. k < i \/ k = i
      <4>1. k \in Nat /\ i \in Nat /\ k < i + 1 BY <1>1, <1>3, <2>1, <3>1
      <4>2. QED BY <4>1
    <3>3. QED BY <1>1, <1>3, <1>7, <3>1, <3>2
  <2>2. QED BY <2>1
<1>12. QED BY <1>9, <1>10, <1>11 DEF UrlsFirst

\* Step by step.
LEMMA UrlsFirstInductive ==
  StartInv /\ UrlsFirst /\ [StartStep]_startVars => UrlsFirst'
<1> SUFFICES ASSUME StartInv, UrlsFirst, [StartStep]_startVars PROVE UrlsFirst' OBVIOUS
<1>0. bc \in [Slots -> Batch] /\ 0 \in Slots /\ conf \in Configs /\ Slots \subseteq Nat
  BY FirstSlot DEF StartInv, StartTypes, Slots
<1>1. CASE parse_config_file
  <2>1. /\ bc' = [bc EXCEPT ![0] = post_validate_init(conf)]
        /\ pc' = "addresses" /\ conf' = conf /\ pc = "parse"
    BY <1>1 DEF parse_config_file
  <2>2. \A k \in Slots \ {0} : bc'[k].op_url_num = 0
    BY <1>0, <2>1 DEF StartInv, Stages, ZeroBatch
  <2>3. bc'[0].op_url_num = conf.urls_num
    BY <1>0, <2>1 DEF post_validate_init
  <2>4. \A k, l \in Slots : k < l => l # 0 BY <1>0
  <2>5. QED BY <2>1, <2>2, <2>3, <2>4 DEF UrlsFirst
<1>2. CASE create_ip_addrs
  <2>1. /\ bc' = [bc EXCEPT ![0] = WithAddresses(bc[0], bc[0].client_num_max)]
        /\ pc' \in {"start", "cut"} /\ conf' = conf /\ ended' = ended
    BY <1>2 DEF create_ip_addrs
  <2>2. bc[0] \in Batch BY <1>0
  <2>3. bc'[0].op_url_num = bc[0].op_url_num BY <1>0, <2>1, <2>2, AddressesNoUrls
  <2>4. \A k \in Slots : bc'[k].op_url_num = bc[k].op_url_num
    BY <1>0, <2>1, <2>3
  <2>5. pc' # "cutting" BY <2>1
  <2>6. QED BY <2>1, <2>4, <2>5, UrlsFirstKept
<1>3. CASE create_thr_subbatches
  <2>1. pc = "cut" /\ UNCHANGED <<conf, bc, i, ended>>
    BY <1>3 DEF create_thr_subbatches
  <2>2. i = 0 BY <2>1 DEF StartInv, Stages
  <2>3. \A k \in Slots : ~(k < 0) BY <1>0
  <2>4. QED BY <2>1, <2>2, <2>3 DEF UrlsFirst
<1>4. CASE cut_subbatch
  <2>1. /\ pc = "cutting" /\ i < threads
        /\ bc' = [bc EXCEPT ![i] = Cut(i)] /\ i' = i + 1 /\ pc' = pc
        /\ UNCHANGED <<conf, ended>>
    BY <1>4 DEF cut_subbatch
  <2>2. Cut(i).op_url_num = conf.urls_num BY <2>1, IterationUrls
  <2>3. QED BY <2>1, <2>2, UrlsFirstIteration
<1>5. CASE cut_out_of_scope
  <2>1. pc = "cutting" /\ i < threads /\ pc' = "start" /\ UNCHANGED <<conf, ended>>
    BY <1>5 DEF cut_out_of_scope
  <2>2. Sized(i) \in Batch /\ Sized(i).op_url_num = bc[i].op_url_num
    BY <2>1, IterationContext, SizedFields, IterationUrls
  <2>3. PICK b : bc' = [bc EXCEPT ![i] = b] /\ b.op_url_num = bc[i].op_url_num
    <3>1. [Sized(i) EXCEPT !.ip_addr_min = 0, !.ip_addr_max = bc[i].ip_addr_max]
            .op_url_num = bc[i].op_url_num
      BY <2>2 DEF Batch
    <3>2. [Sized(i) EXCEPT !.ip_addr_max = 0].op_url_num = bc[i].op_url_num
      BY <2>2 DEF Batch
    <3>3. CASE FirstAddress(i) > LastAddress
      BY <1>5, <3>1, <3>3 DEF cut_out_of_scope
    <3>4. CASE ~(FirstAddress(i) > LastAddress)
      BY <1>5, <3>2, <3>4 DEF cut_out_of_scope
    <3>5. QED BY <3>3, <3>4
  <2>4. QED BY <2>1, <2>3, UrlsFirstIteration
<1>6. ASSUME NEW n \in 0 .. master.client_num_max, cut_fails(n) PROVE UrlsFirst'
  <2>1. pc = "cutting" /\ i < threads /\ pc' = "start" /\ UNCHANGED <<conf, ended>>
    BY <1>6 DEF cut_fails
  <2>2. PICK b \in CutShort(i, n) : bc' = [bc EXCEPT ![i] = b]
    BY <1>6 DEF cut_fails
  <2>3. n \in Nat OBVIOUS
  <2>4. b.op_url_num \in {bc[i].op_url_num, conf.urls_num}
    BY <2>1, <2>2, <2>3, IterationUrls
  <2>5. QED BY <2>1, <2>2, <2>4, UrlsFirstIteration
<1>7. CASE start_thread \/ start_thread_fails
  <2>1. /\ pc = "start" /\ pc' = pc /\ conf' = conf /\ ended' = ended
        /\ bc' = [bc EXCEPT ![i].batch_id = i]
    BY <1>7 DEF start_thread, start_thread_fails
  <2>2. \A k \in Slots : bc'[k].op_url_num = bc[k].op_url_num
    BY <1>0, <2>1 DEF Batch
  <2>3. pc' # "cutting" BY <2>1
  <2>4. QED BY <2>1, <2>2, <2>3, UrlsFirstKept
<1>8. ASSUME NEW k \in Slots, free_batch_data_allocations(k) \/ batch_function_fails(k)
      PROVE  UrlsFirst'
  <2>1. ended' # {} BY <1>8 DEF free_batch_data_allocations, batch_function_fails
  <2>2. QED BY <2>1 DEF UrlsFirst
<1>9. CASE \/ main_returns \/ cut_ends \/ start_ends \/ start_beyond \/ main_joined
           \/ join_crashes \/ process_exits \/ process_crashes
           \/ \E k \in Slots : batch_function(k)
  <2>1. pc' # "cutting" /\ UNCHANGED <<conf, bc, ended>>
    BY <1>9 DEF main_returns, cut_ends, start_ends, start_beyond, main_joined,
       join_crashes, process_exits, process_crashes, batch_function
  <2>2. QED BY <2>1, UrlsFirstKept
<1>10. CASE UNCHANGED startVars BY <1>10 DEF startVars, UrlsFirst
<1>11. QED
  BY <1>1, <1>2, <1>3, <1>4, <1>5, <1>6, <1>7, <1>8, <1>9, <1>10
  DEF StartStep, StartNext, ThreadEnds

\* No batch loses its number.
LEMMA NumberedInductive ==
  StartInv /\ Numbered /\ [StartStep]_startVars => Numbered'
<1> SUFFICES ASSUME StartInv, Numbered, [StartStep]_startVars PROVE Numbered' OBVIOUS
<1>0. bc \in [Slots -> Batch] /\ created \subseteq Slots
  BY DEF StartInv, StartTypes
<1>1. CASE \/ parse_config_file \/ main_returns \/ create_ip_addrs
           \/ create_thr_subbatches \/ cut_subbatch \/ cut_out_of_scope \/ cut_ends
           \/ \E n \in 0 .. master.client_num_max : cut_fails(n)
  <2>1. pc \in {"parse", "addresses", "cut", "cutting"} /\ created' = created
    BY <1>1 DEF parse_config_file, main_returns, create_ip_addrs, cut_ends,
       create_thr_subbatches, cut_subbatch, cut_out_of_scope, cut_fails
  <2>2. created = {} BY <2>1 DEF StartInv, Stages
  <2>3. QED BY <2>1, <2>2 DEF Numbered
<1>2. CASE start_thread \/ start_thread_fails
  <2>1. /\ bc' = [bc EXCEPT ![i].batch_id = i] /\ i < BATCHES_MAX_NUM
        /\ created' = created \/ created' = created \cup {i}
    BY <1>2 DEF start_thread, start_thread_fails
  <2>2. i \in Slots BY <2>1, StartAssumption DEF StartInv, StartTypes, Slots
  <2>3. bc'[i].batch_id = i BY <1>0, <2>1, <2>2 DEF Batch
  <2>4. \A k \in Slots : k # i => bc'[k] = bc[k] BY <1>0, <2>1
  <2>5. QED BY <1>0, <2>1, <2>3, <2>4 DEF Numbered
<1>3. ASSUME NEW k \in Slots, free_batch_data_allocations(k) \/ batch_function_fails(k)
      PROVE  Numbered'
  <2>1. created' = created /\ (bc' = bc \/ bc' = [bc EXCEPT ![k] = GivenBack(bc[k])])
    BY <1>0, <1>3 DEF free_batch_data_allocations, batch_function_fails
  <2>2. GivenBack(bc[k]).batch_id = bc[k].batch_id BY <1>0 DEF GivenBack, Batch
  <2>3. \A l \in Slots : bc'[l].batch_id = bc[l].batch_id BY <1>0, <2>1, <2>2
  <2>4. QED BY <1>0, <2>1, <2>3 DEF Numbered
<1>4. CASE \/ start_ends \/ start_beyond \/ main_joined \/ join_crashes
           \/ process_exits \/ process_crashes \/ UNCHANGED startVars
           \/ \E k \in Slots : batch_function(k)
  <2>1. UNCHANGED <<bc, created>>
    BY <1>4 DEF start_ends, start_beyond, main_joined, join_crashes, process_exits,
       process_crashes, batch_function, startVars
  <2>2. QED BY <2>1 DEF Numbered
<1>5. QED BY <1>1, <1>2, <1>3, <1>4 DEF StartStep, StartNext, ThreadEnds
-----------------------------------------------------------------------------
(***************************************************************************)
(* What a thread collects, and for what.                                   *)
(***************************************************************************)

\* Only the leader collects at intervals; a thread that does not collect has
\* nothing to collect.
Collects(k) ==
  /\ thr[k].why = "interval" => k = 0
  /\ IF thr[k].at \in {"add", "reset", "total"}
     THEN thr[k].set \in {HttpCounters, OpCounters} ELSE thr[k].set = {}
  /\ thr[k].at = "store" => thr[k].counter \in Counters

\* Before a thread loads nothing is counted.
NotBegun ==
  running = {} /\ ended = {} => \A k \in Slots : thr[k] = Idle /\ delta[k] = Zero

\* A step of one thread leaves the others alone.
LEMMA OthersAlone ==
  ASSUME StatInv, NEW k \in Slots, NEW t, thr' = [thr EXCEPT ![k] = t]
  PROVE  thr'[k] = t /\ \A l \in Slots : l # k => thr'[l] = thr[l]
BY DEF StatInv

\* What a thread is when it begins to collect.
LEMMA CollectingIs ==
  ASSUME NEW set, NEW why
  PROVE  /\ Collecting(set, why).at \in {"add", "total"}
         /\ Collecting(set, why).set = set /\ Collecting(set, why).why = why
BY DEF Collecting, Idle, CollectFrom

\* The leader is the first of the threads that load.
LEMMA LeaderIsFirst ==
  ASSUME Inv, Numbered, NEW k \in Slots, Loading(k), is_batch_group_leader(k)
  PROVE  k = 0
BY DEF Inv, StartInv, StartTypes, Numbered, Loading, is_batch_group_leader

\* Threads start and stop to collect as they should.
LEMMA CollectsInductive ==
  ASSUME Inv, Numbered, \A k \in Slots : Collects(k), [Next]_vars
  PROVE  (\A k \in Slots : Collects(k))'
<1>0. StatInv BY DEF Inv
<1>1. ASSUME UNCHANGED thr PROVE (\A k \in Slots : Collects(k))'
  BY <1>1 DEF Collects
<1>2. ASSUME NEW k \in Slots, NEW t, thr' = [thr EXCEPT ![k] = t],
             t.why = "interval" => k = 0,
             IF t.at \in {"add", "reset", "total"}
             THEN t.set \in {HttpCounters, OpCounters} ELSE t.set = {},
             t.at = "store" => t.counter \in Counters
      PROVE  (\A l \in Slots : Collects(l))'
  <2>1. thr'[k] = t /\ \A l \in Slots : l # k => thr'[l] = thr[l]
    BY <1>0, <1>2, OthersAlone
  <2>2. SUFFICES ASSUME NEW l \in Slots PROVE Collects(l)' OBVIOUS
  <2>3. CASE l = k BY <1>2, <2>1, <2>3 DEF Collects
  <2>4. CASE l # k
    <3>1. Collects(l) /\ thr'[l] = thr[l] BY <2>1, <2>4
    <3>2. QED BY <3>1 DEF Collects
  <2>5. QED BY <2>3, <2>4
<1>3. ASSUME NEW k \in Slots, Event(k) PROVE (\A l \in Slots : Collects(l))'
  <2>1. PICK counter \in Counters \cup {None} :
          thr' = IF counter = None THEN thr
                 ELSE [thr EXCEPT ![k] = [Idle EXCEPT !.at = "store", !.counter = counter,
                                                      !.loaded = delta[k]]]
    BY <1>3 DEF Event
  <2>2. PICK t : t = [Idle EXCEPT !.at = "store", !.counter = counter,
                                  !.loaded = delta[k]]
    OBVIOUS
  <2>3. t.why = "none" /\ t.at = "store" /\ t.set = {} /\ t.counter = counter
    BY <2>2 DEF Idle
  <2>4. QED BY <1>1, <1>2, <2>1, <2>2, <2>3
<1>4. ASSUME NEW k \in Slots, Store(k) PROVE (\A l \in Slots : Collects(l))'
  <2>1. Idle.why = "none" /\ Idle.at = "idle" /\ Idle.set = {} BY DEF Idle
  <2>2. thr' = [thr EXCEPT ![k] = Idle] BY <1>4 DEF Store
  <2>3. QED BY <1>2, <2>1, <2>2
<1>5. ASSUME NEW k \in Slots, NEW set \in {HttpCounters, OpCounters}, NEW why,
             why = "interval" => k = 0, thr' = [thr EXCEPT ![k] = Collecting(set, why)]
      PROVE  (\A l \in Slots : Collects(l))'
  <2>1. PICK t : t = Collecting(set, why) OBVIOUS
  <2>2. t.at \in {"add", "total"} /\ t.set = set /\ t.why = why BY <2>1, CollectingIs
  <2>3. QED BY <1>2, <1>5, <2>1, <2>2
<1>6. ASSUME NEW k \in Slots, dump_snapshot_interval(k) \/ dump_final_statistics(k)
      PROVE  (\A l \in Slots : Collects(l))'
  <2>1. dump_snapshot_interval(k) => k = 0
    BY LeaderIsFirst DEF dump_snapshot_interval
  <2>2. PICK set \in {HttpCounters, OpCounters}, why \in {"interval", "end", "stop"} :
          /\ thr' = [thr EXCEPT ![k] = Collecting(set, why)]
          /\ why = "interval" => k = 0
    BY <1>6, <2>1 DEF dump_snapshot_interval, dump_final_statistics
  <2>3. QED BY <1>5, <2>2
<1>7. ASSUME NEW k \in Slots, CollectAdd(k) \/ CollectReset(k)
      PROVE  (\A l \in Slots : Collects(l))'
  <2>1. Loading(k) /\ thr[k].at \in {"add", "reset"}
    BY <1>7 DEF CollectAdd, CollectReset
  <2>2. thr \in [Slots -> Thr] BY <2>1, ThreadContext
  <2>3. PICK r \in Thr : r = thr[k] BY <2>2
  <2>4. PICK t : /\ thr' = [thr EXCEPT ![k] = t]
                 /\ t.at \in {"add", "reset", "total"} /\ t.set = r.set /\ t.why = r.why
    <3>1. CASE CollectAdd(k)
      <4>1. PICK x : x = delta[k + r.j] OBVIOUS
      <4>2. PICK t : t = [r EXCEPT !.at = "reset", !.loaded = x] OBVIOUS
      <4>3. thr' = [thr EXCEPT ![k] = t] BY <2>2, <2>3, <3>1, <4>1, <4>2 DEF CollectAdd
      <4>4. t.at = "reset" /\ t.set = r.set /\ t.why = r.why BY <4>2 DEF Thr
      <4>5. QED BY <4>3, <4>4
    <3>2. CASE CollectReset(k)
      <4>1. PICK a \in {"add", "total"} : a = CollectFrom(r.j + 1) BY DEF CollectFrom
      <4>2. PICK t : t = [r EXCEPT !.at = a, !.j = r.j + 1, !.loaded = Zero] OBVIOUS
      <4>3. thr' = [thr EXCEPT ![k] = t] BY <2>2, <2>3, <3>2, <4>1, <4>2 DEF CollectReset
      <4>4. t.at = a /\ t.set = r.set /\ t.why = r.why BY <4>2 DEF Thr
      <4>5. QED BY <4>3, <4>4
    <3>3. QED BY <1>7, <3>1, <3>2
  <2>5. Collects(k) OBVIOUS
  <2>6. /\ r.why = "interval" => k = 0
        /\ r.set \in {HttpCounters, OpCounters}
    BY <2>1, <2>3, <2>5 DEF Collects
  <2>7. QED BY <1>2, <2>4, <2>6
<1>8. ASSUME NEW k \in Slots,
             AdvanceTotal(k) \/ FinalTotal(k) \/ FinalShort(k) \/ FinalEnd(k)
      PROVE  (\A l \in Slots : Collects(l))'
  <2>1. Collects(k) OBVIOUS
  <2>2. CASE AdvanceTotal(k)
    <3>1. k = 0 BY <2>1, <2>2 DEF AdvanceTotal, Collects
    <3>2. Idle.why = "none" /\ Idle.at = "idle" /\ Idle.set = {} BY DEF Idle
    <3>3. \/ thr' = [thr EXCEPT ![k] = Collecting(HttpCounters, "interval")]
          \/ thr' = [thr EXCEPT ![k] = Idle]
      BY <2>2 DEF AdvanceTotal
    <3>4. QED BY <1>2, <1>5, <3>1, <3>2, <3>3
  <2>3. CASE FinalTotal(k)
    <3>1. thr' = [thr EXCEPT ![k] = Collecting(OpCounters, thr[k].why)]
          /\ thr[k].why # "interval"
      BY <2>3 DEF FinalTotal
    <3>2. QED BY <1>5, <3>1
  <2>4. CASE FinalShort(k) \/ FinalEnd(k)
    <3>1. PICK t : t = [Idle EXCEPT !.at = "dumped"] OBVIOUS
    <3>2. t.why = "none" /\ t.at = "dumped" /\ t.set = {} BY <3>1 DEF Idle
    <3>3. thr' = [thr EXCEPT ![k] = t]
      BY <2>4, <3>1 DEF FinalShort, FinalEnd, Dumped
    <3>4. QED BY <1>2, <3>2, <3>3
  <2>5. QED BY <1>8, <2>2, <2>3, <2>4
<1>9. ASSUME \/ StartNext /\ UNCHANGED <<clientVars, statVars, loading_mode, stop_loading>>
             \/ \E k \in Slots : event_crashes(k) \/ batch_returns(k)
             \/ sigint \/ UNCHANGED vars
      PROVE  UNCHANGED thr
  BY <1>9 DEF statVars, event_crashes, batch_returns, sigint, vars
<1>10. QED
  BY <1>1, <1>3, <1>4, <1>6, <1>7, <1>8, <1>9 DEF Next

\* Nothing is counted before a thread loads.
LEMMA NotBegunInductive ==
  ASSUME NotBegun, [Next]_vars
  PROVE  NotBegun'
<1>1. CASE StartNext /\ UNCHANGED <<clientVars, statVars, loading_mode, stop_loading>>
  <2>1. running \subseteq running' /\ ended \subseteq ended'
    BY <1>1 DEF StartNext, parse_config_file, main_returns, create_ip_addrs,
       create_thr_subbatches, cut_subbatch, cut_out_of_scope, cut_fails, cut_ends,
       start_thread, start_thread_fails, start_ends, start_beyond, batch_function,
       batch_function_fails, main_joined, join_crashes
  <2>2. UNCHANGED <<thr, delta>> BY <1>1 DEF statVars
  <2>3. QED BY <2>1, <2>2 DEF NotBegun
<1>2. ASSUME NEW k \in Slots,
             \/ Event(k) \/ event_crashes(k) \/ Store(k) \/ dump_snapshot_interval(k)
             \/ dump_final_statistics(k) \/ CollectAdd(k) \/ CollectReset(k)
             \/ AdvanceTotal(k) \/ FinalTotal(k) \/ FinalShort(k) \/ FinalEnd(k)
      PROVE  k \in running'
  BY <1>2 DEF Event, event_crashes, Store, dump_snapshot_interval, dump_final_statistics,
     CollectAdd, CollectReset, AdvanceTotal, FinalTotal, FinalShort, FinalEnd, Dumped,
     Loading, startVars, process_exits, process_crashes
<1>3. ASSUME NEW k \in Slots, batch_returns(k) PROVE k \in ended'
  BY <1>3 DEF batch_returns, free_batch_data_allocations
<1>4. CASE sigint \/ UNCHANGED vars
  <2>1. UNCHANGED <<thr, delta, running, ended>>
    BY <1>4 DEF sigint, vars, statVars, startVars
  <2>2. QED BY <2>1 DEF NotBegun
<1>5. QED BY <1>1, <1>2, <1>3, <1>4 DEF Next, NotBegun

\* Until a thread ends, what has no counters of urls has counted none.
UrlsUncounted ==
  ended = {} =>
    \A k \in Slots, c \in OpCounters :
      bc[k].op_url_num = 0 =>
        delta[k][c] = 0 /\ ~(thr[k].at = "store" /\ thr[k].counter = c)

\* Main counts nothing and takes no counters away.
LEMMA UrlsUncountedByMain ==
  ASSUME Inv, NotBegun, UrlsUncounted, StartNext, UNCHANGED <<thr, delta>>
  PROVE  UrlsUncounted'
<1>0. bc \in [Slots -> Batch] BY DEF Inv, StartInv, StartTypes
<1>1. ASSUME created = {} PROVE UrlsUncounted'
  <2>1. running = {} /\ ended = {} BY <1>1 DEF Inv, StartInv, StartTypes
  <2>2. \A k \in Slots : thr[k] = Idle /\ delta[k] = Zero BY <2>1 DEF NotBegun
  <2>3. Idle.at = "idle" BY DEF Idle
  <2>4. \A c \in OpCounters : Zero[c] = 0 BY DEF Zero, Counters
  <2>5. QED BY <2>2, <2>3, <2>4 DEF UrlsUncounted
<1>2. ASSUME ended' = ended, \A k \in Slots : bc'[k].op_url_num = bc[k].op_url_num
      PROVE  UrlsUncounted'
  BY <1>2 DEF UrlsUncounted
<1>3. CASE \/ parse_config_file \/ create_ip_addrs \/ create_thr_subbatches
           \/ cut_subbatch \/ cut_out_of_scope
           \/ \E n \in 0 .. master.client_num_max : cut_fails(n)
  <2>1. pc \in {"parse", "addresses", "cut", "cutting"}
    BY <1>3 DEF parse_config_file, create_ip_addrs, create_thr_subbatches,
       cut_subbatch, cut_out_of_scope, cut_fails
  <2>2. QED BY <1>1, <2>1 DEF Inv, StartInv, Stages
<1>4. CASE start_thread \/ start_thread_fails
  <2>1. ended' = ended /\ bc' = [bc EXCEPT ![i].batch_id = i]
    BY <1>4 DEF start_thread, start_thread_fails
  <2>2. \A k \in Slots : bc'[k].op_url_num = bc[k].op_url_num
    BY <1>0, <2>1 DEF Batch
  <2>3. QED BY <1>2, <2>1, <2>2
<1>5. ASSUME NEW k \in Slots, batch_function_fails(k) PROVE UrlsUncounted'
  <2>1. ended' # {} BY <1>5 DEF batch_function_fails
  <2>2. QED BY <2>1 DEF UrlsUncounted
<1>6. CASE \/ main_returns \/ cut_ends \/ start_ends \/ start_beyond \/ main_joined
           \/ join_crashes \/ \E k \in Slots : batch_function(k)
  <2>1. UNCHANGED <<bc, ended>>
    BY <1>6 DEF main_returns, cut_ends, start_ends, start_beyond, main_joined,
       join_crashes, batch_function
  <2>2. QED BY <1>2, <2>1
<1>7. QED BY <1>3, <1>4, <1>5, <1>6 DEF StartNext

\* A thread counts only what it has a counter for, and collects such counts
\* only from a batch that has them as well.
LEMMA UrlsUncountedInductive ==
  ASSUME Inv, NotBegun, \A k \in Slots : Collects(k), UrlsUncounted, [Next]_vars
  PROVE  UrlsUncounted'
<1>0. StatInv BY DEF Inv
<1>1. ASSUME NEW k \in Slots, NEW t, thr' = [thr EXCEPT ![k] = t],
             UNCHANGED <<bc, ended>>,
             ended = {} =>
               \A c \in OpCounters :
                 /\ \A l \in Slots : l # k => delta'[l][c] \in {0, delta[l][c]}
                 /\ bc[k].op_url_num = 0 => 
                      delta'[k][c] = 0 /\ ~(t.at = "store" /\ t.counter = c)
      PROVE  UrlsUncounted'
  <2>1. thr'[k] = t /\ \A l \in Slots : l # k => thr'[l] = thr[l]
    BY <1>0, <1>1, OthersAlone
  <2>2. SUFFICES ASSUME ended = {}, NEW l \in Slots, NEW c \in OpCounters,
                        bc[l].op_url_num = 0
                 PROVE  delta'[l][c] = 0 /\ ~(thr'[l].at = "store" /\ thr'[l].counter = c)
    BY <1>1 DEF UrlsUncounted
  <2>3. delta[l][c] = 0 /\ ~(thr[l].at = "store" /\ thr[l].counter = c)
    BY <2>2 DEF UrlsUncounted
  <2>4. CASE l = k BY <1>1, <2>1, <2>2, <2>4
  <2>5. CASE l # k BY <1>1, <2>1, <2>2, <2>3, <2>5
  <2>6. QED BY <2>4, <2>5
<1>2. ASSUME NEW k \in Slots, Event(k) PROVE UrlsUncounted'
  <2>1. PICK counter \in Counters \cup {None} :
          /\ counter \in OpCounters => bc[k].op_url_num # 0
          /\ thr' = IF counter = None THEN thr
                    ELSE [thr EXCEPT ![k] = [Idle EXCEPT !.at = "store", !.counter = counter,
                                                         !.loaded = delta[k]]]
    BY <1>2 DEF Event
  <2>2. UNCHANGED <<bc, ended, delta>> BY <1>2 DEF Event, startVars
  <2>3. CASE counter = None BY <2>1, <2>2, <2>3 DEF UrlsUncounted
  <2>4. CASE counter # None
    <3>1. PICK t : t = [Idle EXCEPT !.at = "store", !.counter = counter,
                                    !.loaded = delta[k]]
      OBVIOUS
    <3>2. t.counter = counter BY <3>1 DEF Idle
    <3>3. thr' = [thr EXCEPT ![k] = t] BY <2>1, <2>4, <3>1
    <3>4. ASSUME ended = {}, NEW c \in OpCounters, bc[k].op_url_num = 0
          PROVE  delta'[k][c] = 0 /\ ~(t.at = "store" /\ t.counter = c)
      BY <2>1, <2>2, <3>2, <3>4 DEF UrlsUncounted
    <3>5. \A c \in OpCounters, l \in Slots : delta'[l][c] \in {0, delta[l][c]}
      BY <2>2
    <3>6. QED BY <1>1, <2>2, <3>3, <3>4, <3>5
  <2>5. QED BY <2>3, <2>4
<1>3. ASSUME NEW k \in Slots, Loading(k), NEW t, thr' = [thr EXCEPT ![k] = t],
             t.at # "store", UNCHANGED <<bc, ended>>,
             NEW m \in Slots, NEW d \in [Counters -> Nat], delta' = [delta EXCEPT ![m] = d],
             ended = {} => \A c \in OpCounters :
                             \/ d[c] \in {0, delta[m][c]}
                             \/ m = k /\ bc[k].op_url_num # 0
      PROVE  UrlsUncounted'
  <2>1. delta \in [Slots -> [Counters -> Nat]] BY <1>3, ThreadContext
  <2>2. delta'[m] = d /\ \A l \in Slots : l # m => delta'[l] = delta[l]
    BY <1>3, <2>1
  <2>3. ASSUME ended = {}, NEW c \in OpCounters
        PROVE  /\ \A l \in Slots : l # k => delta'[l][c] \in {0, delta[l][c]}
               /\ bc[k].op_url_num = 0 =>
                    delta'[k][c] = 0 /\ ~(t.at = "store" /\ t.counter = c)
    <3>1. bc[k].op_url_num = 0 => delta[k][c] = 0 BY <2>3 DEF UrlsUncounted
    <3>2. QED BY <1>3, <2>2, <2>3, <3>1
  <2>4. QED BY <1>1, <1>3, <2>3
<1>4. ASSUME NEW k \in Slots, Store(k) PROVE UrlsUncounted'
  <2>1. /\ Loading(k) /\ thr[k].at = "store" /\ thr' = [thr EXCEPT ![k] = Idle]
        /\ delta' = [delta EXCEPT ![k][thr[k].counter] = thr[k].loaded[thr[k].counter] + 1]
        /\ UNCHANGED <<bc, ended>>
    BY <1>4 DEF Store, startVars
  <2>2. delta \in [Slots -> [Counters -> Nat]] /\ thr \in [Slots -> Thr]
    BY <2>1, ThreadContext
  <2>3. PICK e \in Counters : e = thr[k].counter
    <3>1. Collects(k) OBVIOUS
    <3>2. QED BY <2>1, <3>1 DEF Collects
  <2>4. PICK v \in Nat : v = thr[k].loaded[e] + 1
    <3>1. thr[k].loaded \in [Counters -> Nat] BY <2>2 DEF Thr
    <3>2. QED BY <2>3, <3>1
  <2>5. PICK d : d = [delta[k] EXCEPT ![e] = v] OBVIOUS
  <2>6. d \in [Counters -> Nat] /\ \A c \in Counters : c # e => d[c] = delta[k][c]
    BY <2>2, <2>3, <2>4, <2>5
  <2>7. delta' = [delta EXCEPT ![k] = d] BY <2>1, <2>2, <2>3, <2>4, <2>5
  <2>8. ended = {} /\ e \in OpCounters => bc[k].op_url_num # 0
    BY <2>1, <2>3 DEF UrlsUncounted
  <2>9. Idle.at # "store" BY DEF Idle
  <2>10. OpCounters \subseteq Counters BY DEF Counters
  <2>11. ASSUME ended = {}, NEW c \in OpCounters
         PROVE  d[c] \in {0, delta[k][c]} \/ (k = k /\ bc[k].op_url_num # 0)
    BY <2>6, <2>8, <2>10, <2>11
  <2>12. QED BY <1>3, <2>1, <2>6, <2>7, <2>9, <2>11
<1>5. ASSUME NEW k \in Slots, NEW m \in Slots, NEW set, Loading(k),
             NEW t, thr' = [thr EXCEPT ![k] = t], t.at # "store",
             delta' = [delta EXCEPT ![m] = ResetOf(delta[m], set)],
             UNCHANGED <<bc, ended>>
      PROVE  UrlsUncounted'
  <2>1. delta \in [Slots -> [Counters -> Nat]] BY <1>5, ThreadContext
  <2>2. PICK d : d = ResetOf(delta[m], set) OBVIOUS
  <2>3. d \in [Counters -> Nat] BY <2>1, <2>2, PointTypes
  <2>4. \A c \in OpCounters : d[c] \in {0, delta[m][c]}
    BY <2>1, <2>2 DEF ResetOf, Counters
  <2>5. QED BY <1>3, <1>5, <2>2, <2>3, <2>4
<1>6. ASSUME NEW k \in Slots, Loading(k), NEW t, thr' = [thr EXCEPT ![k] = t],
             t.at # "store", delta' = delta, UNCHANGED <<bc, ended>>
      PROVE  UrlsUncounted'
  <2>1. delta \in [Slots -> [Counters -> Nat]] BY <1>6, ThreadContext
  <2>2. PICK d \in [Counters -> Nat] : d = delta[k] BY <2>1
  <2>3. delta' = [delta EXCEPT ![k] = d] BY <1>6, <2>1, <2>2
  <2>4. \A c \in OpCounters : d[c] \in {0, delta[k][c]} BY <2>2
  <2>5. QED BY <1>3, <1>6, <2>3, <2>4
<1>7. ASSUME NEW k \in Slots, dump_snapshot_interval(k) \/ dump_final_statistics(k)
      PROVE  UrlsUncounted'
  <2>1. PICK set, why : thr' = [thr EXCEPT ![k] = Collecting(set, why)]
    BY <1>7 DEF dump_snapshot_interval, dump_final_statistics
  <2>2. PICK t : t = Collecting(set, why) OBVIOUS
  <2>3. t.at # "store" BY <2>2, CollectingIs
  <2>4. Loading(k) /\ UNCHANGED <<bc, ended, delta>>
    BY <1>7 DEF dump_snapshot_interval, dump_final_statistics, startVars
  <2>5. QED BY <1>6, <2>1, <2>2, <2>3, <2>4
<1>8. ASSUME NEW k \in Slots, CollectAdd(k) PROVE UrlsUncounted'
  <2>1. Loading(k) /\ thr[k].at = "add" /\ UNCHANGED <<bc, ended>>
    BY <1>8 DEF CollectAdd, startVars
  <2>2. delta \in [Slots -> [Counters -> Nat]] /\ thr \in [Slots -> Thr]
        /\ k + thr[k].j \in Slots
    BY <2>1, ThreadContext
  <2>3. PICK r \in Thr : r = thr[k] BY <2>2
  <2>4. PICK m \in Slots : m = k + r.j BY <2>2, <2>3
  <2>5. PICK t : t = [r EXCEPT !.at = "reset", !.loaded = delta[m]] OBVIOUS
  <2>6. thr' = [thr EXCEPT ![k] = t]
    BY <1>8, <2>2, <2>3, <2>4, <2>5 DEF CollectAdd
  <2>7. t.at = "reset" BY <2>5 DEF Thr
  <2>8. CASE SameUrls(k, m)
    <3>1. PICK d : d = Added(delta[k], delta[m], r.set) OBVIOUS
    <3>2. delta' = [delta EXCEPT ![k] = d]
      BY <1>8, <2>2, <2>3, <2>4, <2>8, <3>1 DEF CollectAdd
    <3>3. d \in [Counters -> Nat] BY <2>2, <3>1, PointTypes
    <3>4. ASSUME ended = {}, NEW c \in OpCounters, bc[k].op_url_num = 0
          PROVE  d[c] \in {0, delta[k][c]}
      <4>1. c \in Counters /\ delta[k][c] = 0 BY <3>4 DEF Counters, UrlsUncounted
      <4>2. d[c] = IF c \in r.set THEN delta[k][c] + delta[m][c] ELSE delta[k][c]
        BY <3>1, <4>1 DEF Added
      <4>3. CASE c \notin r.set BY <4>2, <4>3
      <4>4. CASE c \in r.set
        <5>1. Collects(k) OBVIOUS
        <5>2. r.set \in {HttpCounters, OpCounters} BY <2>1, <2>3, <5>1 DEF Collects
        <5>3. c \notin HttpCounters
          BY <3>4 DEF OpCounters, HttpCounters, UrlOk, UrlFailed, Requests, OtherErrs,
             Classes
        <5>4. r.set = OpCounters BY <4>4, <5>2, <5>3
        <5>5. bc[m].op_url_num = 0 BY <2>3, <2>8, <3>4, <5>4 DEF SameUrls
        <5>6. delta[m][c] = 0 BY <3>4, <5>5 DEF UrlsUncounted
        <5>7. QED BY <4>1, <4>2, <4>4, <5>6
      <4>5. QED BY <4>3, <4>4
    <3>5. QED BY <1>3, <2>1, <2>6, <2>7, <3>2, <3>3, <3>4
  <2>9. CASE ~SameUrls(k, m)
    <3>1. delta' = delta BY <1>8, <2>3, <2>4, <2>9 DEF CollectAdd
    <3>2. QED BY <1>6, <2>1, <2>6, <2>7, <3>1
  <2>10. QED BY <2>8, <2>9
<1>9. ASSUME NEW k \in Slots, CollectReset(k) PROVE UrlsUncounted'
  <2>1. Loading(k) /\ thr[k].at = "reset" /\ UNCHANGED <<bc, ended>>
    BY <1>9 DEF CollectReset, startVars
  <2>2. thr \in [Slots -> Thr] /\ k + thr[k].j \in Slots BY <2>1, ThreadContext
  <2>3. PICK m \in Slots : m = k + thr[k].j BY <2>2
  <2>4. delta \in [Slots -> [Counters -> Nat]] BY <2>1, ThreadContext
  <2>5. delta' = [delta EXCEPT ![m] = ResetOf(delta[m], thr[k].set)]
    BY <1>9, <2>3, <2>4 DEF CollectReset, reset_other
  <2>6. PICK t : thr' = [thr EXCEPT ![k] = t] /\ t.at # "store"
    <3>1. PICK r \in Thr : r = thr[k] BY <2>2
    <3>2. PICK a \in {"add", "total"} : a = CollectFrom(r.j + 1) BY DEF CollectFrom
    <3>3. PICK t : t = [r EXCEPT !.at = a, !.j = r.j + 1, !.loaded = Zero] OBVIOUS
    <3>4. thr' = [thr EXCEPT ![k] = t]
      BY <1>9, <2>2, <3>1, <3>2, <3>3 DEF CollectReset
    <3>5. t.at = a BY <3>3 DEF Thr
    <3>6. QED BY <3>4, <3>5
  <2>7. QED BY <1>5, <2>1, <2>5, <2>6
<1>10. ASSUME NEW k \in Slots,
              AdvanceTotal(k) \/ FinalTotal(k) \/ FinalShort(k) \/ FinalEnd(k)
       PROVE  UrlsUncounted'
  <2>1. Loading(k) /\ UNCHANGED <<bc, ended>>
    BY <1>10 DEF AdvanceTotal, FinalTotal, FinalShort, FinalEnd, Dumped, startVars,
       process_exits
  <2>2. PICK t : thr' = [thr EXCEPT ![k] = t] /\ t.at # "store"
    <3>1. PICK t : t = [Idle EXCEPT !.at = "dumped"] OBVIOUS
    <3>2. t.at # "store" /\ Idle.at # "store" BY <3>1 DEF Idle
    <3>3. \A set, why : Collecting(set, why).at # "store" BY CollectingIs
    <3>4. \/ \E set, why : thr' = [thr EXCEPT ![k] = Collecting(set, why)]
          \/ thr' = [thr EXCEPT ![k] = Idle]
          \/ thr' = [thr EXCEPT ![k] = t]
      BY <1>10, <3>1 DEF AdvanceTotal, FinalTotal, FinalShort, FinalEnd, Dumped
    <3>5. QED BY <3>2, <3>3, <3>4
  <2>3. delta' = delta \/ delta' = [delta EXCEPT ![k] = ResetOf(delta[k], thr[k].set)]
    <3>1. delta \in [Slots -> [Counters -> Nat]] BY <2>1, ThreadContext
    <3>2. QED BY <1>10, <3>1 DEF AdvanceTotal, FinalTotal, FinalShort, FinalEnd, Dumped
  <2>4. QED BY <1>5, <1>6, <2>1, <2>2, <2>3
<1>11. ASSUME NEW k \in Slots, batch_returns(k) PROVE UrlsUncounted'
  <2>1. ended' # {} BY <1>11 DEF batch_returns, free_batch_data_allocations
  <2>2. QED BY <2>1 DEF UrlsUncounted
<1>12. CASE sigint \/ UNCHANGED vars \/ \E k \in Slots : event_crashes(k)
  <2>1. UNCHANGED <<bc, ended, thr, delta>>
    BY <1>12 DEF sigint, vars, startVars, statVars, event_crashes, process_crashes
  <2>2. QED BY <2>1 DEF UrlsUncounted
<1>13. CASE StartNext /\ UNCHANGED <<clientVars, statVars, loading_mode, stop_loading>>
  BY <1>13, UrlsUncountedByMain DEF statVars
<1>14. QED
  BY <1>2, <1>4, <1>7, <1>8, <1>9, <1>10, <1>11, <1>12, <1>13 DEF Next
-----------------------------------------------------------------------------
(***************************************************************************)
(* Nothing lost and nothing twice.                                         *)
(***************************************************************************)

\* What is still with a batch, and what its clients have counted.
With(k, c) == delta[k][c] + Stored(k, c) - Twice(k, c)
Balance(c) ==
  total[0][c] + Sum([k \in Slots |-> With(k, c)]) = Sum([k \in Slots |-> st[k][c]])

\* The types of the numbers that are balanced.
LEMMA BalanceTypes ==
  ASSUME Inv, NEW c \in Counters
  PROVE  /\ \A k \in Slots : With(k, c) \in Int /\ st[k][c] \in Int
         /\ \A k \in Slots : total[k][c] \in Nat
         /\ [k \in Slots |-> With(k, c)] \in [Slots -> Int]
         /\ [k \in Slots |-> st[k][c]] \in [Slots -> Int]
<1>1. /\ delta \in [Slots -> [Counters -> Nat]]
      /\ total \in [Slots -> [Counters -> Nat]]
      /\ \A k \in Slots : thr[k] \in Thr
  BY DEF Inv, StatInv, ThrSound
<1>2. st \in [Slots -> [Counters -> Nat]]
  BY LoadAssumption DEF Inv, ClientInv, ClientTypes
<1>3. ASSUME NEW k \in Slots PROVE With(k, c) \in Int /\ st[k][c] \in Int
  <2>1. delta[k][c] \in Nat /\ st[k][c] \in Nat BY <1>1, <1>2
  <2>2. Stored(k, c) \in Nat BY DEF Stored
  <2>3. thr[k].loaded \in [Counters -> Nat] BY <1>1 DEF Thr
  <2>4. Twice(k, c) \in Nat BY <2>3 DEF Twice
  <2>5. QED BY <2>1, <2>2, <2>4 DEF With
<1>4. QED BY <1>1, <1>3

\* A step that leaves all of it as it is.
LEMMA BalanceKept ==
  ASSUME NEW c, Balance(c), total'[0][c] = total[0][c],
         \A k \in Slots : With(k, c)' = With(k, c) /\ st'[k][c] = st[k][c]
  PROVE  Balance(c)'
<1>1. [k \in Slots |-> With(k, c)]' = [k \in Slots |-> With(k, c)] OBVIOUS
<1>2. [k \in Slots |-> st[k][c]]' = [k \in Slots |-> st[k][c]] OBVIOUS
<1>3. QED BY <1>1, <1>2 DEF Balance

\* A client counts, and the thread has it to store.
LEMMA BalanceCounted ==
  ASSUME Inv, Inv', NEW c \in Counters, Balance(c), NEW k \in Slots,
         total'[0][c] = total[0][c],
         With(k, c)' = With(k, c) + 1, st'[k][c] = st[k][c] + 1,
         \A l \in Slots : l # k => With(l, c)' = With(l, c) /\ st'[l][c] = st[l][c]
  PROVE  Balance(c)'
<1> DEFINE g == [l \in Slots |-> With(l, c)]
           h == [l \in Slots |-> With(l, c)']
           p == [l \in Slots |-> st[l][c]]
           q == [l \in Slots |-> st'[l][c]]
<1>1. g \in [Slots -> Int] /\ p \in [Slots -> Int] BY BalanceTypes
<1>2. \A l \in Slots : With(l, c)' \in Int /\ st'[l][c] \in Int
  <2>1. With(k, c) \in Int /\ st[k][c] \in Int BY BalanceTypes
  <2>2. \A l \in Slots : With(l, c) \in Int /\ st[l][c] \in Int BY BalanceTypes
  <2>3. QED BY <2>1, <2>2
<1>3. h \in [Slots -> Int] /\ q \in [Slots -> Int] BY <1>2
<1>4. /\ \A l \in Slots : l # k => h[l] = g[l]
      /\ \A l \in Slots : l # k => q[l] = p[l]
      /\ h[k] = g[k] + 1 /\ q[k] = p[k] + 1 /\ g[k] \in Int /\ p[k] \in Int
  BY <1>1
<1>5. Balance(c)' <=> total'[0][c] + Sum(h) = Sum(q) BY DEF Balance
<1>6. total[0][c] + Sum(g) = Sum(p) BY DEF Balance
<1> HIDE DEF g, h, p, q
<1>7. Sum(h) = Sum(g) + (h[k] - g[k]) BY <1>1, <1>3, <1>4, OneChanged
<1>8. Sum(q) = Sum(p) + (q[k] - p[k]) BY <1>1, <1>3, <1>4, OneChanged
<1>9. total[0][c] \in Nat BY BalanceTypes, FirstSlot
<1>10. Sum(g) \in Int /\ Sum(p) \in Int BY <1>1, SumType
<1>11. Sum(h) = Sum(g) + 1 /\ Sum(q) = Sum(p) + 1 BY <1>4, <1>7, <1>8, <1>10
<1>12. QED BY <1>5, <1>6, <1>9, <1>10, <1>11

\* What one thread had counted twice, it takes from another's delta.
LEMMA BalanceReset ==
  ASSUME Inv, NEW c \in Counters, Balance(c), NEW k \in Slots, NEW m \in Slots, k # m,
         total'[0][c] = total[0][c], NEW v \in Int,
         With(k, c)' = With(k, c) + v, With(m, c)' = With(m, c) - v,
         \A l \in Slots : st'[l][c] = st[l][c],
         \A l \in Slots : l # k /\ l # m => With(l, c)' = With(l, c)
  PROVE  Balance(c)'
<1> DEFINE g == [l \in Slots |-> With(l, c)]
           h == [l \in Slots |-> With(l, c)']
<1>1. g \in [Slots -> Int] /\ \A l \in Slots : With(l, c) \in Int BY BalanceTypes
<1>2. \A l \in Slots : With(l, c)' \in Int BY <1>1
<1>3. h \in [Slots -> Int] BY <1>2
<1>4. /\ \A l \in Slots : l # k /\ l # m => h[l] = g[l]
      /\ h[k] = g[k] + v /\ h[m] = g[m] - v /\ g[k] \in Int /\ g[m] \in Int
  BY <1>1
<1>5. [l \in Slots |-> st[l][c]]' = [l \in Slots |-> st[l][c]] OBVIOUS
<1>6. Balance(c)' <=> total'[0][c] + Sum(h) = Sum([l \in Slots |-> st[l][c]])
  BY <1>5 DEF Balance
<1>7. total[0][c] + Sum(g) = Sum([l \in Slots |-> st[l][c]]) BY DEF Balance
<1> HIDE DEF g, h
<1>8. h[k] - g[k] = g[m] - h[m] BY <1>4
<1>9. Sum(h) = Sum(g) BY <1>1, <1>3, <1>4, <1>8, TwoChanged
<1>10. QED BY <1>6, <1>7, <1>9

\* The leader's totals take what its delta held.
LEMMA BalanceAdvanced ==
  ASSUME Inv, NEW c \in Counters, Balance(c), NEW v \in Int,
         total'[0][c] = total[0][c] + v, With(0, c)' = With(0, c) - v,
         \A l \in Slots : st'[l][c] = st[l][c],
         \A l \in Slots : l # 0 => With(l, c)' = With(l, c)
  PROVE  Balance(c)'
<1> DEFINE g == [l \in Slots |-> With(l, c)]
           h == [l \in Slots |-> With(l, c)']
<1>0. 0 \in Slots BY FirstSlot
<1>1. g \in [Slots -> Int] /\ \A l \in Slots : With(l, c) \in Int BY BalanceTypes
<1>2. \A l \in Slots : With(l, c)' \in Int BY <1>0, <1>1
<1>3. h \in [Slots -> Int] BY <1>2
<1>4. /\ \A l \in Slots : l # 0 => h[l] = g[l]
      /\ h[0] = g[0] - v /\ g[0] \in Int
  BY <1>0, <1>1
<1>5. [l \in Slots |-> st[l][c]]' = [l \in Slots |-> st[l][c]] OBVIOUS
<1>6. Balance(c)' <=> total'[0][c] + Sum(h) = Sum([l \in Slots |-> st[l][c]])
  BY <1>5 DEF Balance
<1>7. total[0][c] + Sum(g) = Sum([l \in Slots |-> st[l][c]]) BY DEF Balance
<1> HIDE DEF g, h
<1>8. Sum(h) = Sum(g) + (h[0] - g[0]) BY <1>0, <1>1, <1>3, <1>4, OneChanged
<1>9. total[0][c] \in Nat BY <1>0, BalanceTypes
<1>10. Sum(g) \in Int BY <1>1, SumType
<1>11. Sum(h) = Sum(g) - v BY <1>4, <1>8, <1>10
<1>12. QED BY <1>6, <1>7, <1>9, <1>10, <1>11

\* The counters that are followed, and while they are.
CountersKept == IF ended = {} THEN Counters ELSE HttpCounters
Exact == pc # "crashed" /\ ~raced /\ LeaderCounts

\* What Conserved says of a counter.
LEMMA ConservedIs == Conserved <=> (Exact => \A c \in CountersKept : Balance(c))
BY DEF Conserved, Exact, CountersKept, Balance, With

\* What a thread has stored, or collected twice, depends on where it is.
LEMMA WithSame ==
  ASSUME NEW k, NEW c, thr'[k] = thr[k], delta'[k][c] = delta[k][c]
  PROVE  With(k, c)' = With(k, c)
BY DEF With, Stored, Twice

LEMMA WithDelta ==
  ASSUME NEW k, NEW c, thr[k].at \notin {"store", "reset"}, delta[k][c] \in Nat
  PROVE  With(k, c) = delta[k][c]
<1>1. Stored(k, c) = 0 /\ Twice(k, c) = 0 BY DEF Stored, Twice
<1>2. QED BY <1>1 DEF With

\* An event is counted for the client it happens to.
LEMMA EventCounts ==
  ASSUME Inv, NEW k \in Slots, NEW counter \in Counters \cup {None},
         ClientNext(k, counter)
  PROVE  /\ \A l \in Slots \ {k} : st'[l] = st[l]
         /\ \A c \in Counters :
              st'[k][c] = IF c = counter THEN st[k][c] + 1 ELSE st[k][c]
<1>1. k \in Batches /\ ClientTypes BY LoadAssumption DEF Inv, ClientInv
<1>2. counts(k, counter)
  BY DEF ClientNext, client_tracing_function, HeaderOut, DataOut, FirstHeaderIn,
     NextHeaderIn, header_in, DataIn, ErrorInfo, Done, CutOff, counts
<1>3. QED BY <1>1, <1>2, Counted, LoadAssumption

\* An event is loaded.
LEMMA EventBalances ==
  ASSUME Inv, Inv', NEW k \in Slots, Event(k), NEW c \in Counters, Balance(c)
  PROVE  Balance(c)'
<1>1. PICK counter \in Counters \cup {None} :
        /\ ClientNext(k, counter)
        /\ thr' = IF counter = None THEN thr
                  ELSE [thr EXCEPT ![k] = [Idle EXCEPT !.at = "store", !.counter = counter,
                                                       !.loaded = delta[k]]]
  BY DEF Event
<1>2. Loading(k) /\ thr[k].at = "idle" /\ UNCHANGED <<delta, total>> BY DEF Event
<1>3. delta[k][c] \in Nat BY <1>2, ThreadContext
<1>4. With(k, c) = delta[k][c] BY <1>2, <1>3, WithDelta
<1>5. /\ \A l \in Slots \ {k} : st'[l] = st[l]
      /\ st'[k][c] = IF c = counter THEN st[k][c] + 1 ELSE st[k][c]
  BY <1>1, EventCounts
<1>6. c # None BY CounterKinds
<1>7. CASE counter = None
  <2>1. thr' = thr BY <1>1, <1>7
  <2>2. \A l \in Slots : With(l, c)' = With(l, c) BY <1>2, <2>1, WithSame
  <2>3. \A l \in Slots : st'[l][c] = st[l][c] BY <1>5, <1>6, <1>7
  <2>4. QED BY <1>2, <2>2, <2>3, BalanceKept
<1>8. CASE counter # None
  <2>1. PICK t : t = [Idle EXCEPT !.at = "store", !.counter = counter,
                                  !.loaded = delta[k]]
    OBVIOUS
  <2>2. thr' = [thr EXCEPT ![k] = t] BY <1>1, <1>8, <2>1
  <2>3. thr'[k] = t /\ \A l \in Slots : l # k => thr'[l] = thr[l]
    BY <2>2, OthersAlone DEF Inv
  <2>4. t.at = "store" /\ t.counter = counter BY <2>1 DEF Idle
  <2>5. \A l \in Slots : l # k => With(l, c)' = With(l, c)
    BY <1>2, <2>3, WithSame
  <2>6. /\ Stored(k, c)' = IF counter = c THEN 1 ELSE 0
        /\ Twice(k, c)' = 0
    BY <2>3, <2>4 DEF Stored, Twice
  <2>7. With(k, c)' = delta[k][c] + IF counter = c THEN 1 ELSE 0
    BY <1>2, <1>3, <2>6 DEF With
  <2>8. CASE counter = c
    <3>1. With(k, c)' = With(k, c) + 1 /\ st'[k][c] = st[k][c] + 1
      BY <1>4, <1>5, <2>7, <2>8
    <3>2. \A l \in Slots : l # k => With(l, c)' = With(l, c) /\ st'[l][c] = st[l][c]
      BY <1>5, <2>5
    <3>3. total'[0][c] = total[0][c] BY <1>2
    <3>4. QED BY <3>1, <3>2, <3>3, BalanceCounted
  <2>9. CASE counter # c
    <3>1. With(k, c)' = With(k, c) /\ st'[k][c] = st[k][c]
      BY <1>3, <1>4, <1>5, <2>7, <2>9
    <3>2. \A l \in Slots : With(l, c)' = With(l, c) /\ st'[l][c] = st[l][c]
      BY <1>5, <2>5, <3>1
    <3>3. QED BY <1>2, <3>2, BalanceKept
  <2>10. QED BY <2>8, <2>9
<1>9. QED BY <1>7, <1>8

\* It is stored, no reset having come in between.
LEMMA StoreBalances ==
  ASSUME Inv, NEW k \in Slots, Collects(k), Store(k), ~raced',
         NEW c \in Counters, Balance(c)
  PROVE  Balance(c)'
<1>1. /\ Loading(k) /\ thr[k].at = "store" /\ thr' = [thr EXCEPT ![k] = Idle]
      /\ delta' = [delta EXCEPT ![k][thr[k].counter] = thr[k].loaded[thr[k].counter] + 1]
      /\ delta[k][thr[k].counter] = thr[k].loaded[thr[k].counter]
      /\ UNCHANGED <<total, st>>
  BY DEF Store, clientVars
<1>2. delta \in [Slots -> [Counters -> Nat]] /\ thr \in [Slots -> Thr]
  BY <1>1, ThreadContext
<1>3. PICK e \in Counters : e = thr[k].counter BY <1>1 DEF Collects
<1>4. delta' = [delta EXCEPT ![k] = [delta[k] EXCEPT ![e] = delta[k][e] + 1]]
  BY <1>1, <1>2, <1>3
<1>5. /\ delta'[k][c] = IF c = e THEN delta[k][c] + 1 ELSE delta[k][c]
      /\ delta[k][c] \in Nat
      /\ \A l \in Slots : l # k => delta'[l] = delta[l]
  BY <1>2, <1>3, <1>4
<1>6. thr'[k] = Idle /\ \A l \in Slots : l # k => thr'[l] = thr[l]
  BY <1>1, OthersAlone DEF Inv
<1>7. Stored(k, c) = (IF e = c THEN 1 ELSE 0) /\ Twice(k, c) = 0
  BY <1>1, <1>3 DEF Stored, Twice
<1>8. Stored(k, c)' = 0 /\ Twice(k, c)' = 0
  <2>1. Idle.at = "idle" BY DEF Idle
  <2>2. QED BY <1>6, <2>1 DEF Stored, Twice
<1>9. With(k, c)' = With(k, c) BY <1>5, <1>7, <1>8 DEF With
<1>10. \A l \in Slots : With(l, c)' = With(l, c)
  <2>1. ASSUME NEW l \in Slots, l # k PROVE With(l, c)' = With(l, c)
    BY <1>5, <1>6, <2>1, WithSame
  <2>2. QED BY <1>9, <2>1
<1>11. QED BY <1>1, <1>10, BalanceKept

\* A thread begins to collect, or is done: nothing moves.
LEMMA QuietBalances ==
  ASSUME Inv, NEW k \in Slots, Loading(k), thr[k].at \notin {"store", "reset"},
         NEW t, thr' = [thr EXCEPT ![k] = t], t.at \notin {"store", "reset"},
         NEW c \in Counters, Balance(c), total'[0][c] = total[0][c],
         UNCHANGED <<delta, st>>
  PROVE  Balance(c)'
<1>1. delta[k][c] \in Nat BY ThreadContext
<1>2. thr'[k] = t /\ \A l \in Slots : l # k => thr'[l] = thr[l]
  BY OthersAlone DEF Inv
<1>3. With(k, c) = delta[k][c] BY <1>1, WithDelta
<1>4. With(k, c)' = delta[k][c]
  <2>1. Stored(k, c)' = 0 /\ Twice(k, c)' = 0 BY <1>2 DEF Stored, Twice
  <2>2. QED BY <1>1, <2>1 DEF With
<1>5. ASSUME NEW l \in Slots PROVE With(l, c)' = With(l, c)
  <2>1. CASE l = k BY <1>3, <1>4, <2>1
  <2>2. CASE l # k BY <1>2, <2>2, WithSame
  <2>3. QED BY <2>1, <2>2
<1>6. QED BY <1>5, BalanceKept

\* Adding counts twice until the reset.  Until a thread has ended, what is not
\* added, for want of as many urls, is nothing.
LEMMA AddBalances ==
  ASSUME Inv, Numbered, UrlsFirst, UrlsUncounted, NEW k \in Slots, Collects(k),
         CollectAdd(k), NEW c \in CountersKept, Balance(c)
  PROVE  Balance(c)'
<1>1. Loading(k) /\ thr[k].at = "add" /\ UNCHANGED <<total, st>>
  BY DEF CollectAdd, clientVars
<1>2. /\ delta \in [Slots -> [Counters -> Nat]] /\ thr \in [Slots -> Thr]
      /\ k + thr[k].j \in Slots /\ threads \in Nat /\ ThrSound(thr[k])
  BY <1>1, ThreadContext
<1>3. PICK r \in Thr : r = thr[k] BY <1>2
<1>4. PICK m \in Slots : m = k + r.j BY <1>2, <1>3
<1>5. k < m
  <2>1. r.j \in 1 .. threads BY <1>1, <1>2, <1>3 DEF ThrSound
  <2>2. k \in Nat BY DEF Slots
  <2>3. QED BY <1>2, <1>4, <2>1, <2>2
<1>6. c \in Counters BY DEF CountersKept, Counters
<1>7. PICK t : t = [r EXCEPT !.at = "reset", !.loaded = delta[m]] OBVIOUS
<1>8. thr' = [thr EXCEPT ![k] = t] BY <1>2, <1>3, <1>4, <1>7 DEF CollectAdd
<1>9. t.at = "reset" /\ t.set = r.set /\ t.loaded = delta[m] BY <1>7 DEF Thr
<1>10. thr'[k] = t /\ \A l \in Slots : l # k => thr'[l] = thr[l]
  BY <1>8, OthersAlone DEF Inv
<1>11. delta[k][c] \in Nat /\ delta[m][c] \in Nat BY <1>2, <1>6
<1>12. With(k, c) = delta[k][c] BY <1>1, <1>11, WithDelta
<1>13. Stored(k, c)' = 0 /\ Twice(k, c)' = IF c \in r.set THEN delta[m][c] ELSE 0
  BY <1>9, <1>10 DEF Stored, Twice
<1>14. /\ \A l \in Slots : l # k => delta'[l] = delta[l]
       /\ delta'[k][c] = delta[k][c] + IF c \in r.set THEN delta[m][c] ELSE 0
  <2>1. CASE SameUrls(k, m)
    <3>1. delta' = [delta EXCEPT ![k] = Added(delta[k], delta[m], r.set)]
      BY <1>2, <1>3, <1>4, <2>1 DEF CollectAdd
    <3>2. Added(delta[k], delta[m], r.set)[c] =
            IF c \in r.set THEN delta[k][c] + delta[m][c] ELSE delta[k][c]
      BY <1>6 DEF Added
    <3>3. QED BY <1>2, <1>11, <3>1, <3>2
  <2>2. CASE ~SameUrls(k, m)
    <3>1. delta' = delta BY <1>3, <1>4, <2>2 DEF CollectAdd
    <3>2. r.set = OpCounters /\ bc[k].op_url_num # bc[m].op_url_num
      BY <1>3, <2>2 DEF SameUrls
    <3>3. c \in r.set => delta[m][c] = 0
      <4>1. SUFFICES ASSUME c \in OpCounters PROVE delta[m][c] = 0 BY <3>2
      <4>2. c \notin HttpCounters
        BY <4>1 DEF OpCounters, HttpCounters, UrlOk, UrlFailed, Requests, OtherErrs,
           Classes
      <4>3. ended = {} BY <4>2 DEF CountersKept
      <4>4. /\ bc[k].op_url_num \in {0, conf.urls_num}
            /\ bc[m].op_url_num \in {0, conf.urls_num}
            /\ bc[k].op_url_num = 0 => bc[m].op_url_num = 0
        BY <1>5, <4>3 DEF UrlsFirst
      <4>5. bc[m].op_url_num = 0 BY <3>2, <4>4
      <4>6. QED BY <4>1, <4>3, <4>5 DEF UrlsUncounted
    <3>4. QED BY <1>11, <3>1, <3>3
  <2>3. QED BY <2>1, <2>2
<1>15. With(k, c)' = delta[k][c] BY <1>11, <1>13, <1>14 DEF With
<1>16. ASSUME NEW l \in Slots PROVE With(l, c)' = With(l, c)
  <2>1. CASE l = k BY <1>12, <1>15, <2>1
  <2>2. CASE l # k BY <1>10, <1>14, <2>2, WithSame
  <2>3. QED BY <2>1, <2>2
<1>17. QED BY <1>1, <1>16, BalanceKept

\* The reset takes what was added, no count having come in between.
LEMMA ResetBalances ==
  ASSUME Inv, NEW k \in Slots, CollectReset(k), ~raced',
         NEW c \in Counters, Balance(c)
  PROVE  Balance(c)'
<1>1. Loading(k) /\ thr[k].at = "reset" /\ UNCHANGED <<total, st>>
  BY DEF CollectReset, clientVars
<1>2. /\ delta \in [Slots -> [Counters -> Nat]] /\ thr \in [Slots -> Thr]
      /\ k + thr[k].j \in Slots /\ threads \in Nat /\ ThrSound(thr[k])
  BY <1>1, ThreadContext
<1>3. PICK r \in Thr : r = thr[k] BY <1>2
<1>4. PICK m \in Slots : m = k + r.j BY <1>2, <1>3
<1>5. k # m
  <2>1. r.j \in 1 .. threads BY <1>1, <1>2, <1>3 DEF ThrSound
  <2>2. k \in Nat BY DEF Slots
  <2>3. QED BY <1>2, <1>4, <2>1, <2>2
<1>6. PICK a \in {"add", "total"} : a = CollectFrom(r.j + 1) BY DEF CollectFrom
<1>7. PICK t : t = [r EXCEPT !.at = a, !.j = r.j + 1, !.loaded = Zero] OBVIOUS
<1>8. thr' = [thr EXCEPT ![k] = t] BY <1>2, <1>3, <1>6, <1>7 DEF CollectReset
<1>9. t.at = a BY <1>7 DEF Thr
<1>10. thr'[k] = t /\ \A l \in Slots : l # k => thr'[l] = thr[l]
  BY <1>8, OthersAlone DEF Inv
<1>11. delta' = [delta EXCEPT ![m] = ResetOf(delta[m], r.set)]
  BY <1>2, <1>3, <1>4 DEF CollectReset, reset_other
<1>12. /\ \A l \in Slots : l # m => delta'[l] = delta[l]
       /\ delta'[m][c] = IF c \in r.set THEN 0 ELSE delta[m][c]
       /\ delta[k][c] \in Nat /\ delta[m][c] \in Nat
  BY <1>2, <1>11 DEF ResetOf
<1>13. c \in r.set => delta[m][c] = r.loaded[c]
  BY <1>3, <1>4 DEF CollectReset
<1>14. Stored(k, c) = 0 /\ Twice(k, c) = IF c \in r.set THEN delta[m][c] ELSE 0
  BY <1>1, <1>3, <1>13 DEF Stored, Twice
<1>15. Stored(k, c)' = 0 /\ Twice(k, c)' = 0
  BY <1>6, <1>9, <1>10 DEF Stored, Twice
<1>16. PICK v \in Int : v = IF c \in r.set THEN delta[m][c] ELSE 0
  BY <1>12
<1>17. With(k, c) = delta[k][c] - v BY <1>12, <1>14, <1>16 DEF With
<1>18. With(k, c)' = With(k, c) + v
  <2>1. With(k, c)' = delta[k][c] BY <1>5, <1>12, <1>15 DEF With
  <2>2. QED BY <1>12, <1>17, <2>1
<1>19. With(m, c)' = With(m, c) - v
  <2>1. Stored(m, c)' = Stored(m, c) /\ Twice(m, c)' = Twice(m, c)
    BY <1>5, <1>10 DEF Stored, Twice
  <2>2. delta'[m][c] = delta[m][c] - v BY <1>12, <1>16
  <2>3. Stored(m, c) \in Nat /\ Twice(m, c) \in Nat
    <3>1. thr[m].loaded \in [Counters -> Nat] BY <1>2 DEF Thr
    <3>2. QED BY <3>1 DEF Stored, Twice
  <2>4. QED BY <1>12, <2>1, <2>2, <2>3 DEF With
<1>20. \A l \in Slots : l # k /\ l # m => With(l, c)' = With(l, c)
  BY <1>10, <1>12, WithSame
<1>21. QED BY <1>1, <1>5, <1>18, <1>19, <1>20, BalanceReset

\* The leader advances its totals and resets its delta.
LEMMA AdvanceBalances ==
  ASSUME Inv, NEW k \in Slots, Collects(k), AdvanceTotal(k),
         NEW c \in Counters, Balance(c)
  PROVE  Balance(c)'
<1>1. Loading(k) /\ thr[k].at = "total" /\ thr[k].why = "interval" /\ UNCHANGED st
  BY DEF AdvanceTotal, clientVars
<1>2. k = 0 BY <1>1 DEF Collects
<1>3. /\ delta \in [Slots -> [Counters -> Nat]] /\ total \in [Slots -> [Counters -> Nat]]
  BY <1>1, ThreadContext
<1>4. PICK set : set = thr[0].set OBVIOUS
<1>5. /\ total' = [total EXCEPT ![0] = Added(total[0], delta[0], set)]
      /\ delta' = [delta EXCEPT ![0] = ResetOf(delta[0], set)]
  BY <1>2, <1>3, <1>4 DEF AdvanceTotal, total_advanced
<1>6. PICK v \in Int : v = IF c \in set THEN delta[0][c] ELSE 0
  BY <1>2, <1>3
<1>7. total'[0][c] = total[0][c] + v /\ delta'[0][c] = delta[0][c] - v
      /\ \A l \in Slots : l # 0 => delta'[l] = delta[l]
  <2>1. Added(total[0], delta[0], set)[c] =
          IF c \in set THEN total[0][c] + delta[0][c] ELSE total[0][c]
    BY DEF Added
  <2>2. ResetOf(delta[0], set)[c] = IF c \in set THEN 0 ELSE delta[0][c]
    BY DEF ResetOf
  <2>3. total[0][c] \in Nat /\ delta[0][c] \in Nat BY <1>2, <1>3
  <2>4. QED BY <1>2, <1>3, <1>5, <1>6, <2>1, <2>2, <2>3
<1>8. PICK t : thr' = [thr EXCEPT ![0] = t] /\ t.at \notin {"store", "reset"}
  <2>1. Idle.at = "idle" BY DEF Idle
  <2>2. Collecting(HttpCounters, "interval").at \in {"add", "total"} BY CollectingIs
  <2>3. \/ thr' = [thr EXCEPT ![0] = Collecting(HttpCounters, "interval")]
        \/ thr' = [thr EXCEPT ![0] = Idle]
    BY <1>2 DEF AdvanceTotal
  <2>4. QED BY <2>1, <2>2, <2>3
<1>9. thr'[0] = t /\ \A l \in Slots : l # 0 => thr'[l] = thr[l]
  BY <1>2, <1>8, OthersAlone DEF Inv
<1>10. With(0, c) = delta[0][c]
  <2>1. delta[0][c] \in Nat BY <1>2, <1>3
  <2>2. QED BY <1>1, <1>2, <2>1, WithDelta
<1>11. With(0, c)' = With(0, c) - v
  <2>1. Stored(0, c)' = 0 /\ Twice(0, c)' = 0 BY <1>8, <1>9 DEF Stored, Twice
  <2>2. delta[0][c] \in Nat BY <1>2, <1>3
  <2>3. QED BY <1>7, <1>10, <2>1, <2>2 DEF With
<1>12. \A l \in Slots : l # 0 => With(l, c)' = With(l, c)
  BY <1>7, <1>9, WithSame
<1>13. QED BY <1>1, <1>7, <1>11, <1>12, BalanceAdvanced

\* Only statistics of the leader that are not final, and counts that no reset
\* has met, come from such.
LEMMA ExactBefore ==
  ASSUME Inv, Collects(0), [Next]_vars, Exact'
  PROVE  Exact /\ CountersKept' \subseteq CountersKept
<1>1. pc # "crashed"
  <2>1. SUFFICES ASSUME pc = "crashed" PROVE FALSE OBVIOUS
  <2>2. ~StartNext
    BY <2>1 DEF StartNext, parse_config_file, main_returns, create_ip_addrs,
       create_thr_subbatches, cut_subbatch, cut_out_of_scope, cut_fails, cut_ends,
       start_thread, start_thread_fails, start_ends, start_beyond, batch_function,
       batch_function_fails, main_joined, join_crashes
  <2>3. ~Followed BY <2>1 DEF Followed
  <2>4. UNCHANGED vars
    BY <2>2, <2>3 DEF Next, Loading, Event, event_crashes, Store,
       dump_snapshot_interval, dump_final_statistics, CollectAdd, CollectReset,
       AdvanceTotal, FinalTotal, FinalShort, FinalEnd, batch_returns, sigint
  <2>5. pc' = pc BY <2>4 DEF vars, startVars
  <2>6. QED BY <2>1, <2>5 DEF Exact
<1>2. ~raced
  BY DEF Exact, Next, vars, statVars, Event, event_crashes, Store,
     dump_snapshot_interval, dump_final_statistics, CollectAdd, CollectReset,
     AdvanceTotal, FinalTotal, FinalShort, FinalEnd, Dumped, batch_returns, sigint
<1>3. ended \subseteq ended'
  <2>1. [StartStep]_startVars BY StepsOfStart
  <2>2. CASE StartNext
    BY <2>2 DEF StartNext, parse_config_file, main_returns, create_ip_addrs,
       create_thr_subbatches, cut_subbatch, cut_out_of_scope, cut_fails, cut_ends,
       start_thread, start_thread_fails, start_ends, start_beyond, batch_function,
       batch_function_fails, main_joined, join_crashes
  <2>3. CASE ThreadEnds \/ UNCHANGED startVars
    BY <2>3 DEF ThreadEnds, process_exits, process_crashes, free_batch_data_allocations,
       startVars
  <2>4. QED BY <2>1, <2>2, <2>3 DEF StartStep
<1>4. CountersKept' \subseteq CountersKept BY <1>3 DEF CountersKept, Counters
<1>5. 0 \in Slots /\ StatInv BY FirstSlot DEF Inv
<1>6. LeaderCounts
  <2>0. HttpCounters # OpCounters /\ OpCounters # {}
    BY DEF OpCounters, HttpCounters, UrlOk, UrlFailed, Requests, OtherErrs, Classes
  <2>1. LeaderCounts' BY DEF Exact
  <2>2. CASE thr'[0] = thr[0] BY <2>1, <2>2 DEF LeaderCounts
  <2>3. ASSUME thr[0].at \in {"idle", "store"} PROVE LeaderCounts
    BY <2>0, <2>3 DEF Collects, LeaderCounts
  <2>4. ASSUME NEW k \in Slots, NEW t, thr' = [thr EXCEPT ![k] = t], thr'[0] # thr[0]
        PROVE  k = 0 /\ thr'[0] = t
    BY <1>5, <2>4, OthersAlone
  <2>5. ASSUME NEW k \in Slots, Event(k) \/ Store(k) \/ dump_snapshot_interval(k)
                                \/ dump_final_statistics(k),
               thr'[0] # thr[0]
        PROVE  LeaderCounts
    <3>1. thr[k].at \in {"idle", "store"}
      BY <2>5 DEF Event, Store, dump_snapshot_interval, dump_final_statistics
    <3>2. thr' = thr \/ \E t : thr' = [thr EXCEPT ![k] = t]
      BY <2>5 DEF Event, Store, dump_snapshot_interval, dump_final_statistics
    <3>3. k = 0 BY <2>4, <2>5, <3>2
    <3>4. QED BY <2>3, <3>1, <3>3
  <2>6. ASSUME NEW k \in Slots, CollectAdd(k) \/ CollectReset(k), thr'[0] # thr[0]
        PROVE  LeaderCounts
    <3>1. Loading(k) /\ thr[k].at \in {"add", "reset"}
      BY <2>6 DEF CollectAdd, CollectReset
    <3>2. PICK r \in Thr : r = thr[k] /\ thr \in [Slots -> Thr] BY <3>1, ThreadContext
    <3>3. PICK t : thr' = [thr EXCEPT ![k] = t] /\ t.set = r.set /\ t.why = r.why
      <4>1. CASE CollectAdd(k)
        <5>1. PICK x : x = delta[k + r.j] OBVIOUS
        <5>2. PICK t : t = [r EXCEPT !.at = "reset", !.loaded = x] OBVIOUS
        <5>3. thr' = [thr EXCEPT ![k] = t] BY <3>2, <4>1, <5>1, <5>2 DEF CollectAdd
        <5>4. t.set = r.set /\ t.why = r.why BY <5>2 DEF Thr
        <5>5. QED BY <5>3, <5>4
      <4>2. CASE CollectReset(k)
        <5>1. PICK a : a = CollectFrom(r.j + 1) OBVIOUS
        <5>2. PICK t : t = [r EXCEPT !.at = a, !.j = r.j + 1, !.loaded = Zero] OBVIOUS
        <5>3. thr' = [thr EXCEPT ![k] = t] BY <3>2, <4>2, <5>1, <5>2 DEF CollectReset
        <5>4. t.set = r.set /\ t.why = r.why BY <5>2 DEF Thr
        <5>5. QED BY <5>3, <5>4
      <4>3. QED BY <2>6, <4>1, <4>2
    <3>4. k = 0 /\ thr'[0] = t BY <2>4, <2>6, <3>3
    <3>5. QED BY <2>1, <3>1, <3>2, <3>3, <3>4 DEF LeaderCounts
  <2>7. ASSUME NEW k \in Slots, AdvanceTotal(k) \/ FinalTotal(k), thr'[0] # thr[0]
        PROVE  LeaderCounts
    <3>1. /\ thr[k].at = "total"
          /\ thr[k].why = "interval" \/ thr[k].set = HttpCounters
      BY <2>7 DEF AdvanceTotal, FinalTotal
    <3>2. \E t : thr' = [thr EXCEPT ![k] = t] BY <2>7 DEF AdvanceTotal, FinalTotal
    <3>3. k = 0 BY <2>4, <2>7, <3>2
    <3>4. QED BY <2>0, <3>1, <3>3 DEF LeaderCounts
  <2>8. ASSUME NEW k \in Slots, FinalShort(k) \/ FinalEnd(k), thr'[0] # thr[0]
        PROVE  LeaderCounts
    <3>1. PICK t : t = [Idle EXCEPT !.at = "dumped"] OBVIOUS
    <3>2. thr' = [thr EXCEPT ![k] = t] BY <2>8, <3>1 DEF FinalShort, FinalEnd, Dumped
    <3>3. thr'[0] = t BY <2>4, <2>8, <3>2
    <3>4. t.at = "dumped" BY <3>1 DEF Idle
    <3>5. QED BY <2>1, <3>3, <3>4 DEF LeaderCounts
  <2>9. ASSUME \/ StartNext /\ UNCHANGED <<clientVars, statVars, loading_mode, stop_loading>>
               \/ \E k \in Slots : event_crashes(k) \/ batch_returns(k)
               \/ sigint \/ UNCHANGED vars
        PROVE  UNCHANGED thr
    BY <2>9 DEF statVars, event_crashes, batch_returns, sigint, vars
  <2>10. QED BY <2>2, <2>5, <2>6, <2>7, <2>8, <2>9 DEF Next
<1>7. QED BY <1>1, <1>2, <1>4, <1>6 DEF Exact

\* The other steps, one after the other.
LEMMA ConservedInductive ==
  ASSUME Inv, Inv', Numbered, UrlsFirst, UrlsUncounted,
         \A k \in Slots : Collects(k), Conserved, [Next]_vars
  PROVE  Conserved'
<1>1. SUFFICES ASSUME Exact', NEW c \in CountersKept' PROVE Balance(c)'
  BY ConservedIs DEF Conserved, Exact, CountersKept, Balance, With
<1>2. Collects(0) BY FirstSlot
<1>3. Exact /\ c \in CountersKept BY <1>1, <1>2, ExactBefore
<1>4. Balance(c) BY <1>3, ConservedIs
<1>5. c \in Counters BY <1>3 DEF CountersKept, Counters
<1>6. ~raced' /\ LeaderCounts' /\ pc' # "crashed" BY <1>1 DEF Exact
<1>7. ASSUME UNCHANGED <<thr, delta, total, st>> PROVE Balance(c)'
  <2>1. \A k \in Slots : With(k, c)' = With(k, c) BY <1>7, WithSame
  <2>2. QED BY <1>4, <1>7, <2>1, BalanceKept
<1>8. ASSUME NEW k \in Slots, dump_snapshot_interval(k) \/ dump_final_statistics(k)
      PROVE  Balance(c)'
  <2>1. Loading(k) /\ thr[k].at = "idle" /\ UNCHANGED <<delta, total, st>>
    BY <1>8 DEF dump_snapshot_interval, dump_final_statistics, clientVars
  <2>2. PICK t : thr' = [thr EXCEPT ![k] = t] /\ t.at \notin {"store", "reset"}
    <3>1. \A set, why : Collecting(set, why).at \notin {"store", "reset"}
      BY CollectingIs
    <3>2. \E set, why : thr' = [thr EXCEPT ![k] = Collecting(set, why)]
      BY <1>8 DEF dump_snapshot_interval, dump_final_statistics
    <3>3. QED BY <3>1, <3>2
  <2>3. thr[k].at \notin {"store", "reset"} /\ total'[0][c] = total[0][c] BY <2>1
  <2>4. QED BY <1>4, <1>5, <2>1, <2>2, <2>3, QuietBalances
<1>9. ASSUME NEW k \in Slots, FinalTotal(k) \/ FinalShort(k) \/ FinalEnd(k)
      PROVE  Balance(c)'
  <2>1. /\ Loading(k) /\ thr[k].at = "total" /\ thr[k].why # "interval"
        /\ UNCHANGED <<delta, st>>
        /\ total' = [total EXCEPT ![k] = Added(@, delta[k], thr[k].set)]
    BY <1>9 DEF FinalTotal, FinalShort, FinalEnd, Dumped, clientVars, total_advanced
  <2>2. PICK t : /\ thr' = [thr EXCEPT ![k] = t] /\ t.at \notin {"store", "reset"}
                 /\ t.at = "dumped" \/ (t.set = OpCounters /\ t.why # "interval")
    <3>1. PICK t : t = [Idle EXCEPT !.at = "dumped"] OBVIOUS
    <3>2. t.at = "dumped" BY <3>1 DEF Idle
    <3>3. PICK u : u = Collecting(OpCounters, thr[k].why) OBVIOUS
    <3>4. u.at \in {"add", "total"} /\ u.set = OpCounters /\ u.why = thr[k].why
      BY <3>3, CollectingIs
    <3>5. thr' = [thr EXCEPT ![k] = t] \/ thr' = [thr EXCEPT ![k] = u]
      BY <1>9, <3>1, <3>3 DEF FinalTotal, FinalShort, FinalEnd, Dumped
    <3>6. QED BY <2>1, <3>2, <3>4, <3>5
  <2>3. k # 0
    <3>1. thr'[k] = t BY <2>2, OthersAlone DEF Inv
    <3>2. QED BY <1>6, <2>2, <3>1 DEF LeaderCounts
  <2>4. total'[0][c] = total[0][c]
    <3>1. total \in [Slots -> [Counters -> Nat]] BY <2>1, ThreadContext
    <3>2. QED BY <2>1, <2>3, <3>1, FirstSlot
  <2>5. thr[k].at \notin {"store", "reset"} BY <2>1
  <2>6. QED BY <1>4, <1>5, <2>1, <2>2, <2>4, <2>5, QuietBalances
<1>10. ASSUME NEW k \in Slots, batch_returns(k) PROVE Balance(c)'
  <2>1. /\ Loading(k) /\ UNCHANGED <<thr, total, st>>
        /\ delta' = [delta EXCEPT ![k] = ResetOf(@, OpCounters)] /\ k \in ended'
    BY <1>10 DEF batch_returns, clientVars, free_batch_data_allocations
  <2>2. c \in HttpCounters BY <1>1, <2>1 DEF CountersKept
  <2>3. c \notin OpCounters
    BY <2>2 DEF OpCounters, HttpCounters, UrlOk, UrlFailed, Requests, OtherErrs, Classes
  <2>4. ResetOf(delta[k], OpCounters)[c] = delta[k][c]
    BY <1>5, <2>3 DEF ResetOf
  <2>5. delta \in [Slots -> [Counters -> Nat]] BY <2>1, ThreadContext
  <2>6. \A l \in Slots : delta'[l][c] = delta[l][c] BY <2>1, <2>4, <2>5
  <2>7. \A l \in Slots : With(l, c)' = With(l, c) BY <2>1, <2>6, WithSame
  <2>8. QED BY <1>4, <2>1, <2>7, BalanceKept
<1>11. ASSUME NEW k \in Slots,
              Event(k) \/ Store(k) \/ CollectAdd(k) \/ CollectReset(k) \/ AdvanceTotal(k)
       PROVE  Balance(c)'
  <2>1. Collects(k) OBVIOUS
  <2>2. QED
    BY <1>3, <1>4, <1>5, <1>6, <1>11, <2>1, EventBalances, StoreBalances, AddBalances,
       ResetBalances, AdvanceBalances
<1>12. ASSUME NEW k \in Slots, event_crashes(k) PROVE FALSE
  BY <1>6, <1>12 DEF event_crashes, process_crashes
<1>13. ASSUME \/ StartNext /\ UNCHANGED <<clientVars, statVars, loading_mode, stop_loading>>
              \/ sigint \/ UNCHANGED vars
       PROVE  UNCHANGED <<thr, delta, total, st>>
  BY <1>13 DEF statVars, clientVars, sigint, vars
<1>14. QED
  BY <1>7, <1>8, <1>9, <1>10, <1>11, <1>12, <1>13 DEF Next

\* The numbers of the batches, where their counters of urls are, what threads
\* collect, and the balance.
TotalsInv ==
  /\ Numbered /\ UrlsFirst /\ NotBegun /\ UrlsUncounted
  /\ \A k \in Slots : Collects(k)
  /\ Conserved

\* Nothing is lost and nothing counted twice between the clients and the totals
\* of the leader, as long as no count and reset have met (statistics.c:351).
THEOREM CountsConserved == Spec => []Conserved
<1>1. Init => TotalsInv
  <2> SUFFICES ASSUME Init PROVE TotalsInv OBVIOUS
  <2>1. \A k \in Slots : thr[k] = Idle /\ delta[k] = Zero /\ total[k] = Zero
    BY DEF Init
  <2>2. \A k \in Slots : st[k] = Zero BY LoadAssumption DEF Init, ClientInit
  <2>3. Idle.at = "idle" /\ Idle.why = "none" /\ Idle.set = {} BY DEF Idle
  <2>4. \A c \in Counters : Zero[c] = 0 BY DEF Zero
  <2>5. created = {} /\ ended = {} /\ pc = "parse" BY DEF Init, StartInit
  <2>6. \A k \in Slots : bc[k].op_url_num = 0 BY DEF Init, StartInit, ZeroBatch
  <2>7. Numbered /\ UrlsFirst BY <2>5, <2>6 DEF Numbered, UrlsFirst
  <2>8. NotBegun /\ \A k \in Slots : Collects(k)
    BY <2>1, <2>3 DEF NotBegun, Collects
  <2>9. UrlsUncounted BY <2>1, <2>3, <2>4 DEF UrlsUncounted, Counters
  <2>10. ASSUME NEW c \in Counters PROVE Balance(c)
    <3>1. \A k \in Slots : Stored(k, c) = 0 /\ Twice(k, c) = 0
      BY <2>1, <2>3 DEF Stored, Twice
    <3>2. \A k \in Slots : With(k, c) = 0 BY <2>1, <2>4, <3>1 DEF With
    <3>3. \A k \in Slots : st[k][c] = 0 BY <2>2, <2>4
    <3> DEFINE g == [k \in Slots |-> With(k, c)]
               h == [k \in Slots |-> st[k][c]]
    <3>4. /\ g \in [Slots -> Int] /\ \A k \in Slots : g[k] = 0
          /\ h \in [Slots -> Int] /\ \A k \in Slots : h[k] = 0
      BY <3>2, <3>3
    <3>5. Balance(c) <=> total[0][c] + Sum(g) = Sum(h) BY DEF Balance
    <3> HIDE DEF g, h
    <3>6. Sum(g) = 0 /\ Sum(h) = 0 BY <3>4, SumZero
    <3>7. total[0][c] = 0 BY <2>1, <2>4, FirstSlot
    <3>8. QED BY <3>5, <3>6, <3>7
  <2>11. Conserved BY <2>10, ConservedIs DEF CountersKept, Counters
  <2>12. QED BY <2>7, <2>8, <2>9, <2>11 DEF TotalsInv
<1>2. Inv /\ Inv' /\ TotalsInv /\ [Next]_vars => TotalsInv'
  <2> SUFFICES ASSUME Inv, Inv', TotalsInv, [Next]_vars PROVE TotalsInv' OBVIOUS
  <2> USE DEF TotalsInv
  <2>1. StartInv /\ [StartStep]_startVars BY StepsOfStart DEF Inv
  <2>2. Numbered' /\ UrlsFirst' BY <2>1, NumberedInductive, UrlsFirstInductive
  <2>3. NotBegun' BY NotBegunInductive
  <2>4. UrlsUncounted' BY UrlsUncountedInductive
  <2>5. (\A k \in Slots : Collects(k))' BY CollectsInductive
  <2>6. Conserved' BY ConservedInductive
  <2>7. QED BY <2>2, <2>3, <2>4, <2>5, <2>6
<1>3. TotalsInv => Conserved BY DEF TotalsInv
<1>4. QED BY <1>1, <1>2, <1>3, ThreadsInvariant, PTL DEF Spec
=============================================================================
