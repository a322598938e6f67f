---------------------------- MODULE ThreadsProofs ----------------------------
(***************************************************************************)
(* The start of the program, its clients and its threads, for every number *)
(* of threads and batches and every configuration: batches that run are    *)
(* equipped, addresses are dedicated and on the interface, requests and    *)
(* responses are counted once, and collecting stays within the batches.    *)
(*                                                                         *)
(* The invariant has five parts that are inductive one after the other:    *)
(* the stages of main (StartInv), the order of the addresses (Rising) and  *)
(* their cover by the interface (Covered), the flags of the clients        *)
(* (ClientInv), and what collecting threads have reached (StatInv).        *)
(***************************************************************************)
EXTENDS Threads, TLAPS

(***************************************************************************)
(* Numbers.                                                                *)
(***************************************************************************)

\* Products keep the order of their first factors.
LEMMA ProductsOrdered ==
  ASSUME NEW a \in Nat, NEW b \in Nat, NEW s \in Nat, a <= b
  PROVE  a * s \in Nat /\ b * s \in Nat /\ a * s <= b * s
<1>1. PICK d \in Nat : b = a + d
  <2>1. b - a \in Nat /\ b = a + (b - a) OBVIOUS
  <2>2. QED BY <2>1
<1>2. b * s = a * s + d * s BY <1>1
<1>3. a * s \in Nat /\ d * s \in Nat BY <1>1
<1>4. QED BY <1>2, <1>3

\* What division leaves.
LEMMA Quotient ==
  ASSUME NEW a \in Nat, NEW t \in Nat \ {0}
  PROVE  /\ a \div t \in Nat
         /\ t * (a \div t) <= a
         /\ a < t * (a \div t) + t
         /\ a % t \in 0 .. t - 1
OBVIOUS

\* Shares of what is less are no greater.
LEMMA SharesOrdered ==
  ASSUME NEW a \in Nat, NEW b \in Nat, NEW t \in Nat \ {0}, a <= b
  PROVE  a \div t <= b \div t
<1> DEFINE p == a \div t
           q == b \div t
<1>1. p \in Nat /\ q \in Nat /\ t * p <= a /\ b < t * q + t
  BY Quotient
<1> HIDE DEF p, q
<1>2. ASSUME q + 1 <= p PROVE FALSE
  <2>1. (q + 1) * t <= p * t BY <1>1, <1>2, ProductsOrdered
  <2>2. (q + 1) * t = t * q + t /\ p * t = t * p BY <1>1
  <2>3. t * q \in Nat /\ t * p \in Nat BY <1>1
  <2>4. QED BY <1>1, <2>1, <2>2, <2>3
<1>3. p <= q BY <1>1, <1>2
<1>4. QED BY <1>3 DEF p, q

\* A share is one at least if there is one for each.
LEMMA ShareForEach ==
  ASSUME NEW a \in Nat, NEW t \in Nat \ {0}, t <= a
  PROVE  1 <= a \div t /\ a \div t <= a
<1> DEFINE p == a \div t
<1>1. p \in Nat /\ t * p <= a /\ a < t * p + t
  BY Quotient
<1> HIDE DEF p
<1>2. p # 0 BY <1>1
<1>3. p <= t * p
  <2>1. 1 * p <= t * p BY <1>1, ProductsOrdered
  <2>2. QED BY <1>1, <2>1
<1>4. t * p \in Nat BY <1>1
<1>5. QED BY <1>1, <1>2, <1>3, <1>4 DEF p
-----------------------------------------------------------------------------
(***************************************************************************)
(* Batches: what the operations of main make of them.                      *)
(***************************************************************************)

ConfValid(c) ==
  /\ c.client_num_max \in Nat \ {0}
  /\ c.client_num_start \in 0 .. c.client_num_max
  /\ c.clients_rampup_inc \in Nat
  /\ SharedNum(c) \in Nat
  /\ ~c.ipv6 /\ SharedNum(c) = 0 =>
       c.ip_addr_max - c.ip_addr_min + 1 >= c.client_num_max

\* What validate_batch_general leaves is a batch that can be set up.
LEMMA Validated ==
  ASSUME NEW c \in Configs, validate_batch_general(c)
  PROVE  ConfValid(c)
<1>1. c \in ConfigFields BY StartAssumption
<1>2. SharedNum(c) \in Nat BY <1>1 DEF SharedNum, ConfigFields
<1>3. QED BY <1>1, <1>2 DEF validate_batch_general, ConfValid, ConfigFields

\* post_validate_init makes a batch of it.
LEMMA PostValidated ==
  ASSUME NEW c \in Configs, ConfValid(c)
  PROVE  post_validate_init(c) \in Batch
<1>1. c \in ConfigFields BY StartAssumption
<1>2. <<>> \in Seq(Nat) OBVIOUS
<1>3. QED BY <1>1, <1>2 DEF ConfValid, post_validate_init, Batch, ConfigFields

\* A batch context that nobody has written.
LEMMA ZeroIsBatch == ZeroBatch \in Batch
<1>1. <<>> \in Seq(Nat) OBVIOUS
<1>2. QED BY <1>1 DEF ZeroBatch, Batch

\* The address of a client, shared or not.
LEMMA AddressType ==
  ASSUME NEW b \in Batch, NEW j \in Nat
  PROVE  /\ Address(b, j) \in Nat
         /\ b.ip_shared_num = 0 => Address(b, j) = b.ip_addr_min + j
         /\ b.ip_shared_num # 0 =>
              Address(b, j) \in b.ip_addr_min .. b.ip_addr_min + b.ip_shared_num - 1
<1>1. b.ip_addr_min \in Nat /\ b.ip_shared_num \in Nat /\ b.shared_index \in Nat
  BY DEF Batch
<1>2. CASE b.ip_shared_num = 0 BY <1>1, <1>2 DEF Address
<1>3. CASE b.ip_shared_num # 0
  <2>1. \A a \in Nat, t \in Nat \ {0} : a % t \in 0 .. t - 1 BY Quotient
  <2>2. b.shared_index + j \in Nat /\ b.ip_shared_num \in Nat \ {0}
    BY <1>1, <1>3
  <2>3. (b.shared_index + j) % b.ip_shared_num \in 0 .. b.ip_shared_num - 1
    BY <2>1, <2>2
  <2>4. QED BY <1>1, <1>3, <2>3 DEF Address
<1>4. QED BY <1>2, <1>3

\* Giving addresses leaves the rest of a batch alone.
LEMMA WithAddressesFields ==
  ASSUME NEW b \in Batch, NEW n \in Nat
  PROVE  /\ WithAddresses(b, n) \in Batch
         /\ WithAddresses(b, n).client_num_max = b.client_num_max
         /\ WithAddresses(b, n).client_num_start = b.client_num_start
         /\ WithAddresses(b, n).cctx_array = b.cctx_array
         /\ WithAddresses(b, n).ip_addr_min = b.ip_addr_min
         /\ WithAddresses(b, n).ip_addr_max = b.ip_addr_max
         /\ WithAddresses(b, n).ip_shared_num = b.ip_shared_num
         /\ WithAddresses(b, n).ipv6 = b.ipv6
         /\ Len(WithAddresses(b, n).ip_addr_array) = n
         /\ \A p \in 1 .. n :
              WithAddresses(b, n).ip_addr_array[p] = Address(b, p - 1)
<1> DEFINE arr == [j \in 1 .. n |-> Address(b, j - 1)]
           s == SharedIndexAfter(b, n)
<1>1. \A j \in 1 .. n : Address(b, j - 1) \in Nat BY AddressType
<1>2. arr \in Seq(Nat) /\ Len(arr) = n BY <1>1
<1>3. s \in Nat
  <2>1. b.ip_shared_num \in Nat /\ b.shared_index \in Nat BY DEF Batch
  <2>2. CASE b.ip_shared_num = 0 BY <2>1, <2>2 DEF SharedIndexAfter
  <2>3. CASE b.ip_shared_num # 0
    <3>1. \A a \in Nat, t \in Nat \ {0} : a % t \in 0 .. t - 1 BY Quotient
    <3>2. b.shared_index + n \in Nat /\ b.ip_shared_num \in Nat \ {0}
      BY <2>1, <2>3
    <3>3. (b.shared_index + n) % b.ip_shared_num \in 0 .. b.ip_shared_num - 1
      BY <3>1, <3>2
    <3>4. QED BY <2>1, <2>3, <3>3 DEF SharedIndexAfter
  <2>4. QED BY <2>2, <2>3
<1>4. \A p \in 1 .. n : arr[p] = Address(b, p - 1) OBVIOUS
<1>5. WithAddresses(b, n) = [b EXCEPT !.ip_addr_array = arr, !.shared_index = s]
  BY DEF WithAddresses
<1> HIDE DEF arr, s
<1>6. QED BY <1>2, <1>3, <1>4, <1>5 DEF Batch
-----------------------------------------------------------------------------
(***************************************************************************)
(* Cutting.                                                                *)
(***************************************************************************)

\* The batch that is cut.
Whole == WithAddresses(post_validate_init(conf), conf.client_num_max)

\* create_thr_subbatches is at work.
Cutting ==
  /\ ConfValid(conf)
  /\ threads # 0 /\ threads <= BATCHES_MAX_NUM
  /\ threads <= conf.client_num_max
  /\ SharedNum(conf) <= threads
  /\ master = Whole
  /\ i \in 0 .. threads
  /\ \A k \in Slots : k >= i /\ k # 0 => bc[k] = ZeroBatch
  /\ i = 0 => bc[0] = Whole

\* The batch that is cut is that of the configuration.
LEMMA WholeFields ==
  ASSUME conf \in Configs, ConfValid(conf)
  PROVE  /\ Whole \in Batch
         /\ Whole.client_num_max = conf.client_num_max
         /\ Whole.client_num_start = conf.client_num_start
         /\ Whole.cctx_array = conf.client_num_max
         /\ Whole.ip_addr_min = conf.ip_addr_min
         /\ Whole.ip_addr_max = conf.ip_addr_max
         /\ Whole.ip_shared_num = SharedNum(conf)
         /\ Whole.ipv6 = conf.ipv6
         /\ Len(Whole.ip_addr_array) = conf.client_num_max
         /\ \A p \in 1 .. conf.client_num_max :
              Whole.ip_addr_array[p] = Address(post_validate_init(conf), p - 1)
<1>1. post_validate_init(conf) \in Batch BY PostValidated
<1>2. conf.client_num_max \in Nat BY DEF ConfValid
<1>3. /\ post_validate_init(conf).client_num_max = conf.client_num_max
      /\ post_validate_init(conf).client_num_start = conf.client_num_start
      /\ post_validate_init(conf).cctx_array = conf.client_num_max
      /\ post_validate_init(conf).ip_addr_min = conf.ip_addr_min
      /\ post_validate_init(conf).ip_addr_max = conf.ip_addr_max
      /\ post_validate_init(conf).ip_shared_num = SharedNum(conf)
      /\ post_validate_init(conf).ipv6 = conf.ipv6
  BY DEF post_validate_init
<1>4. QED BY <1>1, <1>2, <1>3, WithAddressesFields DEF Whole

\* Every sub-batch has clients, and starts with no more than it has.
LEMMA SharesSound ==
  ASSUME conf \in Configs, Cutting, threads \in Nat
  PROVE  /\ ClientsPerThread \in 1 .. conf.client_num_max
         /\ ShareOf(master.client_num_start) \in 0 .. ClientsPerThread
         /\ ShareOf(master.clients_rampup_inc) \in Nat
<1>1. /\ conf.client_num_max \in Nat \ {0} /\ conf.client_num_start \in Nat
      /\ conf.client_num_start <= conf.client_num_max
      /\ threads \in Nat \ {0} /\ threads <= conf.client_num_max
  BY DEF Cutting, ConfValid
<1>2. /\ master.client_num_max = conf.client_num_max
      /\ master.client_num_start = conf.client_num_start
  BY WholeFields DEF Cutting
<1>3. master.clients_rampup_inc \in Nat
  <2>1. master.clients_rampup_inc = conf.clients_rampup_inc
    BY DEF Cutting, Whole, WithAddresses, post_validate_init
  <2>2. QED BY <2>1 DEF Cutting, ConfValid
<1>4. /\ 1 <= conf.client_num_max \div threads
      /\ conf.client_num_max \div threads <= conf.client_num_max
  BY <1>1, ShareForEach
<1>5. \A a \in Nat : a \div threads \in Nat BY <1>1, Quotient
<1>6. conf.client_num_start \div threads <= conf.client_num_max \div threads
  BY <1>1, SharesOrdered
<1>7. QED
  BY <1>1, <1>2, <1>3, <1>4, <1>5, <1>6 DEF ClientsPerThread, ShareOf

\* The addresses of a sub-batch are natural numbers.
LEMMA RangeTypes ==
  ASSUME conf \in Configs, Cutting, threads \in Nat, bc \in [Slots -> Batch],
         i # threads
  PROVE  /\ FirstAddress(i) \in Nat /\ EndAddress(i) \in Nat
         /\ master.ip_shared_num = 0 =>
              EndAddress(i) = FirstAddress(i) + ClientsPerThread
<1>1. master \in Batch BY WholeFields DEF Cutting
<1>2. master.ip_addr_min \in Nat /\ master.ip_addr_max \in Nat
  BY <1>1 DEF Batch
<1>3. ClientsPerThread \in Nat BY SharesSound
<1>4. i # 0 => bc[i - 1].ip_addr_max \in Nat
  <2>1. SUFFICES ASSUME i # 0 PROVE bc[i - 1].ip_addr_max \in Nat OBVIOUS
  <2>2. i - 1 \in Slots BY <2>1, StartAssumption DEF Cutting, Slots
  <2>3. QED BY <2>2 DEF Batch
<1>5. FirstAddress(i) \in Nat BY <1>2, <1>4 DEF FirstAddress
<1>6. QED BY <1>2, <1>3, <1>5 DEF EndAddress

\* A batch with contexts has clients, and a context for each.
Equipped(b) ==
  b.cctx_array # 0 =>
    /\ b.client_num_max \in 1 .. b.cctx_array
    /\ b.client_num_start \in 0 .. b.client_num_max

\* The sub-batch before it gets addresses.
Unaddressed == [Sized(i) EXCEPT !.ip_shared_num = master.ip_shared_num]

\* An iteration before it gives addresses: the settings are written, the arrays
\* are still those that were there.
LEMMA SizedFields ==
  ASSUME conf \in Configs, Cutting, threads \in Nat, bc \in [Slots -> Batch],
         i # threads
  PROVE  /\ Sized(i) \in Batch
         /\ Sized(i).client_num_max = ClientsPerThread
         /\ Sized(i).client_num_start = ShareOf(master.client_num_start)
         /\ Sized(i).cctx_array = bc[i].cctx_array
         /\ Sized(i).ip_addr_array = bc[i].ip_addr_array
         /\ bc[i] \in Batch
         /\ bc[i].cctx_array = IF i = 0 THEN conf.client_num_max ELSE 0
         /\ Unaddressed \in Batch
         /\ Unaddressed.client_num_max = ClientsPerThread
         /\ Unaddressed.client_num_start = ShareOf(master.client_num_start)
         /\ Unaddressed.cctx_array = bc[i].cctx_array
         /\ Unaddressed.ip_addr_min = FirstAddress(i)
         /\ Unaddressed.ip_addr_max = EndAddress(i)
         /\ Unaddressed.ip_shared_num = master.ip_shared_num
<1>1. /\ ClientsPerThread \in Nat
      /\ ShareOf(master.client_num_start) \in Nat
      /\ ShareOf(master.clients_rampup_inc) \in Nat
  BY SharesSound
<1>2. FirstAddress(i) \in Nat /\ EndAddress(i) \in Nat BY RangeTypes
<1>3. master \in Batch BY WholeFields DEF Cutting
<1>4. master.ipv6 \in BOOLEAN /\ master.ip_shared_num \in Nat
  BY <1>3 DEF Batch
<1>5. i \in Slots BY StartAssumption DEF Cutting, Slots
<1>6. bc[i] \in Batch BY <1>5
<1>7. bc[i].cctx_array = IF i = 0 THEN conf.client_num_max ELSE 0
  <2>1. CASE i = 0
    <3>1. bc[i] = Whole BY <2>1 DEF Cutting
    <3>2. QED BY <2>1, <3>1, WholeFields DEF Cutting
  <2>2. CASE i # 0
    <3>1. i \in Nat /\ i >= i BY DEF Cutting
    <3>2. bc[i] = ZeroBatch BY <1>5, <2>2, <3>1 DEF Cutting
    <3>3. QED BY <2>2, <3>2 DEF ZeroBatch
  <2>3. QED BY <2>1, <2>2
<1> DEFINE q == ClientsPerThread
           s == ShareOf(master.client_num_start)
           r == ShareOf(master.clients_rampup_inc)
           f == FirstAddress(i)
           e == EndAddress(i)
           v == master.ipv6
<1>8. Sized(i) = [bc[i] EXCEPT !.client_num_max = q, !.client_num_start = s,
                     !.clients_rampup_inc = r, !.ipv6 = v,
                     !.ip_addr_min = f, !.ip_addr_max = e]
  BY DEF Sized
<1>9. q \in Nat /\ s \in Nat /\ r \in Nat /\ f \in Nat /\ e \in Nat
  BY <1>1, <1>2
<1> HIDE DEF q, s, r, f, e, v
<1>10. /\ Sized(i) \in Batch
       /\ Sized(i).client_num_max = q /\ Sized(i).client_num_start = s
       /\ Sized(i).cctx_array = bc[i].cctx_array
       /\ Sized(i).ip_addr_array = bc[i].ip_addr_array
       /\ Sized(i).ip_addr_min = f /\ Sized(i).ip_addr_max = e
  <2>1. v \in BOOLEAN BY <1>4 DEF v
  <2> DEFINE x == [bc[i] EXCEPT !.client_num_max = q, !.client_num_start = s]
             y == [x EXCEPT !.clients_rampup_inc = r, !.ipv6 = v]
             z == [y EXCEPT !.ip_addr_min = f, !.ip_addr_max = e]
  <2>2. q \in Int /\ s \in Int /\ r \in Int BY <1>9
  <2>3. /\ x \in Batch
        /\ x.client_num_max = q /\ x.client_num_start = s
        /\ x.cctx_array = bc[i].cctx_array
        /\ x.ip_addr_array = bc[i].ip_addr_array
    BY <1>6, <2>2 DEF Batch
  <2>4. Sized(i) = z BY <1>8
  <2> HIDE DEF x
  <2>5. /\ y \in Batch
        /\ y.client_num_max = q /\ y.client_num_start = s
        /\ y.cctx_array = bc[i].cctx_array
        /\ y.ip_addr_array = bc[i].ip_addr_array
    BY <2>1, <2>2, <2>3 DEF Batch
  <2> HIDE DEF y
  <2>6. /\ z \in Batch
        /\ z.client_num_max = q /\ z.client_num_start = s
        /\ z.cctx_array = bc[i].cctx_array
        /\ z.ip_addr_array = bc[i].ip_addr_array
        /\ z.ip_addr_min = f /\ z.ip_addr_max = e
    BY <1>9, <2>5 DEF Batch
  <2> HIDE DEF z
  <2>7. QED BY <2>4, <2>6
<1>11. /\ Unaddressed \in Batch
       /\ Unaddressed.client_num_max = q /\ Unaddressed.client_num_start = s
       /\ Unaddressed.cctx_array = bc[i].cctx_array
       /\ Unaddressed.ip_addr_min = f /\ Unaddressed.ip_addr_max = e
       /\ Unaddressed.ip_shared_num = master.ip_shared_num
  BY <1>4, <1>10 DEF Batch, Unaddressed
<1>12. QED BY <1>6, <1>7, <1>10, <1>11 DEF q, s, f, e

\* What an iteration makes of its batch, at whatever point it fails.
LEMMA IterationFields ==
  ASSUME conf \in Configs, Cutting, threads \in Nat, bc \in [Slots -> Batch],
         i # threads,
         NEW n \in Nat, n <= ClientsPerThread, NEW b \in CutShort(i, n)
  PROVE  /\ b \in Batch /\ Equipped(b)
         /\ b.ip_addr_max = EndAddress(i)
         /\ Len(b.ip_addr_array) \in 0 .. ClientsPerThread
         /\ \A p \in 1 .. Len(b.ip_addr_array) :
              b.ip_addr_array[p] = Address(Unaddressed, p - 1)
<1> DEFINE q == ClientsPerThread
           s == ShareOf(master.client_num_start)
<1>1. /\ q \in 1 .. conf.client_num_max /\ s \in 0 .. q
      /\ conf.client_num_max \in Nat
  BY SharesSound DEF Cutting, ConfValid
<1>2. master \in Batch BY WholeFields DEF Cutting
<1>3. conf.urls_num \in Nat BY StartAssumption DEF ConfigFields
<1>4. /\ bc[i] \in Batch
      /\ bc[i].cctx_array = IF i = 0 THEN conf.client_num_max ELSE 0
      /\ bc[i].free_clients_count \in Nat
  BY SizedFields DEF Batch
<1>5. ASSUME NEW m \in 0 .. q
      PROVE  /\ Addressed(i, m) \in Batch
             /\ Addressed(i, m).client_num_max = q
             /\ Addressed(i, m).client_num_start = s
             /\ Addressed(i, m).cctx_array = bc[i].cctx_array
             /\ Addressed(i, m).ip_addr_max = EndAddress(i)
             /\ Len(Addressed(i, m).ip_addr_array) = m
             /\ \A p \in 1 .. m :
                  Addressed(i, m).ip_addr_array[p] = Address(Unaddressed, p - 1)
  <2>1. m \in Nat BY <1>1
  <2>2. /\ Unaddressed \in Batch
        /\ Unaddressed.client_num_max = q
        /\ Unaddressed.client_num_start = s
        /\ Unaddressed.cctx_array = bc[i].cctx_array
        /\ Unaddressed.ip_addr_max = EndAddress(i)
    BY SizedFields
  <2>3. PICK u \in Batch : u = Unaddressed BY <2>2
  <2>4. Addressed(i, m) = WithAddresses(u, m)
    BY <2>3 DEF Addressed, Unaddressed
  <2> HIDE DEF q, s
  <2>5. PICK x : x = WithAddresses(u, m) OBVIOUS
  <2>6. /\ x \in Batch
        /\ x.client_num_max = u.client_num_max
        /\ x.client_num_start = u.client_num_start
        /\ x.cctx_array = u.cctx_array
        /\ x.ip_addr_max = u.ip_addr_max
        /\ Len(x.ip_addr_array) = m
        /\ \A p \in 1 .. m : x.ip_addr_array[p] = Address(u, p - 1)
    BY <2>1, <2>3, <2>5, WithAddressesFields
  <2>7. QED BY <2>2, <2>3, <2>4, <2>5, <2>6
<1>6. q \in 0 .. q /\ n \in 0 .. q BY <1>1
<1> DEFINE a == Addressed(i, q)
           w == WithContexts(i)
<1>7. /\ a \in Batch
      /\ a.client_num_max = q /\ a.client_num_start = s
      /\ a.cctx_array = bc[i].cctx_array
      /\ a.ip_addr_max = EndAddress(i)
      /\ Len(a.ip_addr_array) = q
      /\ \A p \in 1 .. q : a.ip_addr_array[p] = Address(Unaddressed, p - 1)
  BY <1>5, <1>6
<1>8. w = IF i = 0 THEN a
          ELSE [a EXCEPT !.cctx_array = q,
                         !.free_clients_count =
                           IF master.req_rate = 0 THEN 0 ELSE q]
  BY DEF WithContexts
<1> HIDE DEF a, w, q, s
<1>9. /\ w \in Batch
      /\ w.client_num_max = q /\ w.client_num_start = s
      /\ w.cctx_array = IF i = 0 THEN conf.client_num_max ELSE q
      /\ w.ip_addr_max = EndAddress(i)
      /\ w.ip_addr_array = a.ip_addr_array
  <2>1. CASE i = 0 BY <1>4, <1>7, <1>8, <2>1
  <2>2. CASE i # 0
    <3>1. PICK x \in Nat : x = IF master.req_rate = 0 THEN 0 ELSE q BY <1>1
    <3>2. w = [a EXCEPT !.cctx_array = q, !.free_clients_count = x]
      BY <1>8, <2>2, <3>1
    <3>3. q \in Nat BY <1>1
    <3>4. QED BY <1>7, <2>2, <3>2, <3>3 DEF Batch
  <2>3. QED BY <2>1, <2>2
<1>10. CASE b = Addressed(i, n)
  <2>1. /\ b \in Batch
        /\ b.client_num_max = q /\ b.client_num_start = s
        /\ b.cctx_array = bc[i].cctx_array
        /\ b.ip_addr_max = EndAddress(i)
        /\ Len(b.ip_addr_array) = n
        /\ \A p \in 1 .. n : b.ip_addr_array[p] = Address(Unaddressed, p - 1)
    BY <1>5, <1>6, <1>10
  <2>2. Equipped(b) BY <1>1, <1>4, <2>1 DEF Equipped
  <2>3. QED BY <1>6, <2>1, <2>2 DEF q
<1>11. CASE b # Addressed(i, n)
  <2>1. b = w \/ b = [w EXCEPT !.free_clients_count = bc[i].free_clients_count]
        \/ b = [w EXCEPT !.op_url_num = conf.urls_num]
    BY <1>11 DEF CutShort, Cut, w
  <2>2. /\ b \in Batch
        /\ b.client_num_max = q /\ b.client_num_start = s
        /\ b.cctx_array = IF i = 0 THEN conf.client_num_max ELSE q
        /\ b.ip_addr_max = EndAddress(i)
        /\ b.ip_addr_array = a.ip_addr_array
    BY <1>3, <1>4, <1>9, <2>1 DEF Batch
  <2>3. Equipped(b) BY <1>1, <2>2 DEF Equipped
  <2>4. QED BY <1>1, <1>7, <2>2, <2>3 DEF q
<1>12. QED BY <1>10, <1>11
-----------------------------------------------------------------------------
(***************************************************************************)
(* The start: types, contexts, and what each stage may rely on.            *)
(***************************************************************************)

Stages ==
  /\ pc \in {"parse", "addresses", "cut", "cutting"} => created = {}
  /\ pc = "parse" => i = 0 /\ \A k \in Slots : bc[k] = ZeroBatch
  /\ pc \in {"addresses", "cut"} =>
       i = 0 /\ ConfValid(conf) /\ \A k \in Slots \ {0} : bc[k] = ZeroBatch
  /\ pc = "addresses" => bc[0] = post_validate_init(conf)
  /\ pc = "cut" => bc[0] = Whole /\ threads # 0
  /\ pc = "cutting" => Cutting

Contexts ==
  /\ \A k \in Slots : Equipped(bc[k])
  /\ \A k \in running : bc[k].cctx_array # 0
  /\ created \subseteq 0 .. BatchesNum - 1

StartInv == StartTypes /\ Stages /\ Contexts

\* There is a first batch.
LEMMA FirstSlot == 0 \in Slots
BY StartAssumption DEF Slots

\* Nothing is set up at first.
LEMMA StartInitial == StartInit => StartInv
<1> SUFFICES ASSUME StartInit PROVE StartInv OBVIOUS
<1>1. StartTypes BY ZeroIsBatch DEF StartInit, StartTypes
<1>2. Stages BY DEF StartInit, Stages
<1>3. Contexts BY DEF StartInit, Contexts, Equipped, ZeroBatch
<1>4. QED BY <1>1, <1>2, <1>3 DEF StartInv

\* Batches in which only batch_id or memory given back differs.
LEMMA BatchIdWritten ==
  ASSUME NEW b \in Batch, NEW d \in Nat, Equipped(b)
  PROVE  /\ [b EXCEPT !.batch_id = d] \in Batch
         /\ Equipped([b EXCEPT !.batch_id = d])
         /\ [b EXCEPT !.batch_id = d].cctx_array = b.cctx_array
         /\ [b EXCEPT !.batch_id = d].ip_addr_array = b.ip_addr_array
BY DEF Batch, Equipped

\* ... or memory given back.
LEMMA MemoryGivenBack ==
  ASSUME NEW b \in Batch
  PROVE  /\ GivenBack(b) \in Batch
         /\ Equipped(GivenBack(b))
         /\ GivenBack(b).ip_addr_array = b.ip_addr_array
BY DEF GivenBack, Batch, Equipped

\* The batch of the configuration, before and after its addresses, is equipped.
LEMMA WholeEquipped ==
  ASSUME conf \in Configs, ConfValid(conf)
  PROVE  /\ post_validate_init(conf) \in Batch /\ Equipped(post_validate_init(conf))
         /\ Whole \in Batch /\ Equipped(Whole)
<1>1. post_validate_init(conf) \in Batch BY PostValidated
<1>2. Equipped(post_validate_init(conf))
  BY DEF Equipped, post_validate_init, ConfValid
<1>3. Equipped(Whole) BY WholeFields DEF Equipped, ConfValid
<1>4. QED BY <1>1, <1>2, <1>3, WholeFields

\* The steps of main: the configuration file is read.
LEMMA ParseKeeps == StartInv /\ parse_config_file => StartInv'
<1> SUFFICES ASSUME StartInv, parse_config_file PROVE StartInv' OBVIOUS
<1> USE DEF StartInv
<1>1. ConfValid(conf)
  BY Validated DEF parse_config_file, StartTypes
<1>2. post_validate_init(conf) \in Batch /\ Equipped(post_validate_init(conf))
  BY <1>1, WholeEquipped DEF StartTypes
<1>3. /\ bc' = [bc EXCEPT ![0] = post_validate_init(conf)]
      /\ pc' = "addresses"
      /\ UNCHANGED <<threads, conf, master, i, iface, created, running, ended>>
  BY DEF parse_config_file
<1>4. StartTypes'
  <2>1. bc' \in [Slots -> Batch] BY <1>2, <1>3 DEF StartTypes
  <2>2. QED BY <1>3, <2>1 DEF StartTypes
<1>5. bc'[0] = post_validate_init(conf) /\ \A k \in Slots \ {0} : bc'[k] = bc[k]
  BY <1>3, FirstSlot DEF StartTypes
<1>6. pc = "parse" BY DEF parse_config_file
<1>7. Stages' BY <1>1, <1>3, <1>5, <1>6 DEF Stages, ConfValid
<1>8. Contexts' BY <1>2, <1>3, <1>5, <1>6 DEF Stages, Contexts, StartTypes, BatchesNum
<1>9. QED BY <1>4, <1>7, <1>8

\* The clients of the whole batch get addresses.
LEMMA AddressesKeep == StartInv /\ create_ip_addrs => StartInv'
<1> SUFFICES ASSUME StartInv, create_ip_addrs PROVE StartInv' OBVIOUS
<1> USE DEF StartInv
<1>1. /\ pc = "addresses" /\ ConfValid(conf) /\ conf \in Configs
      /\ bc[0] = post_validate_init(conf)
  BY DEF create_ip_addrs, Stages, StartTypes
<1>2. Whole \in Batch /\ Equipped(Whole) BY <1>1, WholeEquipped
<1>3. /\ bc' = [bc EXCEPT ![0] = Whole]
      /\ iface' = {Address(bc[0], j) : j \in 0 .. bc[0].client_num_max - 1}
      /\ pc' = IF threads = 0 THEN "start" ELSE "cut"
      /\ UNCHANGED <<threads, conf, master, i, created, running, ended>>
  BY <1>1, FirstSlot DEF create_ip_addrs, Whole, StartTypes, post_validate_init
<1>4. bc' \in [Slots -> Batch] BY <1>2, <1>3 DEF StartTypes
<1>5. iface' \subseteq Nat
  <2>1. bc[0] \in Batch BY FirstSlot DEF StartTypes
  <2>2. \A j \in 0 .. bc[0].client_num_max - 1 : Address(bc[0], j) \in Nat
    BY <2>1, AddressType
  <2>3. QED BY <1>3, <2>2
<1>6. StartTypes' BY <1>3, <1>4, <1>5 DEF StartTypes
<1>7. bc'[0] = Whole /\ \A k \in Slots \ {0} : bc'[k] = bc[k]
  BY <1>3, FirstSlot DEF StartTypes
<1>8. Stages' BY <1>1, <1>3, <1>7 DEF Stages, ConfValid, Whole
<1>9. Contexts' BY <1>1, <1>2, <1>3, <1>7 DEF Stages, Contexts, StartTypes, BatchesNum
<1>10. QED BY <1>6, <1>8, <1>9

\* Cutting begins, of a batch that is large enough.
LEMMA CutStartKeeps == StartInv /\ create_thr_subbatches => StartInv'
<1> SUFFICES ASSUME StartInv, create_thr_subbatches PROVE StartInv' OBVIOUS
<1> USE DEF StartInv
<1>1. /\ pc = "cut" /\ master' = bc[0]
      /\ pc' = IF CutRefused THEN "start" ELSE "cutting"
      /\ UNCHANGED <<threads, conf, bc, i, iface, created, running, ended>>
  BY DEF create_thr_subbatches
<1>2. StartTypes' BY <1>1, FirstSlot DEF StartTypes
<1>3. Contexts' BY <1>1 DEF Contexts, BatchesNum
<1>4. /\ conf \in Configs /\ ConfValid(conf) /\ bc[0] = Whole /\ threads # 0
      /\ threads \in Nat /\ i = 0 /\ \A k \in Slots \ {0} : bc[k] = ZeroBatch
  BY <1>1, StartAssumption DEF Stages, StartTypes
<1>5. ~CutRefused => Cutting'
  <2>1. SUFFICES ASSUME ~CutRefused PROVE Cutting' OBVIOUS
  <2>2. /\ Whole.client_num_max = conf.client_num_max
        /\ Whole.ip_shared_num = SharedNum(conf)
    BY <1>4, WholeFields
  <2>3. /\ threads <= BATCHES_MAX_NUM /\ threads <= conf.client_num_max
        /\ SharedNum(conf) <= threads
    BY <1>4, <2>1, <2>2, StartAssumption DEF CutRefused, ConfValid
  <2>4. ConfValid(conf)' /\ Whole' = Whole BY <1>1, <1>4 DEF ConfValid, Whole
  <2>5. QED BY <1>1, <1>4, <2>3, <2>4 DEF Cutting
<1>6. Stages' BY <1>1, <1>5 DEF Stages
<1>7. QED BY <1>2, <1>3, <1>6

\* In an iteration.
LEMMA IterationContext ==
  ASSUME StartInv, pc = "cutting", i < threads
  PROVE  /\ conf \in Configs /\ Cutting /\ threads \in Nat
         /\ bc \in [Slots -> Batch] /\ i # threads
         /\ i \in Slots /\ created = {} /\ running = {} /\ ended = {}
         /\ ClientsPerThread \in Nat
<1>1. /\ conf \in Configs /\ Cutting /\ threads \in Nat
      /\ bc \in [Slots -> Batch] /\ i # threads
  BY StartAssumption DEF StartInv, StartTypes, Stages
<1>2. i \in Slots BY <1>1, StartAssumption DEF Cutting, Slots
<1>3. created = {} /\ running = {} /\ ended = {}
  BY DEF StartInv, StartTypes, Stages
<1>4. ClientsPerThread \in Nat BY <1>1, SharesSound
<1>5. QED BY <1>1, <1>2, <1>3, <1>4

\* An iteration writes one batch, equipped and typed.
LEMMA BatchWritten ==
  ASSUME StartInv, pc = "cutting", i < threads,
         NEW b \in Batch, Equipped(b), bc' = [bc EXCEPT ![i] = b],
         UNCHANGED <<threads, conf, master, iface, created, running, ended>>,
         \/ pc' = "start" /\ i' = 0
         \/ pc' = "cutting" /\ i' = i + 1
  PROVE  StartInv'
<1>1. /\ conf \in Configs /\ Cutting /\ threads \in Nat
      /\ bc \in [Slots -> Batch] /\ i # threads
      /\ i \in Slots /\ created = {} /\ running = {} /\ ended = {}
  BY IterationContext
<1>2. bc'[i] = b /\ \A k \in Slots \ {i} : bc'[k] = bc[k] BY <1>1
<1>3. i' \in Nat BY <1>1 DEF Cutting
<1>4. StartTypes'
  <2>1. bc' \in [Slots -> Batch] BY <1>1
  <2>2. QED BY <1>3, <2>1 DEF StartInv, StartTypes
<1>5. Contexts' BY <1>1, <1>2 DEF StartInv, Contexts
<1>6. ASSUME pc' = "cutting" PROVE Cutting'
  <2>1. i' = i + 1 /\ i \in 0 .. threads - 1 BY <1>1, <1>6 DEF Cutting
  <2>2. \A k \in Slots : k >= i' /\ k # 0 => bc'[k] = ZeroBatch
    BY <1>1, <1>2, <2>1 DEF Cutting, Slots
  <2>3. ConfValid(conf)' /\ Whole' = Whole BY <1>1 DEF Cutting, ConfValid, Whole
  <2>4. i' # 0 /\ i' \in 0 .. threads' BY <1>1, <2>1
  <2>5. QED BY <1>1, <2>2, <2>3, <2>4 DEF Cutting
<1>7. Stages' BY <1>1, <1>6 DEF Stages
<1>8. QED BY <1>4, <1>5, <1>7 DEF StartInv

\* An iteration of create_thr_subbatches.
LEMMA IterationKeeps == StartInv /\ cut_subbatch => StartInv'
<1> SUFFICES ASSUME StartInv, cut_subbatch PROVE StartInv' OBVIOUS
<1>1. /\ pc = "cutting" /\ i < threads
      /\ bc' = [bc EXCEPT ![i] = Cut(i)] /\ i' = i + 1 /\ pc' = pc
      /\ UNCHANGED <<threads, conf, master, iface, created, running, ended>>
  BY DEF cut_subbatch
<1>2. Cut(i) \in CutShort(i, ClientsPerThread) BY DEF CutShort
<1>3. Cut(i) \in Batch /\ Equipped(Cut(i))
  BY <1>1, <1>2, IterationContext, IterationFields
<1>4. QED BY <1>1, <1>3, BatchWritten

\* ... one that fails to allocate.
LEMMA FailedIterationKeeps ==
  ASSUME NEW n \in Nat
  PROVE  StartInv /\ cut_fails(n) => StartInv'
<1> SUFFICES ASSUME StartInv, cut_fails(n) PROVE StartInv' OBVIOUS
<1>1. /\ pc = "cutting" /\ i < threads /\ n <= ClientsPerThread
      /\ i' = 0 /\ pc' = "start"
      /\ UNCHANGED <<threads, conf, master, iface, created, running, ended>>
  BY DEF cut_fails
<1>2. PICK b \in CutShort(i, n) : bc' = [bc EXCEPT ![i] = b] BY DEF cut_fails
<1>3. b \in Batch /\ Equipped(b)
  BY <1>1, <1>2, IterationContext, IterationFields
<1>4. QED BY <1>1, <1>2, <1>3, BatchWritten

\* ... one that runs out of IPv6 addresses.
LEMMA OutOfScopeKeeps == StartInv /\ cut_out_of_scope => StartInv'
<1> SUFFICES ASSUME StartInv, cut_out_of_scope PROVE StartInv' OBVIOUS
<1> DEFINE b == IF FirstAddress(i) > LastAddress
                THEN [Sized(i) EXCEPT !.ip_addr_min = 0, !.ip_addr_max = bc[i].ip_addr_max]
                ELSE [Sized(i) EXCEPT !.ip_addr_max = 0]
<1>1. /\ pc = "cutting" /\ i < threads
      /\ bc' = [bc EXCEPT ![i] = b] /\ i' = 0 /\ pc' = "start"
      /\ UNCHANGED <<threads, conf, master, iface, created, running, ended>>
  BY DEF cut_out_of_scope
<1>2. /\ ClientsPerThread \in 1 .. conf.client_num_max
      /\ ShareOf(master.client_num_start) \in 0 .. ClientsPerThread
      /\ conf.client_num_max \in Nat
  BY <1>1, IterationContext, SharesSound DEF Cutting, ConfValid
<1>3. /\ Sized(i) \in Batch
      /\ Sized(i).client_num_max = ClientsPerThread
      /\ Sized(i).client_num_start = ShareOf(master.client_num_start)
      /\ Sized(i).cctx_array = IF i = 0 THEN conf.client_num_max ELSE 0
      /\ bc[i].ip_addr_max \in Nat
  BY <1>1, IterationContext, SizedFields DEF Batch
<1>4. b \in Batch /\ Equipped(b)
  <2>1. CASE FirstAddress(i) > LastAddress
    BY <1>2, <1>3, <2>1 DEF Batch, Equipped
  <2>2. CASE ~(FirstAddress(i) > LastAddress)
    BY <1>2, <1>3, <2>2 DEF Batch, Equipped
  <2>3. QED BY <2>1, <2>2
<1> HIDE DEF b
<1>5. QED BY <1>1, <1>4, BatchWritten

\* What leaves the batches alone.
Quiet ==
  /\ pc' \in {"start", "join", "failed", "crashed", "exited"}
  /\ i' \in Nat
  /\ UNCHANGED <<threads, conf, bc, master, iface, created>>

\* Such a step keeps the invariant.
LEMMA QuietKeeps ==
  ASSUME StartInv, Quiet, running' \subseteq running \cup {k \in created : bc[k].cctx_array # 0},
         running' \subseteq created, ended' \subseteq created \ running'
  PROVE  StartInv'
<1>1. StartTypes' BY DEF StartInv, StartTypes, Quiet
<1>2. Stages' BY DEF Stages, Quiet
<1>3. Contexts' BY DEF StartInv, Contexts, Quiet, BatchesNum
<1>4. QED BY <1>1, <1>2, <1>3 DEF StartInv

\* A thread is started, or not.
LEMMA StartThreadKeeps ==
  ASSUME StartInv, pc = "start", i < BatchesNum, i < BATCHES_MAX_NUM,
         bc' = [bc EXCEPT ![i].batch_id = i],
         created' = created \cup {i} \/ created' = created, i' = i + 1,
         UNCHANGED <<pc, threads, conf, master, iface, running, ended>>
  PROVE  StartInv'
<1>1. /\ i \in Slots /\ i \in 0 .. BatchesNum - 1 /\ bc \in [Slots -> Batch]
      /\ i \in Nat
  BY StartAssumption DEF StartInv, StartTypes, Slots, BatchesNum
<1>2. bc[i] \in Batch /\ Equipped(bc[i]) BY <1>1 DEF StartInv, Contexts
<1> DEFINE b == [bc[i] EXCEPT !.batch_id = i]
<1>3. b \in Batch /\ Equipped(b) /\ b.cctx_array = bc[i].cctx_array
  BY <1>1, <1>2, BatchIdWritten
<1>4. bc' = [bc EXCEPT ![i] = b] OBVIOUS
<1> HIDE DEF b
<1>5. bc'[i] = b /\ \A k \in Slots \ {i} : bc'[k] = bc[k] BY <1>1, <1>4
<1>6. StartTypes'
  <2>1. bc' \in [Slots -> Batch] BY <1>1, <1>3, <1>4
  <2>2. QED BY <1>1, <2>1 DEF StartInv, StartTypes
<1>7. Stages' BY DEF Stages
<1>8. Contexts'
  <2>1. \A k \in Slots : Equipped(bc'[k])
    BY <1>3, <1>5 DEF StartInv, Contexts
  <2>2. \A k \in running' : bc'[k].cctx_array # 0
    BY <1>3, <1>5 DEF StartInv, Contexts, StartTypes
  <2>3. created' \subseteq 0 .. BatchesNum' - 1
    BY <1>1 DEF StartInv, Contexts, BatchesNum
  <2>4. QED BY <2>1, <2>2, <2>3 DEF Contexts
<1>9. QED BY <1>6, <1>7, <1>8 DEF StartInv

\* A thread returns and gives back what its batch had.
LEMMA ReturnKeeps ==
  ASSUME NEW k \in Slots, StartInv, pc \in {"start", "join"}, k \in created,
         bc' = [bc EXCEPT ![k] = GivenBack(@)],
         running' = running \ {k}, ended' = ended \cup {k},
         UNCHANGED <<pc, threads, conf, master, i, iface, created>>
  PROVE  StartInv'
<1>1. UNCHANGED <<pc, threads, conf, master, i, iface, created>> OBVIOUS
<1>2. bc \in [Slots -> Batch] /\ bc[k] \in Batch BY DEF StartInv, StartTypes
<1> DEFINE b == GivenBack(bc[k])
<1>3. b \in Batch /\ Equipped(b) BY <1>2, MemoryGivenBack
<1>4. bc' = [bc EXCEPT ![k] = b] BY <1>2
<1> HIDE DEF b
<1>5. bc'[k] = b /\ \A l \in Slots \ {k} : bc'[l] = bc[l] BY <1>2, <1>4
<1>6. StartTypes'
  <2>1. bc' \in [Slots -> Batch] BY <1>2, <1>3, <1>4
  <2>2. QED BY <1>1, <2>1 DEF StartInv, StartTypes
<1>7. Stages' BY <1>1 DEF Stages
<1>8. Contexts'
  <2>1. \A l \in Slots : Equipped(bc'[l])
    BY <1>3, <1>5 DEF StartInv, Contexts
  <2>2. \A l \in running' : bc'[l].cctx_array # 0
    BY <1>1, <1>5 DEF StartInv, Contexts, StartTypes
  <2>3. created' \subseteq 0 .. BatchesNum' - 1
    BY <1>1 DEF StartInv, Contexts, BatchesNum
  <2>4. QED BY <2>1, <2>2, <2>3 DEF Contexts
<1>9. QED BY <1>6, <1>7, <1>8 DEF StartInv

StartStep == StartNext \/ ThreadEnds

\* All steps of main, and those that end threads.
LEMMA StartInductive == StartInv /\ [StartStep]_startVars => StartInv'
<1> SUFFICES ASSUME StartInv, [StartStep]_startVars PROVE StartInv' OBVIOUS
<1>1. CASE parse_config_file BY <1>1, ParseKeeps
<1>2. CASE create_ip_addrs BY <1>2, AddressesKeep
<1>3. CASE create_thr_subbatches BY <1>3, CutStartKeeps
<1>4. CASE cut_subbatch BY <1>4, IterationKeeps
<1>5. CASE cut_out_of_scope BY <1>5, OutOfScopeKeeps
<1>6. ASSUME NEW n \in 0 .. master.client_num_max, cut_fails(n) PROVE StartInv'
  <2>1. n \in Nat OBVIOUS
  <2>2. QED BY <1>6, <2>1, FailedIterationKeeps
<1>7. CASE start_thread BY <1>7, StartThreadKeeps DEF start_thread
<1>8. CASE start_thread_fails
  <2>1. i < BatchesNum BY <1>8, StartAssumption
    DEF start_thread_fails, BatchesNum, StartInv, StartTypes
  <2>2. QED BY <1>8, <2>1, StartThreadKeeps DEF start_thread_fails
<1>9. ASSUME NEW k \in Slots, batch_function(k) PROVE StartInv'
  <2>1. /\ Quiet
        /\ running' \subseteq running \cup {l \in created : bc[l].cctx_array # 0}
        /\ running' \subseteq created /\ ended' \subseteq created \ running'
    BY <1>9 DEF batch_function, Quiet, StartInv, StartTypes
  <2>2. QED BY <2>1, QuietKeeps
<1>10. CASE main_returns \/ cut_ends \/ start_ends \/ start_beyond
            \/ main_joined \/ join_crashes \/ process_exits \/ process_crashes
  <2>1. Quiet /\ UNCHANGED <<running, ended>>
    BY <1>10 DEF main_returns, cut_ends, start_ends, start_beyond, main_joined,
         join_crashes, process_exits, process_crashes, Quiet, StartInv, StartTypes
  <2>2. QED BY <2>1, QuietKeeps DEF StartInv, StartTypes
<1>11. ASSUME NEW k \in Slots, free_batch_data_allocations(k) PROVE StartInv'
  <2>1. k \in created BY <1>11 DEF free_batch_data_allocations, StartInv, StartTypes
  <2>2. QED BY <1>11, <2>1, ReturnKeeps DEF free_batch_data_allocations
<1>12. ASSUME NEW k \in Slots, batch_function_fails(k) PROVE StartInv'
  <2>1. CASE bc' = bc
    <3>1. /\ Quiet /\ running' = running
          /\ running' \subseteq created /\ ended' \subseteq created \ running'
      BY <1>12, <2>1 DEF batch_function_fails, Quiet, StartInv, StartTypes
    <3>2. QED BY <3>1, QuietKeeps
  <2>2. CASE bc' = [bc EXCEPT ![k] = GivenBack(@)]
    <3>1. k \in created /\ running' = running \ {k} BY <1>12 DEF batch_function_fails
    <3>2. QED BY <1>12, <2>2, <3>1, ReturnKeeps DEF batch_function_fails
  <2>3. QED BY <1>12, <2>1, <2>2 DEF batch_function_fails
<1>13. CASE UNCHANGED startVars
  <2>1. UNCHANGED <<pc, threads, conf, bc, master, i, iface, created, running,
                    ended>>
    BY <1>13 DEF startVars
  <2>2. StartTypes' BY <2>1 DEF StartInv, StartTypes
  <2>3. Cutting' = Cutting BY <2>1 DEF Cutting, ConfValid, Whole
  <2>4. Stages' BY <2>1, <2>3 DEF StartInv, Stages, ConfValid, Whole
  <2>5. Contexts' BY <2>1 DEF StartInv, Contexts, BatchesNum
  <2>6. QED BY <2>2, <2>4, <2>5 DEF StartInv
<1>14. QED
  BY <1>1, <1>2, <1>3, <1>4, <1>5, <1>6, <1>7, <1>8, <1>9, <1>10, <1>11, <1>12,
     <1>13
  DEF StartStep, StartNext, ThreadEnds
-----------------------------------------------------------------------------
(***************************************************************************)
(* Addresses.                                                              *)
(***************************************************************************)

\* The addresses that an iteration gives, at whatever point it fails.
LEMMA IterationAddresses ==
  ASSUME StartInv, pc = "cutting", i < threads,
         NEW n \in Nat, n <= ClientsPerThread, NEW b \in CutShort(i, n)
  PROVE  /\ b \in Batch
         /\ FirstAddress(i) \in Nat /\ ClientsPerThread \in Nat
         /\ Len(b.ip_addr_array) \in 0 .. ClientsPerThread
         /\ SharedNum(conf) = 0 =>
              /\ b.ip_addr_max = FirstAddress(i) + ClientsPerThread
              /\ \A p \in 1 .. Len(b.ip_addr_array) :
                   b.ip_addr_array[p] = FirstAddress(i) + (p - 1)
         /\ SharedNum(conf) # 0 =>
              \A p \in 1 .. Len(b.ip_addr_array) :
                b.ip_addr_array[p] \in
                  conf.ip_addr_min .. conf.ip_addr_min + SharedNum(conf) - 1
<1>1. /\ conf \in Configs /\ Cutting /\ threads \in Nat
      /\ bc \in [Slots -> Batch] /\ i # threads /\ ClientsPerThread \in Nat
  BY IterationContext
<1>2. /\ b \in Batch
      /\ b.ip_addr_max = EndAddress(i)
      /\ Len(b.ip_addr_array) \in 0 .. ClientsPerThread
      /\ \A p \in 1 .. Len(b.ip_addr_array) :
           b.ip_addr_array[p] = Address(Unaddressed, p - 1)
  BY <1>1, IterationFields
<1>3. /\ FirstAddress(i) \in Nat
      /\ master.ip_shared_num = 0 =>
           EndAddress(i) = FirstAddress(i) + ClientsPerThread
  BY <1>1, RangeTypes
<1>4. /\ Unaddressed \in Batch
      /\ Unaddressed.ip_addr_min = FirstAddress(i)
      /\ Unaddressed.ip_shared_num = master.ip_shared_num
  BY <1>1, SizedFields
<1>5. /\ master.ip_shared_num = SharedNum(conf)
      /\ master.ip_addr_min = conf.ip_addr_min
  BY <1>1, WholeFields DEF Cutting
<1>6. PICK u \in Batch : u = Unaddressed BY <1>4
<1>7. ASSUME NEW p \in 1 .. Len(b.ip_addr_array)
      PROVE  /\ u.ip_shared_num = 0 =>
                  b.ip_addr_array[p] = u.ip_addr_min + (p - 1)
             /\ u.ip_shared_num # 0 =>
                  b.ip_addr_array[p] \in
                    u.ip_addr_min .. u.ip_addr_min + u.ip_shared_num - 1
  <2>1. p - 1 \in Nat BY <1>2
  <2>2. b.ip_addr_array[p] = Address(u, p - 1) BY <1>2, <1>6
  <2>3. QED BY <1>6, <2>1, <2>2, AddressType
<1>8. master.ip_shared_num # 0 => FirstAddress(i) = master.ip_addr_min
  BY DEF FirstAddress
<1>9. QED BY <1>1, <1>2, <1>3, <1>4, <1>5, <1>6, <1>7, <1>8

\* The addresses of the whole batch.
LEMMA WholeAddresses ==
  ASSUME conf \in Configs, ConfValid(conf)
  PROVE  /\ Len(Whole.ip_addr_array) = conf.client_num_max
         /\ \A p \in 1 .. conf.client_num_max :
              /\ Whole.ip_addr_array[p] = Address(post_validate_init(conf), p - 1)
              /\ SharedNum(conf) = 0 =>
                   Whole.ip_addr_array[p] = conf.ip_addr_min + (p - 1)
<1>1. /\ Len(Whole.ip_addr_array) = conf.client_num_max
      /\ \A p \in 1 .. conf.client_num_max :
           Whole.ip_addr_array[p] = Address(post_validate_init(conf), p - 1)
  BY WholeFields
<1>2. PICK u \in Batch : u = post_validate_init(conf) BY PostValidated
<1>3. u.ip_addr_min = conf.ip_addr_min /\ u.ip_shared_num = SharedNum(conf)
  BY <1>2 DEF post_validate_init
<1>4. ASSUME NEW p \in 1 .. conf.client_num_max, SharedNum(conf) = 0
      PROVE  Whole.ip_addr_array[p] = conf.ip_addr_min + (p - 1)
  <2>1. p - 1 \in Nat BY DEF ConfValid
  <2>2. QED BY <1>1, <1>2, <1>3, <1>4, <2>1, AddressType
<1>5. QED BY <1>1, <1>4

Ip(k) == bc[k].ip_addr_array

\* Addresses that are not shared rise from client to client and from batch to
\* batch, and stay below the next range.
Rising ==
  SharedNum(conf) = 0 =>
    /\ \A k \in Slots : \A p, q \in 1 .. Len(Ip(k)) :
         p < q => Ip(k)[p] < Ip(k)[q]
    /\ \A k, l \in Slots :
         k < l => \A p \in 1 .. Len(Ip(k)), q \in 1 .. Len(Ip(l)) :
                    Ip(k)[p] < Ip(l)[q]
    /\ pc = "cutting" =>
         \A k \in Slots : k < i => \A p \in 1 .. Len(Ip(k)) :
           Ip(k)[p] < bc[i - 1].ip_addr_max

\* A step that gives no addresses.
NoneGiven ==
  /\ \A k \in Slots : bc'[k].ip_addr_array = bc[k].ip_addr_array
  /\ conf' = conf
  /\ pc' = "cutting" => i' = 0

\* Addresses that nobody changes stay in order.
LEMMA RisingKept ==
  ASSUME Rising, NoneGiven
  PROVE  Rising'
<1>1. SharedNum(conf)' = SharedNum(conf) BY DEF NoneGiven, SharedNum
<1>2. \A k \in Slots : Ip(k)' = Ip(k) BY DEF NoneGiven, Ip
<1> SUFFICES ASSUME SharedNum(conf) = 0 PROVE Rising' BY <1>1 DEF Rising
<1>3. (\A k \in Slots : \A p, q \in 1 .. Len(Ip(k)) : p < q => Ip(k)[p] < Ip(k)[q])'
  BY <1>2 DEF Rising
<1>4. (\A k, l \in Slots :
         k < l => \A p \in 1 .. Len(Ip(k)), q \in 1 .. Len(Ip(l)) :
                    Ip(k)[p] < Ip(l)[q])'
  BY <1>2 DEF Rising
<1>5. pc' = "cutting" => \A k \in Slots : ~(k < i')
  BY StartAssumption DEF Slots, NoneGiven
<1>6. QED BY <1>3, <1>4, <1>5 DEF Rising

\* All steps but these give none.
LEMMA MostGiveNone ==
  ASSUME StartInv, StartStep,
         ~create_ip_addrs, ~cut_subbatch,
         ~\E n \in 0 .. master.client_num_max : cut_fails(n)
  PROVE  NoneGiven
<1>1. bc \in [Slots -> Batch] /\ i \in Nat BY DEF StartInv, StartTypes
<1>2. CASE parse_config_file
  <2>1. /\ bc' = [bc EXCEPT ![0] = post_validate_init(conf)]
        /\ pc = "parse" /\ pc' = "addresses" /\ conf' = conf
    BY <1>2 DEF parse_config_file
  <2>2. bc[0] = ZeroBatch BY <2>1, FirstSlot DEF StartInv, Stages
  <2>3. bc'[0].ip_addr_array = bc[0].ip_addr_array
    BY <1>1, <2>1, <2>2, FirstSlot DEF post_validate_init, ZeroBatch
  <2>4. \A k \in Slots \ {0} : bc'[k] = bc[k] BY <1>1, <2>1
  <2>5. QED BY <2>1, <2>3, <2>4 DEF NoneGiven
<1>3. CASE create_thr_subbatches
  BY <1>3 DEF create_thr_subbatches, NoneGiven, StartInv, Stages
<1>4. CASE cut_out_of_scope
  <2>1. pc = "cutting" /\ i < threads /\ pc' = "start" /\ conf' = conf
    BY <1>4 DEF cut_out_of_scope
  <2>2. i \in Slots /\ Sized(i).ip_addr_array = bc[i].ip_addr_array
        /\ Sized(i) \in Batch
    BY <2>1, IterationContext, SizedFields
  <2>3. bc'[i].ip_addr_array = bc[i].ip_addr_array
    BY <1>1, <1>4, <2>2 DEF cut_out_of_scope, Batch
  <2>4. \A k \in Slots \ {i} : bc'[k] = bc[k]
    BY <1>1, <1>4 DEF cut_out_of_scope
  <2>5. QED BY <2>1, <2>3, <2>4 DEF NoneGiven
<1>5. CASE start_thread \/ start_thread_fails
  <2>1. /\ bc' = [bc EXCEPT ![i].batch_id = i] /\ pc = "start" /\ pc' = pc
        /\ conf' = conf
    BY <1>5 DEF start_thread, start_thread_fails
  <2>2. \A k \in Slots : bc'[k].ip_addr_array = bc[k].ip_addr_array
    BY <1>1, <2>1 DEF Batch
  <2>3. QED BY <2>1, <2>2 DEF NoneGiven
<1>6. ASSUME NEW k \in Slots, batch_function(k) PROVE NoneGiven
  BY <1>6 DEF batch_function, NoneGiven
<1>7. ASSUME NEW k \in Slots,
             free_batch_data_allocations(k) \/ batch_function_fails(k)
      PROVE  NoneGiven
  <2>1. /\ bc' \in {bc, [bc EXCEPT ![k] = GivenBack(bc[k])]}
        /\ pc # "cutting" /\ pc' = pc /\ conf' = conf
    BY <1>7 DEF free_batch_data_allocations, batch_function_fails
  <2>2. \A l \in Slots : bc'[l].ip_addr_array = bc[l].ip_addr_array
    BY <1>1, <2>1, MemoryGivenBack
  <2>3. QED BY <2>1, <2>2 DEF NoneGiven
<1>8. CASE main_returns \/ cut_ends \/ start_ends \/ start_beyond
           \/ main_joined \/ join_crashes \/ process_exits \/ process_crashes
  BY <1>8 DEF main_returns, cut_ends, start_ends, start_beyond, main_joined,
     join_crashes, process_exits, process_crashes, NoneGiven
<1>9. QED
  BY <1>2, <1>3, <1>4, <1>5, <1>6, <1>7, <1>8 DEF StartStep, StartNext, ThreadEnds

\* An iteration puts its range behind the others.
LEMMA RisingIteration ==
  ASSUME StartInv, Rising, pc = "cutting", i < threads,
         NEW n \in Nat, n <= ClientsPerThread, NEW b \in CutShort(i, n),
         bc' = [bc EXCEPT ![i] = b], UNCHANGED <<threads, conf, master>>,
         \/ pc' = "start" /\ i' = 0
         \/ pc' = "cutting" /\ i' = i + 1
  PROVE  Rising'
<1> SUFFICES ASSUME SharedNum(conf) = 0 PROVE Rising'
  BY DEF Rising, SharedNum
<1>1. /\ Cutting /\ bc \in [Slots -> Batch] /\ i \in Slots /\ threads \in Nat
      /\ conf \in Configs
  BY IterationContext
<1>2. bc'[i] = b /\ \A k \in Slots \ {i} : bc'[k] = bc[k] BY <1>1
<1>3. /\ b \in Batch
      /\ FirstAddress(i) \in Nat /\ ClientsPerThread \in Nat
      /\ Len(b.ip_addr_array) \in 0 .. ClientsPerThread
      /\ b.ip_addr_max = FirstAddress(i) + ClientsPerThread
      /\ \A p \in 1 .. Len(b.ip_addr_array) :
           b.ip_addr_array[p] = FirstAddress(i) + (p - 1)
  BY IterationAddresses
<1>4. \A k \in Slots : k < i => \A p \in 1 .. Len(Ip(k)) :
        Ip(k)[p] < bc[i - 1].ip_addr_max
  BY DEF Rising
<1>5. i # 0 => FirstAddress(i) >= bc[i - 1].ip_addr_max /\ bc[i - 1].ip_addr_max \in Nat
  <2>1. SUFFICES ASSUME i # 0
                 PROVE FirstAddress(i) >= bc[i - 1].ip_addr_max
                       /\ bc[i - 1].ip_addr_max \in Nat
    OBVIOUS
  <2>2. i - 1 \in Slots BY <1>1, <2>1, StartAssumption DEF Slots
  <2>3. bc[i - 1].ip_addr_max \in Nat BY <1>1, <2>2 DEF Batch
  <2>4. master.ip_shared_num = 0 BY <1>1, WholeFields DEF Cutting
  <2>5. QED BY <2>1, <2>3, <2>4 DEF FirstAddress
<1>6. \A k \in Slots : k > i => Ip(k) = <<>>
  BY <1>1 DEF Cutting, Ip, ZeroBatch, Slots
<1>7. \A k \in Slots : Ip(k)' = IF k = i THEN b.ip_addr_array ELSE Ip(k)
  BY <1>2 DEF Ip
<1>8. \A k \in Slots : \A p \in 1 .. Len(Ip(k)) : Ip(k)[p] \in Nat
  <2>1. TAKE k \in Slots
  <2>2. Ip(k) \in Seq(Nat) BY <1>1 DEF Ip, Batch
  <2>3. QED BY <2>2
<1>9. \A k \in Slots : k < i => i # 0 BY <1>1 DEF Slots
<1>10. SharedNum(conf)' = 0 BY DEF SharedNum
<1>11. (\A k \in Slots : \A p, q \in 1 .. Len(Ip(k)) :
          p < q => Ip(k)[p] < Ip(k)[q])'
  <2>1. ASSUME NEW k \in Slots, NEW p \in 1 .. Len(Ip(k)'), NEW q \in 1 .. Len(Ip(k)'),
               p < q
        PROVE  (Ip(k)')[p] < (Ip(k)')[q]
    <3>1. CASE k = i
      <4>1. /\ (Ip(k)')[p] = FirstAddress(i) + (p - 1)
            /\ (Ip(k)')[q] = FirstAddress(i) + (q - 1)
        BY <1>3, <1>7, <2>1, <3>1
      <4>2. p \in Int /\ q \in Int OBVIOUS
      <4>3. QED BY <1>3, <2>1, <4>1, <4>2
    <3>2. CASE k # i BY <1>7, <2>1, <3>2 DEF Rising
    <3>3. QED BY <3>1, <3>2
  <2>2. QED BY <2>1
<1>12. ASSUME NEW k \in Slots, NEW l \in Slots, k < l,
              NEW p \in 1 .. Len(Ip(k)'), NEW q \in 1 .. Len(Ip(l)')
       PROVE  (Ip(k)')[p] < (Ip(l)')[q]
  <2>0. k \in Nat /\ l \in Nat /\ i \in Nat BY <1>1 DEF Slots
  <2>1. CASE l = i
    <3>1. i # 0 /\ k # i /\ k < i BY <1>9, <1>12, <2>0, <2>1
    <3>2. Ip(k)' = Ip(k) /\ Ip(l)' = b.ip_addr_array BY <1>7, <2>1, <3>1
    <3>3. Ip(k)[p] < bc[i - 1].ip_addr_max /\ Ip(k)[p] \in Nat
      BY <1>4, <1>8, <1>12, <3>1, <3>2
    <3>4. (Ip(l)')[q] = FirstAddress(i) + (q - 1) /\ q \in Nat /\ q >= 1
      BY <1>3, <1>12, <3>2
    <3>5. QED BY <1>3, <1>5, <3>1, <3>2, <3>3, <3>4
  <2>2. CASE k = i
    <3>1. Ip(l)' = <<>> BY <1>6, <1>7, <1>12, <2>0, <2>2
    <3>2. Len(Ip(l)') = 0 BY <3>1
    <3>3. QED BY <1>12, <3>2
  <2>3. CASE k # i /\ l # i BY <1>7, <1>12, <2>3 DEF Rising
  <2>4. QED BY <2>1, <2>2, <2>3
<1>13. ASSUME pc' = "cutting", NEW k \in Slots, k < i', NEW p \in 1 .. Len(Ip(k)')
       PROVE  (Ip(k)')[p] < bc'[i' - 1].ip_addr_max
  <2>0. i' = i + 1 /\ k \in Nat /\ i \in Nat BY <1>1, <1>13 DEF Slots
  <2>1. bc'[i' - 1].ip_addr_max = FirstAddress(i) + ClientsPerThread
    BY <1>2, <1>3, <2>0
  <2>2. CASE k = i
    <3>1. (Ip(k)')[p] = FirstAddress(i) + (p - 1) /\ p <= ClientsPerThread /\ p \in Nat
      BY <1>3, <1>7, <1>13, <2>2
    <3>2. QED BY <1>3, <2>1, <3>1
  <2>3. CASE k # i
    <3>1. k < i /\ Ip(k)' = Ip(k) BY <1>7, <1>13, <2>0, <2>3
    <3>2. Ip(k)[p] < bc[i - 1].ip_addr_max /\ Ip(k)[p] \in Nat
      BY <1>4, <1>8, <1>13, <3>1
    <3>3. QED BY <1>3, <1>5, <1>9, <2>1, <3>1, <3>2
  <2>4. QED BY <2>2, <2>3
<1>14. QED BY <1>11, <1>12, <1>13 DEF Rising

\* What the whole batch's turn leaves.
LEMMA AddressesGiven ==
  ASSUME StartInv, create_ip_addrs
  PROVE  /\ conf \in Configs /\ ConfValid(conf)
         /\ bc'[0] = Whole
         /\ \A k \in Slots \ {0} : bc'[k] = ZeroBatch
         /\ iface' = {Address(post_validate_init(conf), j) :
                        j \in 0 .. conf.client_num_max - 1}
         /\ conf' = conf /\ threads' = threads /\ pc' # "cutting"
<1>1. /\ pc = "addresses" /\ ConfValid(conf) /\ conf \in Configs
      /\ bc[0] = post_validate_init(conf) /\ bc \in [Slots -> Batch]
      /\ \A k \in Slots \ {0} : bc[k] = ZeroBatch
  BY DEF create_ip_addrs, StartInv, Stages, StartTypes
<1>2. /\ bc' = [bc EXCEPT ![0] = Whole]
      /\ iface' = {Address(bc[0], j) : j \in 0 .. bc[0].client_num_max - 1}
      /\ pc' = IF threads = 0 THEN "start" ELSE "cut"
      /\ conf' = conf /\ threads' = threads
  BY <1>1, FirstSlot DEF create_ip_addrs, Whole, StartTypes, post_validate_init
<1>3. bc[0].client_num_max = conf.client_num_max BY <1>1 DEF post_validate_init
<1>4. QED BY <1>1, <1>2, <1>3, FirstSlot

\* The addresses of the whole batch are in order.
LEMMA RisingGiven == StartInv /\ Rising /\ create_ip_addrs => Rising'
<1> SUFFICES ASSUME StartInv, create_ip_addrs PROVE Rising' OBVIOUS
<1>0. SharedNum(conf)' = SharedNum(conf) BY AddressesGiven DEF SharedNum
<1> SUFFICES ASSUME SharedNum(conf) = 0 PROVE Rising' BY <1>0 DEF Rising
<1>1. /\ conf \in Configs /\ ConfValid(conf)
      /\ bc'[0] = Whole /\ \A k \in Slots \ {0} : bc'[k] = ZeroBatch
      /\ conf' = conf /\ pc' # "cutting"
  BY AddressesGiven
<1>2. Ip(0)' = Whole.ip_addr_array /\ \A k \in Slots \ {0} : Ip(k)' = <<>>
  BY <1>1 DEF Ip, ZeroBatch
<1>3. /\ Len(Ip(0)') = conf.client_num_max /\ conf.client_num_max \in Nat
      /\ \A p \in 1 .. Len(Ip(0)') : (Ip(0)')[p] = conf.ip_addr_min + (p - 1)
  BY <1>1, <1>2, WholeAddresses DEF ConfValid
<1>4. conf.ip_addr_min \in Nat BY <1>1, StartAssumption DEF ConfigFields
<1>5. \A k \in Slots \ {0} : Len(Ip(k)') = 0 BY <1>2
<1>6. ASSUME NEW k \in Slots, NEW p \in 1 .. Len(Ip(k)'), NEW q \in 1 .. Len(Ip(k)'),
             p < q
      PROVE  (Ip(k)')[p] < (Ip(k)')[q]
  BY <1>3, <1>4, <1>5, <1>6
<1>7. ASSUME NEW k \in Slots, NEW l \in Slots, k < l,
             NEW p \in 1 .. Len(Ip(k)'), NEW q \in 1 .. Len(Ip(l)')
      PROVE  (Ip(k)')[p] < (Ip(l)')[q]
  <2>1. l # 0 BY <1>7, StartAssumption DEF Slots
  <2>2. QED BY <1>5, <1>7, <2>1
<1>8. QED BY <1>1, <1>6, <1>7 DEF Rising

\* Addresses stay in order.
LEMMA RisingInductive ==
  StartInv /\ Rising /\ [StartStep]_startVars => Rising'
<1> SUFFICES ASSUME StartInv, Rising, [StartStep]_startVars PROVE Rising' OBVIOUS
<1>1. CASE create_ip_addrs BY <1>1, RisingGiven
<1>2. CASE cut_subbatch
  <2>1. /\ pc = "cutting" /\ i < threads
        /\ bc' = [bc EXCEPT ![i] = Cut(i)] /\ i' = i + 1 /\ pc' = pc
        /\ UNCHANGED <<threads, conf, master>>
    BY <1>2 DEF cut_subbatch
  <2>2. Cut(i) \in CutShort(i, ClientsPerThread) BY DEF CutShort
  <2>3. ClientsPerThread \in Nat BY <2>1, IterationContext
  <2>4. PICK n \in Nat : n = ClientsPerThread BY <2>3
  <2>5. PICK b \in CutShort(i, n) : b = Cut(i) BY <2>2, <2>4
  <2>6. n <= ClientsPerThread /\ bc' = [bc EXCEPT ![i] = b] BY <2>1, <2>4, <2>5
  <2>7. QED BY <2>1, <2>5, <2>6, RisingIteration
<1>3. ASSUME NEW n \in 0 .. master.client_num_max, cut_fails(n) PROVE Rising'
  <2>1. /\ pc = "cutting" /\ i < threads /\ n <= ClientsPerThread
        /\ i' = 0 /\ pc' = "start" /\ UNCHANGED <<threads, conf, master>>
    BY <1>3 DEF cut_fails
  <2>2. PICK b \in CutShort(i, n) : bc' = [bc EXCEPT ![i] = b]
    BY <1>3 DEF cut_fails
  <2>3. n \in Nat OBVIOUS
  <2>4. QED BY <2>1, <2>2, <2>3, RisingIteration
<1>4. CASE /\ StartStep /\ ~create_ip_addrs /\ ~cut_subbatch
           /\ ~\E n \in 0 .. master.client_num_max : cut_fails(n)
  BY <1>4, MostGiveNone, RisingKept
<1>5. CASE UNCHANGED startVars
  BY <1>5 DEF startVars, Rising, Ip, SharedNum
<1>6. QED BY <1>1, <1>2, <1>3, <1>4, <1>5

\* Addresses are on the interface.  A sub-batch of IPv4 starts where the ranges
\* before it end, and all of them fit into that of the batch.
Covered ==
  threads = 0 \/ ~conf.ipv6 \/ SharedNum(conf) # 0 =>
    /\ \A k \in Slots : AddressSet(bc[k]) \subseteq iface
    /\ pc \in {"cut", "cutting"} =>
         iface = {Address(post_validate_init(conf), j) :
                    j \in 0 .. conf.client_num_max - 1}
    /\ pc = "cutting" /\ SharedNum(conf) = 0 /\ i # 0 =>
         bc[i - 1].ip_addr_max =
           conf.ip_addr_min + i * (conf.client_num_max \div threads)

\* The interface has whatever the batch may use.
LEMMA OnInterface ==
  ASSUME conf \in Configs, ConfValid(conf), SharedNum(conf) <= conf.client_num_max,
         iface = {Address(post_validate_init(conf), j) :
                    j \in 0 .. conf.client_num_max - 1},
         NEW j \in 0 .. conf.client_num_max - 1,
         SharedNum(conf) # 0 => j < SharedNum(conf)
  PROVE  conf.ip_addr_min + j \in iface
<1>1. post_validate_init(conf) \in Batch BY PostValidated
<1>2. PICK u \in Batch : u = post_validate_init(conf) BY <1>1
<1>3. /\ u.ip_addr_min = conf.ip_addr_min /\ u.ip_shared_num = SharedNum(conf)
      /\ u.shared_index = 0
  BY <1>2 DEF post_validate_init
<1>4. conf.ip_addr_min \in Nat /\ SharedNum(conf) \in Nat
      /\ conf.client_num_max \in Nat
  BY StartAssumption DEF ConfigFields, ConfValid
<1>5. Address(u, j) = conf.ip_addr_min + j
  <2>1. CASE SharedNum(conf) = 0 BY <1>3, <2>1 DEF Address
  <2>2. CASE SharedNum(conf) # 0
    <3>1. PICK t \in Nat \ {0} : t = SharedNum(conf) BY <1>4, <2>2
    <3>2. j \in Nat /\ j < t /\ 0 + j = j BY <2>2, <3>1
    <3>3. j % t = j BY <3>1, <3>2
    <3>4. QED BY <1>3, <2>2, <3>1, <3>2, <3>3 DEF Address
  <2>3. QED BY <2>1, <2>2
<1>6. QED BY <1>2, <1>5

\* Addresses that nobody changes stay on the interface.
LEMMA CoveredKept ==
  ASSUME Covered, NoneGiven, threads' = threads, iface' = iface,
         pc' \in {"cut", "cutting"} => pc \in {"cut", "cutting"}
  PROVE  Covered'
<1>1. SharedNum(conf)' = SharedNum(conf) /\ conf' = conf
  BY DEF NoneGiven, SharedNum
<1>2. \A k \in Slots : AddressSet(bc[k])' = AddressSet(bc[k])
  BY DEF NoneGiven, AddressSet
<1>3. pc' = "cutting" => i' = 0 BY DEF NoneGiven
<1>4. {Address(post_validate_init(conf), j) : j \in 0 .. conf.client_num_max - 1}'
      = {Address(post_validate_init(conf), j) : j \in 0 .. conf.client_num_max - 1}
  BY <1>1 DEF Address, post_validate_init, SharedNum
<1>5. QED BY <1>1, <1>2, <1>3, <1>4 DEF Covered

\* The addresses of the whole batch are put there.
LEMMA CoveredGiven == StartInv /\ create_ip_addrs => Covered'
<1> SUFFICES ASSUME StartInv, create_ip_addrs PROVE Covered' OBVIOUS
<1>1. /\ conf \in Configs /\ ConfValid(conf)
      /\ bc'[0] = Whole /\ \A k \in Slots \ {0} : bc'[k] = ZeroBatch
      /\ iface' = {Address(post_validate_init(conf), j) :
                     j \in 0 .. conf.client_num_max - 1}
      /\ conf' = conf /\ pc' # "cutting"
  BY AddressesGiven
<1>2. AddressSet(bc'[0]) \subseteq iface'
  <2>1. ASSUME NEW p \in 1 .. Len(Whole.ip_addr_array)
        PROVE  Whole.ip_addr_array[p] \in iface'
    <3>1. conf.client_num_max \in Nat BY <1>1 DEF ConfValid
    <3>2. /\ Len(Whole.ip_addr_array) = conf.client_num_max
          /\ \A s \in 1 .. conf.client_num_max :
               Whole.ip_addr_array[s] = Address(post_validate_init(conf), s - 1)
      BY <1>1, WholeAddresses
    <3>3. p - 1 \in 0 .. conf.client_num_max - 1 BY <3>1, <3>2
    <3>4. QED BY <1>1, <2>1, <3>2, <3>3
  <2>2. QED BY <1>1, <2>1 DEF AddressSet
<1>3. \A k \in Slots \ {0} : AddressSet(bc'[k]) = {}
  BY <1>1 DEF AddressSet, ZeroBatch
<1>4. {Address(post_validate_init(conf), j) : j \in 0 .. conf.client_num_max - 1}'
      = {Address(post_validate_init(conf), j) : j \in 0 .. conf.client_num_max - 1}
  BY <1>1 DEF Address, post_validate_init, SharedNum
<1>5. \A k \in Slots : AddressSet(bc[k])' = AddressSet(bc'[k]) BY DEF AddressSet
<1>6. QED BY <1>1, <1>2, <1>3, <1>4, <1>5 DEF Covered

\* A sub-batch takes its addresses from them.
LEMMA CoveredIteration ==
  ASSUME StartInv, Covered, pc = "cutting", i < threads,
         NEW n \in Nat, n <= ClientsPerThread, NEW b \in CutShort(i, n),
         bc' = [bc EXCEPT ![i] = b], UNCHANGED <<threads, conf, master, iface>>,
         \/ pc' = "start" /\ i' = 0
         \/ pc' = "cutting" /\ i' = i + 1
  PROVE  Covered'
<1>1. /\ conf \in Configs /\ Cutting /\ threads \in Nat /\ i \in Slots
      /\ bc \in [Slots -> Batch] /\ ClientsPerThread \in Nat /\ ConfValid(conf)
      /\ threads # 0 /\ i \in Nat
  BY IterationContext DEF Cutting, Slots
<1>2. SharedNum(conf)' = SharedNum(conf) BY DEF SharedNum
<1> SUFFICES ASSUME ~conf.ipv6 \/ SharedNum(conf) # 0 PROVE Covered'
  BY <1>1, <1>2 DEF Covered
<1>3. /\ \A k \in Slots : AddressSet(bc[k]) \subseteq iface
      /\ iface = {Address(post_validate_init(conf), j) :
                    j \in 0 .. conf.client_num_max - 1}
      /\ SharedNum(conf) = 0 /\ i # 0 =>
           bc[i - 1].ip_addr_max =
             conf.ip_addr_min + i * (conf.client_num_max \div threads)
  BY DEF Covered
<1> DEFINE q == conf.client_num_max \div threads
<1>4. /\ master.client_num_max = conf.client_num_max
      /\ master.ip_addr_min = conf.ip_addr_min
      /\ master.ip_shared_num = SharedNum(conf)
      /\ master.ipv6 = conf.ipv6
  BY <1>1, WholeFields DEF Cutting
<1>5. ClientsPerThread = q BY <1>4 DEF ClientsPerThread
<1>6. /\ b \in Batch
      /\ FirstAddress(i) \in Nat /\ ClientsPerThread \in Nat
      /\ Len(b.ip_addr_array) \in 0 .. ClientsPerThread
      /\ SharedNum(conf) = 0 =>
           /\ b.ip_addr_max = FirstAddress(i) + ClientsPerThread
           /\ \A p \in 1 .. Len(b.ip_addr_array) :
                b.ip_addr_array[p] = FirstAddress(i) + (p - 1)
      /\ SharedNum(conf) # 0 =>
           \A p \in 1 .. Len(b.ip_addr_array) :
             b.ip_addr_array[p] \in
               conf.ip_addr_min .. conf.ip_addr_min + SharedNum(conf) - 1
  BY IterationAddresses
<1>7. /\ conf.client_num_max \in Nat /\ conf.ip_addr_min \in Nat
      /\ SharedNum(conf) \in Nat /\ SharedNum(conf) <= conf.client_num_max
      /\ i + 1 <= threads
  BY <1>1, StartAssumption DEF ConfigFields, ConfValid, Cutting
<1>8. PICK t \in Nat \ {0} : t = threads BY <1>1
<1>9. q \in Nat /\ t * q <= conf.client_num_max BY <1>7, <1>8, Quotient
<1> HIDE DEF q
<1>10. /\ i * q \in Nat /\ (i + 1) * q = i * q + q
       /\ (i + 1) * q <= conf.client_num_max
  <2>1. i + 1 \in Nat BY <1>1
  <2>2. (i + 1) * q <= t * q /\ i * q \in Nat /\ t * q \in Nat
    BY <1>1, <1>7, <1>8, <1>9, <2>1, ProductsOrdered
  <2>3. (i + 1) * q = i * q + q BY <1>1, <1>9
  <2>4. QED BY <1>7, <1>9, <2>2, <2>3
<1>11. SharedNum(conf) = 0 => FirstAddress(i) = conf.ip_addr_min + i * q
  <2>1. CASE i = 0
    <3>1. i * q = 0 BY <1>9, <2>1
    <3>2. QED BY <1>4, <1>7, <2>1, <3>1 DEF FirstAddress
  <2>2. CASE i # 0 BY <1>3, <1>4, <2>2 DEF FirstAddress, q
  <2>3. QED BY <2>1, <2>2
<1>12. AddressSet(b) \subseteq iface
  <2>1. ASSUME NEW p \in 1 .. Len(b.ip_addr_array)
        PROVE  b.ip_addr_array[p] \in iface
    <3>1. PICK j \in 0 .. conf.client_num_max - 1 :
            /\ b.ip_addr_array[p] = conf.ip_addr_min + j
            /\ SharedNum(conf) # 0 => j < SharedNum(conf)
      <4>1. CASE SharedNum(conf) = 0
        <5>1. b.ip_addr_array[p] = conf.ip_addr_min + (i * q + (p - 1))
          BY <1>6, <1>7, <1>10, <1>11, <2>1, <4>1
        <5>2. i * q + (p - 1) \in 0 .. conf.client_num_max - 1
          <6>1. PICK x \in Nat : x = i * q BY <1>10
          <6>2. p \in 1 .. q BY <1>5, <1>6, <1>9, <2>1
          <6>3. x + q <= conf.client_num_max BY <1>10, <6>1
          <6>4. x + (p - 1) \in 0 .. conf.client_num_max - 1
            BY <1>7, <1>9, <6>2, <6>3
          <6>5. QED BY <6>1, <6>4
        <5>3. QED BY <4>1, <5>1, <5>2
      <4>2. CASE SharedNum(conf) # 0
        <5>1. b.ip_addr_array[p] \in
                conf.ip_addr_min .. conf.ip_addr_min + SharedNum(conf) - 1
          BY <1>6, <2>1, <4>2
        <5>2. /\ b.ip_addr_array[p] - conf.ip_addr_min \in 0 .. conf.client_num_max - 1
              /\ b.ip_addr_array[p] - conf.ip_addr_min < SharedNum(conf)
              /\ b.ip_addr_array[p]
                   = conf.ip_addr_min + (b.ip_addr_array[p] - conf.ip_addr_min)
          BY <1>7, <5>1
        <5>3. QED BY <5>2
      <4>3. QED BY <4>1, <4>2
    <3>2. conf.ip_addr_min + j \in iface BY <1>1, <1>3, <1>7, <3>1, OnInterface
    <3>3. QED BY <3>1, <3>2
  <2>2. QED BY <2>1 DEF AddressSet
<1>13. \A k \in Slots : AddressSet(bc[k])' = IF k = i THEN AddressSet(b) ELSE AddressSet(bc[k])
  BY <1>1 DEF AddressSet
<1>14. {Address(post_validate_init(conf), j) : j \in 0 .. conf.client_num_max - 1}'
       = {Address(post_validate_init(conf), j) : j \in 0 .. conf.client_num_max - 1}
  BY DEF Address, post_validate_init, SharedNum
<1>15. ASSUME pc' = "cutting", SharedNum(conf) = 0
       PROVE  bc'[i' - 1].ip_addr_max = conf.ip_addr_min + i' * q
  <2>1. i' = i + 1 /\ i' - 1 = i BY <1>1, <1>15
  <2>2. bc'[i] = b BY <1>1
  <2>3. i' * q = i * q + q BY <1>10, <2>1
  <2>4. QED BY <1>5, <1>6, <1>7, <1>9, <1>10, <1>11, <1>15, <2>1, <2>2, <2>3
<1>16. q = conf'.client_num_max \div threads' BY DEF q
<1>17. QED BY <1>2, <1>3, <1>12, <1>13, <1>14, <1>15, <1>16 DEF Covered

\* Addresses stay on the interface.
LEMMA CoveredInductive ==
  StartInv /\ Covered /\ [StartStep]_startVars => Covered'
<1> SUFFICES ASSUME StartInv, Covered, [StartStep]_startVars PROVE Covered' OBVIOUS
<1>1. CASE create_ip_addrs BY <1>1, CoveredGiven
<1>2. CASE cut_subbatch
  <2>1. /\ pc = "cutting" /\ i < threads
        /\ bc' = [bc EXCEPT ![i] = Cut(i)] /\ i' = i + 1 /\ pc' = pc
        /\ UNCHANGED <<threads, conf, master, iface>>
    BY <1>2 DEF cut_subbatch
  <2>2. Cut(i) \in CutShort(i, ClientsPerThread) BY DEF CutShort
  <2>3. ClientsPerThread \in Nat BY <2>1, IterationContext
  <2>4. PICK n \in Nat : n = ClientsPerThread BY <2>3
  <2>5. PICK b \in CutShort(i, n) : b = Cut(i) BY <2>2, <2>4
  <2>6. n <= ClientsPerThread /\ bc' = [bc EXCEPT ![i] = b] BY <2>1, <2>4, <2>5
  <2>7. QED BY <2>1, <2>5, <2>6, CoveredIteration
<1>3. ASSUME NEW n \in 0 .. master.client_num_max, cut_fails(n) PROVE Covered'
  <2>1. /\ pc = "cutting" /\ i < threads /\ n <= ClientsPerThread
        /\ i' = 0 /\ pc' = "start" /\ UNCHANGED <<threads, conf, master, iface>>
    BY <1>3 DEF cut_fails
  <2>2. PICK b \in CutShort(i, n) : bc' = [bc EXCEPT ![i] = b]
    BY <1>3 DEF cut_fails
  <2>3. n \in Nat OBVIOUS
  <2>4. QED BY <2>1, <2>2, <2>3, CoveredIteration
<1>4. CASE /\ StartStep /\ ~create_ip_addrs /\ ~cut_subbatch
           /\ ~\E n \in 0 .. master.client_num_max : cut_fails(n)
  <2>1. NoneGiven BY <1>4, MostGiveNone
  <2>2. /\ threads' = threads /\ iface' = iface
        /\ pc' \in {"cut", "cutting"} => pc \in {"cut", "cutting"}
    BY <1>4 DEF StartStep, StartNext, ThreadEnds, parse_config_file, main_returns,
       create_thr_subbatches, cut_out_of_scope, cut_ends, start_thread,
       start_thread_fails, start_ends, start_beyond, batch_function, main_joined,
       batch_function_fails, join_crashes, process_exits, process_crashes, free_batch_data_allocations
  <2>3. QED BY <2>1, <2>2, CoveredKept
<1>5. CASE UNCHANGED startVars
  <2>1. UNCHANGED <<pc, threads, conf, bc, i, iface>> BY <1>5 DEF startVars
  <2>2. {Address(post_validate_init(conf), j) : j \in 0 .. conf.client_num_max - 1}'
        = {Address(post_validate_init(conf), j) : j \in 0 .. conf.client_num_max - 1}
    BY <2>1 DEF Address, post_validate_init, SharedNum
  <2>3. QED BY <2>1, <2>2 DEF Covered, AddressSet, SharedNum
<1>6. QED BY <1>1, <1>2, <1>3, <1>4, <1>5
-----------------------------------------------------------------------------
(***************************************************************************)
(* The clients.                                                            *)
(***************************************************************************)

\* What the header counters of client k tell.
Flags(k) ==
  /\ Requests \in first_hdr[k] /\ talk[k] # "sent" =>
       sent[k] < st[k][Requests] + unanswered[k]
  /\ talk[k] = "sent" => first_hdr[k] \cap Classes = {}
  /\ talk[k] = "interim" => first_hdr[k] \cap Classes = {1} /\ status[k] \div 100 = 1
  /\ talk[k] \in {"answer", "trailer"} => status[k] \div 100 \in first_hdr[k]
  /\ talk[k] = "body" => first_hdr[k] = {}
  /\ talk[k] \in {"interim", "answer", "body", "trailer"} => status[k] \in Statuses

RequestsOf(k) ==
  /\ st[k][Requests] <= sent[k]
  /\ sent[k] <= st[k][Requests] + unanswered[k]

ResponsesOf(k) ==
  \A c \in Classes :
    /\ st[k][c] <= answers[k][c] + untold[k]
    /\ answers[k][c] <= st[k][c] + untold[k]

ClientInv ==
  /\ ClientTypes
  /\ \A k \in Batches : Flags(k) /\ RequestsOf(k) /\ ResponsesOf(k)

\* A client that nothing happens to.
Untouched(k) ==
  /\ first_hdr'[k] = first_hdr[k] /\ st'[k] = st[k] /\ talk'[k] = talk[k]
  /\ status'[k] = status[k] /\ sent'[k] = sent[k] /\ answers'[k] = answers[k]
  /\ unanswered'[k] = unanswered[k] /\ untold'[k] = untold[k]

\* A status has a class.
LEMMA ClassOf ==
  ASSUME NEW s \in Statuses
  PROVE  s \div 100 \in Classes
BY StatusAssumption DEF Classes

\* A client before its first exchange.
LEMMA ClientInitial == ClientInit => ClientInv
BY DEF ClientInit, ClientInv, ClientTypes, Flags, RequestsOf, ResponsesOf, Zero, Counters,
   HttpCounters, OpCounters, Requests, Classes, OtherErrs, UrlOk, UrlFailed

\* Counting.
LEMMA Counted ==
  ASSUME ClientTypes, NEW k \in Batches, NEW counter \in Counters \cup {None},
         counts(k, counter)
  PROVE  /\ st' \in [Batches -> [Counters -> Nat]]
         /\ \A l \in Batches \ {k} : st'[l] = st[l]
         /\ \A c \in Counters :
              st'[k][c] = IF c = counter THEN st[k][c] + 1 ELSE st[k][c]
<1>1. None \notin Counters
  BY DEF None, Counters, HttpCounters, OpCounters, Requests, Classes, OtherErrs,
     UrlOk, UrlFailed
<1>2. st \in [Batches -> [Counters -> Nat]] BY DEF ClientTypes
<1>3. CASE counter = None
  <2>1. st' = st BY <1>3 DEF counts
  <2>2. QED BY <1>1, <1>2, <1>3, <2>1
<1>4. CASE counter # None
  <2>1. st' = [st EXCEPT ![k] = [st[k] EXCEPT ![counter] = st[k][counter] + 1]]
    BY <1>2, <1>4 DEF counts
  <2>2. counter \in Counters BY <1>4
  <2>3. st[k] \in [Counters -> Nat] BY <1>2
  <2>4. [st[k] EXCEPT ![counter] = st[k][counter] + 1] \in [Counters -> Nat]
    BY <2>2, <2>3
  <2>5. st'[k] = [st[k] EXCEPT ![counter] = st[k][counter] + 1] BY <1>2, <2>1
  <2>6. QED BY <1>2, <2>1, <2>2, <2>3, <2>4, <2>5
<1>5. QED BY <1>3, <1>4

\* A step of one client.
LEMMA OneClient ==
  ASSUME ClientInv, NEW k \in Batches, ClientTypes',
         \A l \in Batches \ {k} : Untouched(l),
         Flags(k)', RequestsOf(k)', ResponsesOf(k)'
  PROVE  ClientInv'
<1>1. ASSUME NEW l \in Batches \ {k}
      PROVE  Flags(l)' /\ RequestsOf(l)' /\ ResponsesOf(l)'
  <2>1. Untouched(l) /\ Flags(l) /\ RequestsOf(l) /\ ResponsesOf(l)
    BY DEF ClientInv
  <2>2. Flags(l)' BY <2>1 DEF Flags, Untouched
  <2>3. RequestsOf(l)' BY <2>1 DEF RequestsOf, Untouched
  <2>4. ResponsesOf(l)' BY <2>1 DEF ResponsesOf, Untouched
  <2>5. QED BY <2>2, <2>3, <2>4
<1>2. QED BY <1>1 DEF ClientInv

\* Counters are apart.
LEMMA CounterKinds ==
  /\ Requests \in Counters /\ Classes \subseteq Counters /\ OtherErrs \in Counters
  /\ UrlOk \in Counters /\ UrlFailed \in Counters
  /\ Requests \notin Classes /\ OtherErrs \notin Classes \cup {Requests}
  /\ UrlOk \notin Classes \cup {Requests} /\ UrlFailed \notin Classes \cup {Requests}
  /\ None \notin Counters /\ 1 \in Classes
BY DEF None, Counters, HttpCounters, OpCounters, Requests, Classes, OtherErrs,
   UrlOk, UrlFailed

\* A request is sent.
LEMMA HeaderOutKeeps ==
  ASSUME ClientInv, NEW k \in Batches, NEW counter \in Counters \cup {None},
         HeaderOut(k, counter)
  PROVE  ClientInv'
<1> USE CounterKinds
<1>1. ClientTypes BY DEF ClientInv
<1>2. /\ talk[k] \in {"idle", "answer", "body", "trailer"}
      /\ counter = IF Requests \in first_hdr[k] THEN None ELSE Requests
      /\ counts(k, counter)
      /\ first_hdr' = [first_hdr EXCEPT ![k] = {Requests}]
      /\ talk' = [talk EXCEPT ![k] = "sent"]
      /\ sent' = [sent EXCEPT ![k] = @ + 1]
      /\ client_state' = client_state /\ status' = status /\ answers' = answers
      /\ unanswered' = unanswered /\ untold' = untold
  BY DEF HeaderOut, header_out
<1>3. /\ st' \in [Batches -> [Counters -> Nat]]
      /\ \A l \in Batches \ {k} : st'[l] = st[l]
      /\ \A c \in Counters :
           st'[k][c] = IF c = counter THEN st[k][c] + 1 ELSE st[k][c]
  BY <1>1, <1>2, Counted
<1>4. ClientTypes'
  <2>1. first_hdr' \in [Batches -> SUBSET ({Requests} \cup Classes)]
    BY <1>1, <1>2 DEF ClientTypes
  <2>2. sent' \in [Batches -> Nat] BY <1>1, <1>2 DEF ClientTypes
  <2>3. QED BY <1>1, <1>2, <1>3, <2>1, <2>2 DEF ClientTypes
<1>5. \A l \in Batches \ {k} : Untouched(l)
  BY <1>1, <1>2, <1>3 DEF ClientTypes, Untouched
<1>6. /\ first_hdr'[k] = {Requests} /\ talk'[k] = "sent" /\ sent'[k] = sent[k] + 1
      /\ sent[k] \in Nat /\ unanswered[k] \in Nat /\ st[k][Requests] \in Nat
  BY <1>1, <1>2 DEF ClientTypes
<1>7. Flags(k) /\ RequestsOf(k) /\ ResponsesOf(k) BY DEF ClientInv
<1>8. Flags(k)' BY <1>6 DEF Flags
<1>9. RequestsOf(k)' BY <1>2, <1>3, <1>6, <1>7 DEF Flags, RequestsOf
<1>10. ResponsesOf(k)' BY <1>2, <1>3, <1>7 DEF ResponsesOf
<1>11. QED BY <1>4, <1>5, <1>8, <1>9, <1>10, OneClient

\* A body, of a request or of a response: flags are cleared.
LEMMA DataKeeps ==
  ASSUME ClientInv, NEW k \in Batches, NEW counter \in Counters \cup {None},
         DataOut(k, counter) \/ DataIn(k, counter)
  PROVE  ClientInv'
<1>1. ClientTypes BY DEF ClientInv
<1>2. /\ first_hdr' = [first_hdr EXCEPT ![k] = {}]
      /\ client_state' = client_state /\ st' = st /\ status' = status
      /\ sent' = sent /\ answers' = answers /\ unanswered' = unanswered
      /\ untold' = untold
  BY DEF DataOut, DataIn
<1>3. /\ \A l \in Batches \ {k} : talk'[l] = talk[l]
      /\ \/ talk'[k] \in {"idle", "sent"}
         \/ talk'[k] = "body" /\ talk[k] \in {"answer", "body"}
      /\ talk' \in [Batches -> {"idle", "sent", "interim", "answer", "body",
                                "trailer", "failed"}]
  BY <1>1 DEF DataOut, DataIn, ClientTypes
<1>4. ClientTypes' BY <1>1, <1>2, <1>3 DEF ClientTypes
<1>5. \A l \in Batches \ {k} : Untouched(l)
  BY <1>1, <1>2, <1>3 DEF ClientTypes, Untouched
<1>6. Flags(k) /\ RequestsOf(k) /\ ResponsesOf(k) BY DEF ClientInv
<1>7. first_hdr'[k] = {} BY <1>1, <1>2 DEF ClientTypes
<1>8. Flags(k)' BY <1>2, <1>3, <1>6, <1>7 DEF Flags
<1>9. RequestsOf(k)' /\ ResponsesOf(k)' BY <1>2, <1>6 DEF RequestsOf, ResponsesOf
<1>10. QED BY <1>4, <1>5, <1>8, <1>9, OneClient

\* A response begins.
LEMMA FirstHeaderKeeps ==
  ASSUME ClientInv, NEW k \in Batches, NEW counter \in Counters \cup {None},
         NEW s \in Statuses, FirstHeaderIn(k, s, counter)
  PROVE  ClientInv'
<1> USE CounterKinds
<1>1. ClientTypes BY DEF ClientInv
<1>2. PICK c \in Classes : c = s \div 100 BY ClassOf
<1>3. /\ talk[k] \in {"sent", "interim"}
      /\ counter = IF c \in first_hdr[k] THEN None ELSE c
      /\ counts(k, counter)
      /\ first_hdr' = [first_hdr EXCEPT ![k] = (first_hdr[k] \cup {c}) \cap {c, 1}]
      /\ client_state' = [client_state EXCEPT ![k] = IF IsError(s) THEN "ERROR" ELSE @]
      /\ status' = [status EXCEPT ![k] = s]
      /\ talk' = [talk EXCEPT ![k] = IF c = 1 THEN "interim" ELSE "answer"]
      /\ answers' = [answers EXCEPT ![k][c] = @ + 1]
      /\ untold' = [untold EXCEPT ![k] =
                      IF talk[k] = "interim" /\ c = 1 THEN @ + 1 ELSE @]
      /\ sent' = sent /\ unanswered' = unanswered
  <2>1. {c} \cup {1} = {c, 1} OBVIOUS
  <2>2. QED BY <1>1, <1>2, <2>1 DEF FirstHeaderIn, header_in, kept_by, ClientTypes
<1>4. /\ st' \in [Batches -> [Counters -> Nat]]
      /\ \A l \in Batches \ {k} : st'[l] = st[l]
      /\ \A d \in Counters :
           st'[k][d] = IF d = counter THEN st[k][d] + 1 ELSE st[k][d]
  BY <1>1, <1>3, Counted
<1>5. ClientTypes'
  <2>1. first_hdr' \in [Batches -> SUBSET ({Requests} \cup Classes)]
    BY <1>1, <1>3 DEF ClientTypes
  <2>2. answers' \in [Batches -> [Classes -> Nat]]
    BY <1>1, <1>3 DEF ClientTypes
  <2>3. QED BY <1>1, <1>3, <1>4, <2>1, <2>2 DEF ClientTypes
<1>6. \A l \in Batches \ {k} : Untouched(l)
  BY <1>1, <1>3, <1>4 DEF ClientTypes, Untouched
<1>7. /\ first_hdr'[k] = (first_hdr[k] \cup {c}) \cap {c, 1}
      /\ status'[k] = s
      /\ talk'[k] = IF c = 1 THEN "interim" ELSE "answer"
      /\ \A d \in Classes :
           answers'[k][d] = IF d = c THEN answers[k][d] + 1 ELSE answers[k][d]
      /\ untold'[k] = IF talk[k] = "interim" /\ c = 1 THEN untold[k] + 1 ELSE untold[k]
      /\ untold[k] \in Nat
      /\ \A d \in Classes : answers[k][d] \in Nat /\ st[k][d] \in Nat
  BY <1>1, <1>3 DEF ClientTypes
<1>8. Flags(k) /\ RequestsOf(k) /\ ResponsesOf(k) BY DEF ClientInv
<1>9. Flags(k)'
  <2>1. Requests \notin first_hdr'[k] BY <1>7
  <2>2. c \in first_hdr'[k] BY <1>7
  <2>3. c = 1 => first_hdr'[k] \cap Classes = {1} BY <1>7
  <2>4. QED BY <1>2, <1>7, <2>1, <2>2, <2>3 DEF Flags
<1>10. RequestsOf(k)'
  <2>1. counter # Requests BY <1>3
  <2>2. st'[k][Requests] = st[k][Requests] BY <1>4, <2>1
  <2>3. QED BY <1>3, <1>8, <2>2 DEF RequestsOf
<1>11. ResponsesOf(k)'
  <2>1. talk[k] = "sent" => c \notin first_hdr[k] BY <1>8 DEF Flags
  <2>2. talk[k] = "interim" /\ c # 1 => c \notin first_hdr[k] BY <1>8 DEF Flags
  <2>3. ASSUME NEW d \in Classes
        PROVE  /\ st'[k][d] <= answers'[k][d] + untold'[k]
               /\ answers'[k][d] <= st'[k][d] + untold'[k]
    <3>1. /\ st[k][d] <= answers[k][d] + untold[k]
          /\ answers[k][d] <= st[k][d] + untold[k]
      BY <1>8 DEF ResponsesOf
    <3>2. st'[k][d] = IF d = counter THEN st[k][d] + 1 ELSE st[k][d] BY <1>4
    <3>3. CASE d # c BY <1>3, <1>7, <3>1, <3>2, <3>3
    <3>4. CASE d = c
      <4>1. CASE c \notin first_hdr[k]
        BY <1>3, <1>7, <3>1, <3>2, <3>4, <4>1
      <4>2. CASE c \in first_hdr[k]
        <5>1. talk[k] = "interim" /\ c = 1 BY <1>3, <2>1, <2>2, <4>2
        <5>2. st'[k][d] = st[k][d] BY <1>3, <3>2, <3>4, <4>2
        <5>3. QED BY <1>7, <3>1, <3>4, <5>1, <5>2
      <4>3. QED BY <4>1, <4>2
    <3>5. QED BY <3>3, <3>4
  <2>4. QED BY <2>3 DEF ResponsesOf
<1>12. QED BY <1>5, <1>6, <1>9, <1>10, <1>11, OneClient

\* It goes on, or ends with a trailer.
LEMMA NextHeaderKeeps ==
  ASSUME ClientInv, NEW k \in Batches, NEW counter \in Counters \cup {None},
         NextHeaderIn(k, counter)
  PROVE  ClientInv'
<1> USE CounterKinds
<1>1. ClientTypes BY DEF ClientInv
<1>2. Flags(k) /\ RequestsOf(k) /\ ResponsesOf(k) BY DEF ClientInv
<1>3. talk[k] \in {"interim", "answer", "body", "trailer"} BY DEF NextHeaderIn
<1>4. status[k] \in Statuses BY <1>2, <1>3 DEF Flags
<1>5. PICK c \in Classes : c = status[k] \div 100 BY <1>4, ClassOf
<1>6. /\ counter = IF c \in first_hdr[k] THEN None ELSE c
      /\ counts(k, counter)
      /\ first_hdr' = [first_hdr EXCEPT ![k] = (first_hdr[k] \cup {c}) \cap {c, 1}]
      /\ client_state' = [client_state EXCEPT ![k] =
                            IF IsError(status[k]) THEN "ERROR" ELSE @]
      /\ talk' = [talk EXCEPT ![k] = IF @ = "body" THEN "trailer" ELSE @]
      /\ untold' = [untold EXCEPT ![k] = IF talk[k] = "body" THEN @ + 1 ELSE @]
      /\ status' = status /\ sent' = sent /\ answers' = answers
      /\ unanswered' = unanswered
  <2>1. {c} \cup {1} = {c, 1} OBVIOUS
  <2>2. QED BY <1>1, <1>5, <2>1 DEF NextHeaderIn, header_in, kept_by, ClientTypes
<1>7. /\ st' \in [Batches -> [Counters -> Nat]]
      /\ \A l \in Batches \ {k} : st'[l] = st[l]
      /\ \A d \in Counters :
           st'[k][d] = IF d = counter THEN st[k][d] + 1 ELSE st[k][d]
  BY <1>1, <1>6, Counted
<1>8. ClientTypes'
  <2>1. first_hdr' \in [Batches -> SUBSET ({Requests} \cup Classes)]
    BY <1>1, <1>6 DEF ClientTypes
  <2>2. QED BY <1>1, <1>6, <1>7, <2>1 DEF ClientTypes
<1>9. \A l \in Batches \ {k} : Untouched(l)
  BY <1>1, <1>6, <1>7 DEF ClientTypes, Untouched
<1>10. /\ first_hdr'[k] = (first_hdr[k] \cup {c}) \cap {c, 1}
       /\ talk'[k] = IF talk[k] = "body" THEN "trailer" ELSE talk[k]
       /\ untold'[k] = IF talk[k] = "body" THEN untold[k] + 1 ELSE untold[k]
       /\ untold[k] \in Nat
       /\ \A d \in Classes : answers[k][d] \in Nat /\ st[k][d] \in Nat
  BY <1>1, <1>6 DEF ClientTypes
<1>11. Flags(k)'
  <2>1. Requests \notin first_hdr'[k] BY <1>10
  <2>2. c \in first_hdr'[k] BY <1>10
  <2>3. c = 1 => first_hdr'[k] \cap Classes = {1} BY <1>10
  <2>4. talk[k] = "interim" => c = 1 BY <1>2, <1>5 DEF Flags
  <2>5. talk'[k] \in {"interim", "answer", "trailer"}
        /\ (talk'[k] = "interim" => talk[k] = "interim")
    BY <1>3, <1>10
  <2>6. QED BY <1>4, <1>5, <1>6, <2>1, <2>2, <2>3, <2>4, <2>5 DEF Flags
<1>12. RequestsOf(k)'
  <2>1. counter # Requests BY <1>6
  <2>2. st'[k][Requests] = st[k][Requests] BY <1>7, <2>1
  <2>3. QED BY <1>2, <1>6, <2>2 DEF RequestsOf
<1>13. ResponsesOf(k)'
  <2>1. talk[k] # "body" => c \in first_hdr[k]
    BY <1>2, <1>3, <1>5 DEF Flags
  <2>2. ASSUME NEW d \in Classes
        PROVE  /\ st'[k][d] <= answers'[k][d] + untold'[k]
               /\ answers'[k][d] <= st'[k][d] + untold'[k]
    <3>1. /\ st[k][d] <= answers[k][d] + untold[k]
          /\ answers[k][d] <= st[k][d] + untold[k]
      BY <1>2 DEF ResponsesOf
    <3>2. st'[k][d] = IF d = counter THEN st[k][d] + 1 ELSE st[k][d] BY <1>7
    <3>3. CASE talk[k] = "body"
      <4>1. untold'[k] = untold[k] + 1 BY <1>10, <3>3
      <4>2. st'[k][d] \in {st[k][d], st[k][d] + 1} BY <3>2
      <4>3. QED BY <1>6, <1>10, <3>1, <4>1, <4>2
    <3>4. CASE talk[k] # "body"
      <4>1. counter = None BY <1>6, <2>1, <3>4
      <4>2. st'[k][d] = st[k][d] BY <3>2, <4>1
      <4>3. QED BY <1>6, <1>10, <3>1, <3>4, <4>2
    <3>5. QED BY <3>3, <3>4
  <2>3. QED BY <2>2 DEF ResponsesOf
<1>14. QED BY <1>8, <1>9, <1>11, <1>12, <1>13, OneClient

\* The end of a transfer: only an exchange cut off before its answer adds to
\* what may be missed.
LEMMA EndKeeps ==
  ASSUME ClientInv, NEW k \in Batches, NEW counter \in {OtherErrs, UrlOk, UrlFailed},
         counts(k, counter),
         NEW f \in {first_hdr[k], {}}, NEW t \in {"idle", "failed"},
         NEW e \in {"URLS", "ERROR"}, NEW u \in {unanswered[k], UnansweredAfter(k)},
         u = UnansweredAfter(k) \/ talk[k] \notin {"sent", "interim"},
         first_hdr' = [first_hdr EXCEPT ![k] = f], talk' = [talk EXCEPT ![k] = t],
         client_state' = [client_state EXCEPT ![k] = e],
         unanswered' = [unanswered EXCEPT ![k] = u],
         UNCHANGED <<status, sent, answers, untold>>
  PROVE  ClientInv'
<1> USE CounterKinds
<1>1. ClientTypes /\ Flags(k) /\ RequestsOf(k) /\ ResponsesOf(k) BY DEF ClientInv
<1>2. u \in Nat /\ u >= unanswered[k]
      /\ (talk[k] \in {"sent", "interim"} => u = unanswered[k] + 1)
      /\ unanswered[k] \in Nat
  BY <1>1 DEF UnansweredAfter, ClientTypes
<1>3. /\ st' \in [Batches -> [Counters -> Nat]]
      /\ \A l \in Batches \ {k} : st'[l] = st[l]
      /\ \A d \in Counters :
           st'[k][d] = IF d = counter THEN st[k][d] + 1 ELSE st[k][d]
  BY <1>1, Counted
<1>4. ClientTypes'
  <2>1. first_hdr' \in [Batches -> SUBSET ({Requests} \cup Classes)]
    BY <1>1 DEF ClientTypes
  <2>2. QED BY <1>1, <1>2, <1>3, <2>1 DEF ClientTypes
<1>5. \A l \in Batches \ {k} : Untouched(l)
  BY <1>1, <1>3 DEF ClientTypes, Untouched
<1>6. /\ first_hdr'[k] = f /\ talk'[k] = t /\ unanswered'[k] = u
      /\ sent[k] \in Nat /\ st[k][Requests] \in Nat
      /\ status' = status /\ sent' = sent /\ answers' = answers /\ untold' = untold
  BY <1>1 DEF ClientTypes
<1>7. st'[k][Requests] = st[k][Requests] /\ \A d \in Classes : st'[k][d] = st[k][d]
  BY <1>3
<1>8. Flags(k)'
  <2>1. Requests \in f => sent[k] < st[k][Requests] + u
    <3>1. SUFFICES ASSUME Requests \in first_hdr[k] PROVE sent[k] < st[k][Requests] + u
      OBVIOUS
    <3>2. CASE talk[k] = "sent" BY <1>1, <1>2, <1>6, <3>2 DEF RequestsOf
    <3>3. CASE talk[k] # "sent" BY <1>1, <1>2, <1>6, <3>1, <3>3 DEF Flags
    <3>4. QED BY <3>2, <3>3
  <2>2. QED BY <1>6, <1>7, <2>1 DEF Flags
<1>9. RequestsOf(k)' BY <1>1, <1>2, <1>6, <1>7 DEF RequestsOf
<1>10. ResponsesOf(k)' BY <1>1, <1>6, <1>7 DEF ResponsesOf
<1>11. QED BY <1>4, <1>5, <1>8, <1>9, <1>10, OneClient

\* Every event of a client.
LEMMA ClientInductive ==
  ASSUME ClientInv, NEW k \in Batches, NEW counter \in Counters \cup {None},
         ClientNext(k, counter)
  PROVE  ClientInv'
<1>1. ClientTypes BY DEF ClientInv
<1>2. ASSUME HeaderOut(k, counter) PROVE ClientInv' BY <1>2, HeaderOutKeeps
<1>3. ASSUME DataOut(k, counter) \/ DataIn(k, counter) PROVE ClientInv'
  BY <1>3, DataKeeps
<1>4. ASSUME NEW s \in Statuses, FirstHeaderIn(k, s, counter) PROVE ClientInv'
  BY <1>4, FirstHeaderKeeps
<1>5. ASSUME NextHeaderIn(k, counter) PROVE ClientInv' BY <1>5, NextHeaderKeeps
<1>6. ASSUME ErrorInfo(k, counter) PROVE ClientInv'
  <2>1. PICK f \in {first_hdr[k], {}} : f = {} OBVIOUS
  <2>2. PICK u \in {unanswered[k], UnansweredAfter(k)} : u = UnansweredAfter(k) OBVIOUS
  <2>3. /\ counter \in {OtherErrs, UrlOk, UrlFailed} /\ counts(k, counter)
        /\ first_hdr' = [first_hdr EXCEPT ![k] = f]
        /\ talk' = [talk EXCEPT ![k] = "failed"]
        /\ client_state' = [client_state EXCEPT ![k] = "ERROR"]
        /\ unanswered' = [unanswered EXCEPT ![k] = u]
        /\ UNCHANGED <<status, sent, answers, untold>>
    BY <1>6, <2>1, <2>2 DEF ErrorInfo
  <2>4. QED BY <2>1, <2>2, <2>3, EndKeeps
<1>7. ASSUME Done(k, counter) PROVE ClientInv'
  <2>1. PICK f \in {first_hdr[k], {}} : f = first_hdr[k] OBVIOUS
  <2>2. PICK u \in {unanswered[k], UnansweredAfter(k)} : u = unanswered[k] OBVIOUS
  <2>3. /\ counter \in {OtherErrs, UrlOk, UrlFailed} /\ counts(k, counter)
        /\ talk[k] \notin {"sent", "interim"}
        /\ talk' = [talk EXCEPT ![k] = "idle"]
        /\ client_state' = [client_state EXCEPT ![k] = "URLS"]
        /\ UNCHANGED <<first_hdr, unanswered, status, sent, answers, untold>>
    BY <1>7 DEF Done, OpCounters
  <2>4. /\ first_hdr' = [first_hdr EXCEPT ![k] = f]
        /\ unanswered' = [unanswered EXCEPT ![k] = u]
    BY <1>1, <2>1, <2>2, <2>3 DEF ClientTypes
  <2>5. QED BY <2>1, <2>2, <2>3, <2>4, EndKeeps
<1>8. ASSUME CutOff(k, counter) PROVE ClientInv'
  <2>1. PICK f \in {first_hdr[k], {}} : f = first_hdr[k] OBVIOUS
  <2>2. PICK u \in {unanswered[k], UnansweredAfter(k)} : u = UnansweredAfter(k) OBVIOUS
  <2>3. /\ counter \in {OtherErrs, UrlOk, UrlFailed} /\ counts(k, counter)
        /\ talk' = [talk EXCEPT ![k] = "idle"]
        /\ client_state' = [client_state EXCEPT ![k] = "URLS"]
        /\ unanswered' = [unanswered EXCEPT ![k] = u]
        /\ UNCHANGED <<first_hdr, status, sent, answers, untold>>
    BY <1>8, <2>2 DEF CutOff
  <2>4. first_hdr' = [first_hdr EXCEPT ![k] = f] BY <1>1, <2>1, <2>3 DEF ClientTypes
  <2>5. QED BY <2>1, <2>2, <2>3, <2>4, EndKeeps
<1>9. QED
  BY <1>2, <1>3, <1>4, <1>5, <1>6, <1>7, <1>8 DEF ClientNext, client_tracing_function
-----------------------------------------------------------------------------
(***************************************************************************)
(* Statistics, and the whole.                                              *)
(***************************************************************************)

Thr == [at : {"idle", "store", "add", "reset", "total", "dumped"},
        counter : Counters \cup {None}, set : {{}, HttpCounters, OpCounters},
        j : Nat, why : {"none", "interval", "end", "stop"},
        loaded : [Counters -> Nat]]

\* What a thread is doing is of its type, and it collects from a batch that
\* follows the last at most.
ThrSound(t) == t \in Thr /\ (t.at \in {"add", "reset"} => t.j \in 1 .. threads)

\* Counters that are reset.
LEMMA ZeroType == Zero \in [Counters -> Nat]
BY DEF Zero

\* A thread that does nothing in particular.
LEMMA IdleSound == ThrSound(Idle)
BY ZeroType DEF ThrSound, Thr, Idle

\* A thread that begins to collect.
LEMMA CollectingSound ==
  ASSUME threads \in Nat, NEW set \in {HttpCounters, OpCounters},
         NEW why \in {"none", "interval", "end", "stop"}
  PROVE  ThrSound(Collecting(set, why))
<1> DEFINE t == [Idle EXCEPT !.at = CollectFrom(1), !.set = set, !.j = 1, !.why = why]
<1>1. CollectFrom(1) \in {"add", "total"} /\ (CollectFrom(1) = "add" => 1 <= threads)
  BY DEF CollectFrom
<1>2. Idle \in Thr BY IdleSound DEF ThrSound
<1>3. t \in Thr /\ t.at = CollectFrom(1) /\ t.j = 1 BY <1>1, <1>2 DEF Thr
<1>4. t = Collecting(set, why) BY DEF Collecting
<1> HIDE DEF t
<1>5. t.at \in {"add", "reset"} => t.j \in 1 .. threads BY <1>1, <1>3
<1>6. QED BY <1>3, <1>4, <1>5 DEF ThrSound

StatInv ==
  /\ loading_mode \in {"smooth", "hyper"}
  /\ stop_loading \in BOOLEAN
  /\ DOMAIN thr = Slots /\ thr = [k \in Slots |-> thr[k]]
  /\ \A k \in Slots : ThrSound(thr[k])
  /\ delta \in [Slots -> [Counters -> Nat]]
  /\ total \in [Slots -> [Counters -> Nat]]
  /\ raced \in BOOLEAN

\* The types of the statistics, thread by thread.
LEMMA StatInvTypes == StatInv <=> StatTypes
<1>1. ASSUME StatInv PROVE StatTypes
  <2>1. \A k \in Slots : thr[k] \in Thr BY <1>1 DEF StatInv, ThrSound
  <2>2. thr \in [Slots -> Thr] BY <1>1, <2>1 DEF StatInv
  <2>3. QED BY <1>1, <2>2 DEF StatInv, StatTypes, ThrSound, Thr
<1>2. ASSUME StatTypes PROVE StatInv
  <2>1. thr \in [Slots -> Thr] BY <1>2 DEF StatTypes, Thr
  <2>2. \A k \in Slots : ThrSound(thr[k]) BY <1>2, <2>1 DEF StatTypes, ThrSound
  <2>3. QED BY <1>2, <2>1, <2>2 DEF StatInv, StatTypes
<1>3. QED BY <1>1, <1>2

\* Adding and resetting.
LEMMA PointTypes ==
  ASSUME NEW left \in [Counters -> Nat], NEW right \in [Counters -> Nat], NEW set
  PROVE  /\ Added(left, right, set) \in [Counters -> Nat]
         /\ ResetOf(left, set) \in [Counters -> Nat]
BY DEF Added, ResetOf

\* A step of one thread.
LEMMA OneThread ==
  ASSUME StatInv, NEW k \in Slots, NEW t, ThrSound(t), thr' = [thr EXCEPT ![k] = t],
         threads' = threads,
         delta' \in [Slots -> [Counters -> Nat]], total' \in [Slots -> [Counters -> Nat]],
         raced' \in BOOLEAN, UNCHANGED <<loading_mode, stop_loading>>
  PROVE  StatInv'
<1>1. thr'[k] = t /\ \A l \in Slots \ {k} : thr'[l] = thr[l] BY DEF StatInv
<1>2. \A l \in Slots : ThrSound(thr'[l]) BY <1>1 DEF StatInv
<1>3. \A l \in Slots : ThrSound(thr[l])' BY <1>2 DEF ThrSound
<1>4. DOMAIN thr' = Slots /\ thr' = [l \in Slots |-> thr'[l]] BY DEF StatInv
<1>5. QED BY <1>3, <1>4 DEF StatInv

Inv == StartInv /\ Rising /\ Covered /\ ClientInv /\ StatInv

\* A thread that loads, and the batch it collects from.
LEMMA ThreadContext ==
  ASSUME Inv, NEW k \in Slots, Loading(k)
  PROVE  /\ threads \in Nat /\ thr \in [Slots -> Thr] /\ ThrSound(thr[k])
         /\ delta \in [Slots -> [Counters -> Nat]]
         /\ total \in [Slots -> [Counters -> Nat]]
         /\ raced \in BOOLEAN
         /\ thr[k].at \in {"add", "reset"} => k + thr[k].j \in Slots
<1>1. threads \in Nat BY StartAssumption DEF Inv, StartInv, StartTypes
<1>2. /\ DOMAIN thr = Slots /\ thr = [l \in Slots |-> thr[l]]
      /\ \A l \in Slots : ThrSound(thr[l])
      /\ delta \in [Slots -> [Counters -> Nat]]
      /\ total \in [Slots -> [Counters -> Nat]]
      /\ raced \in BOOLEAN
  BY DEF Inv, StatInv
<1>3. \A l \in Slots : thr[l] \in Thr BY <1>2 DEF ThrSound
<1>4. thr \in [Slots -> Thr] BY <1>2, <1>3
<1>5. ASSUME thr[k].at \in {"add", "reset"} PROVE k + thr[k].j \in Slots
  <2>1. thr[k].j \in 1 .. threads BY <1>2, <1>5 DEF ThrSound
  <2>2. k \in created /\ 2 * threads <= BATCHES_MAX_NUM
    BY DEF Loading, Followed, Inv, StartInv, StartTypes
  <2>3. threads # 0 /\ k \in 0 .. threads - 1
    BY <1>1, <2>1, <2>2 DEF Inv, StartInv, Contexts, BatchesNum
  <2>4. QED BY <1>1, <2>1, <2>2, <2>3, StartAssumption DEF Slots
<1>6. QED BY <1>1, <1>2, <1>4, <1>5

\* A count is loaded and stored.
LEMMA EventStats ==
  ASSUME Inv, NEW k \in Slots, Event(k) \/ Store(k)
  PROVE  StatInv'
<1>1. Loading(k) /\ threads' = threads
  BY DEF Event, Store, startVars
<1>2. /\ thr \in [Slots -> Thr] /\ ThrSound(thr[k])
      /\ delta \in [Slots -> [Counters -> Nat]]
      /\ total \in [Slots -> [Counters -> Nat]] /\ raced \in BOOLEAN
  BY <1>1, ThreadContext
<1>3. StatInv BY DEF Inv
<1>4. CASE Event(k)
  <2>1. PICK counter \in Counters \cup {None} :
          thr' = IF counter = None THEN thr
                 ELSE [thr EXCEPT ![k] = [Idle EXCEPT !.at = "store", !.counter = counter,
                                                      !.loaded = delta[k]]]
    BY <1>4 DEF Event
  <2>2. UNCHANGED <<delta, total, raced, loading_mode, stop_loading>>
    BY <1>4 DEF Event
  <2>3. CASE counter = None
    <3>1. thr' = [thr EXCEPT ![k] = thr[k]] BY <1>2, <2>1, <2>3
    <3>2. QED BY <1>1, <1>2, <1>3, <2>2, <3>1, OneThread
  <2>4. CASE counter # None
    <3>1. PICK t : t = [Idle EXCEPT !.at = "store", !.counter = counter,
                                    !.loaded = delta[k]]
      OBVIOUS
    <3>2. thr' = [thr EXCEPT ![k] = t] BY <2>1, <2>4, <3>1
    <3>3. Idle \in Thr /\ delta[k] \in [Counters -> Nat]
      BY <1>2, IdleSound DEF ThrSound
    <3>4. t \in Thr /\ t.at = "store" BY <3>1, <3>3 DEF Thr
    <3>5. ThrSound(t) BY <3>4 DEF ThrSound
    <3>6. QED BY <1>1, <1>2, <1>3, <2>2, <3>2, <3>5, OneThread
  <2>5. QED BY <2>3, <2>4
<1>5. CASE Store(k)
  <2>1. /\ thr' = [thr EXCEPT ![k] = Idle]
        /\ delta' = [delta EXCEPT ![k][thr[k].counter] =
                       thr[k].loaded[thr[k].counter] + 1]
        /\ raced' \in BOOLEAN
        /\ UNCHANGED <<total, loading_mode, stop_loading>>
    BY <1>2, <1>5 DEF Store
  <2>2. delta' \in [Slots -> [Counters -> Nat]]
    <3>1. PICK c \in Counters \cup {None} : c = thr[k].counter BY <1>2 DEF Thr
    <3>2. thr[k].loaded \in [Counters -> Nat] BY <1>2 DEF Thr
    <3>3. CASE c \in Counters
      <4>1. thr[k].loaded[c] + 1 \in Nat BY <3>2, <3>3
      <4>2. QED BY <1>2, <2>1, <3>1, <3>3, <4>1
    <3>4. CASE c \notin Counters
      <4>1. PICK d \in [Counters -> Nat] : d = delta[k] BY <1>2
      <4>2. PICK x : x = thr[k].loaded[c] + 1 OBVIOUS
      <4>3. [d EXCEPT ![c] = x] = d BY <3>4
      <4>4. delta' = [delta EXCEPT ![k] = [d EXCEPT ![c] = x]]
        BY <1>2, <2>1, <3>1, <4>1, <4>2
      <4>5. QED BY <1>2, <4>1, <4>3, <4>4
    <3>5. QED BY <3>3, <3>4
  <2>3. QED BY <1>1, <1>2, <1>3, <2>1, <2>2, IdleSound, OneThread
<1>6. QED BY <1>4, <1>5

\* The leader, or a thread that ends, begins to collect.
LEMMA CollectStartStats ==
  ASSUME Inv, NEW k \in Slots, dump_snapshot_interval(k) \/ dump_final_statistics(k)
  PROVE  StatInv'
<1>1. Loading(k) /\ threads' = threads
  BY DEF dump_snapshot_interval, dump_final_statistics, startVars
<1>2. /\ threads \in Nat /\ delta \in [Slots -> [Counters -> Nat]]
      /\ total \in [Slots -> [Counters -> Nat]] /\ raced \in BOOLEAN
  BY <1>1, ThreadContext
<1>3. PICK set \in {HttpCounters, OpCounters}, why \in {"none", "interval", "end", "stop"} :
        thr' = [thr EXCEPT ![k] = Collecting(set, why)]
  BY DEF dump_snapshot_interval, dump_final_statistics
<1>4. UNCHANGED <<delta, total, raced, loading_mode, stop_loading>>
  BY DEF dump_snapshot_interval, dump_final_statistics
<1>5. PICK t : t = Collecting(set, why) OBVIOUS
<1>6. ThrSound(t) BY <1>2, <1>3, <1>5, CollectingSound
<1>7. StatInv BY DEF Inv
<1>8. QED BY <1>1, <1>2, <1>3, <1>4, <1>5, <1>6, <1>7, OneThread

\* It adds and resets the delta of another batch.
LEMMA CollectStats ==
  ASSUME Inv, NEW k \in Slots, CollectAdd(k) \/ CollectReset(k)
  PROVE  StatInv'
<1>1. Loading(k) /\ threads' = threads BY DEF CollectAdd, CollectReset, startVars
<1>2. thr[k].at \in {"add", "reset"} BY DEF CollectAdd, CollectReset
<1>3. /\ threads \in Nat /\ thr \in [Slots -> Thr] /\ ThrSound(thr[k])
      /\ delta \in [Slots -> [Counters -> Nat]]
      /\ total \in [Slots -> [Counters -> Nat]] /\ raced \in BOOLEAN
      /\ k + thr[k].j \in Slots
  BY <1>1, <1>2, ThreadContext
<1>4. StatInv BY DEF Inv
<1>5. PICK m \in Slots : m = k + thr[k].j BY <1>3
<1>6. PICK r \in Thr : r = thr[k] BY <1>3
<1>7. r.j \in 1 .. threads BY <1>2, <1>3, <1>6 DEF ThrSound
<1>8. CASE CollectAdd(k)
  <2>1. delta' = delta \/ delta' = [delta EXCEPT ![k] = Added(delta[k], delta[m], r.set)]
    BY <1>3, <1>5, <1>6, <1>8 DEF CollectAdd
  <2>2. Added(delta[k], delta[m], r.set) \in [Counters -> Nat]
    BY <1>3, PointTypes
  <2>3. delta' \in [Slots -> [Counters -> Nat]] BY <1>3, <2>1, <2>2
  <2>4. PICK t : t = [r EXCEPT !.at = "reset", !.loaded = delta[m]] OBVIOUS
  <2>5. thr' = [thr EXCEPT ![k] = t]
    BY <1>3, <1>5, <1>6, <1>8, <2>4 DEF CollectAdd
  <2>6. t \in Thr /\ t.j = r.j BY <1>3, <2>4 DEF Thr
  <2>7. ThrSound(t) BY <1>7, <2>6 DEF ThrSound
  <2>8. UNCHANGED <<total, raced, loading_mode, stop_loading>> BY <1>8 DEF CollectAdd
  <2>9. QED BY <1>1, <1>3, <1>4, <2>3, <2>5, <2>7, <2>8, OneThread
<1>9. CASE CollectReset(k)
  <2>1. delta' = [delta EXCEPT ![m] = ResetOf(delta[m], r.set)]
    BY <1>3, <1>5, <1>6, <1>9 DEF CollectReset, reset_other
  <2>2. ResetOf(delta[m], r.set) \in [Counters -> Nat] BY <1>3, PointTypes
  <2>3. delta' \in [Slots -> [Counters -> Nat]] BY <1>3, <2>1, <2>2
  <2>4. PICK t : t = [r EXCEPT !.at = CollectFrom(r.j + 1), !.j = r.j + 1,
                               !.loaded = Zero]
    OBVIOUS
  <2>5. thr' = [thr EXCEPT ![k] = t]
    BY <1>3, <1>6, <1>9, <2>4 DEF CollectReset
  <2>6. /\ CollectFrom(r.j + 1) \in {"add", "total"} /\ r.j + 1 \in Nat
        /\ CollectFrom(r.j + 1) = "add" => r.j + 1 <= threads
    BY <1>3, <1>7 DEF CollectFrom
  <2>7. t \in Thr /\ t.j = r.j + 1 /\ t.at = CollectFrom(r.j + 1)
    BY <2>4, <2>6, ZeroType DEF Thr
  <2>8. t.at \in {"add", "reset"} => t.j \in 1 .. threads
    BY <1>3, <1>7, <2>6, <2>7
  <2>9. ThrSound(t) BY <2>7, <2>8 DEF ThrSound
  <2>10. raced' \in BOOLEAN /\ UNCHANGED <<total, loading_mode, stop_loading>>
    BY <1>3, <1>9 DEF CollectReset
  <2>11. QED BY <1>1, <1>3, <1>4, <2>3, <2>5, <2>9, <2>10, OneThread
<1>10. QED BY <1>8, <1>9

\* It advances its totals.
LEMMA TotalStats ==
  ASSUME Inv, NEW k \in Slots,
         AdvanceTotal(k) \/ FinalTotal(k) \/ FinalShort(k) \/ FinalEnd(k)
  PROVE  StatInv'
<1>1. Loading(k) /\ threads' = threads /\ UNCHANGED <<raced, loading_mode, stop_loading>>
  BY DEF AdvanceTotal, FinalTotal, FinalShort, FinalEnd, Dumped, startVars,
     process_exits
<1>2. /\ threads \in Nat /\ thr \in [Slots -> Thr]
      /\ delta \in [Slots -> [Counters -> Nat]]
      /\ total \in [Slots -> [Counters -> Nat]] /\ raced \in BOOLEAN
  BY <1>1, ThreadContext
<1>3. StatInv BY DEF Inv
<1>4. total' \in [Slots -> [Counters -> Nat]]
  <2>1. total' = [total EXCEPT ![k] = Added(total[k], delta[k], thr[k].set)]
    BY <1>2 DEF AdvanceTotal, FinalTotal, FinalShort, FinalEnd, Dumped, total_advanced
  <2>2. Added(total[k], delta[k], thr[k].set) \in [Counters -> Nat]
    BY <1>2, PointTypes
  <2>3. QED BY <1>2, <2>1, <2>2
<1>5. delta' \in [Slots -> [Counters -> Nat]]
  <2>1. delta' = delta \/ delta' = [delta EXCEPT ![k] = ResetOf(delta[k], thr[k].set)]
    BY <1>2 DEF AdvanceTotal, FinalTotal, FinalShort, FinalEnd, Dumped
  <2>2. ResetOf(delta[k], thr[k].set) \in [Counters -> Nat] BY <1>2, PointTypes
  <2>3. QED BY <1>2, <2>1, <2>2
<1>6. PICK t : ThrSound(t) /\ thr' = [thr EXCEPT ![k] = t]
  <2>1. CASE AdvanceTotal(k)
    <3>1. ThrSound(Collecting(HttpCounters, "interval")) BY <1>2, CollectingSound
    <3>2. QED BY <2>1, <3>1, IdleSound DEF AdvanceTotal
  <2>2. CASE FinalTotal(k)
    <3>1. PICK why \in {"none", "interval", "end", "stop"} : why = thr[k].why
      BY <1>2 DEF Thr
    <3>2. ThrSound(Collecting(OpCounters, why)) BY <1>2, <3>1, CollectingSound
    <3>3. thr' = [thr EXCEPT ![k] = Collecting(OpCounters, why)]
      BY <2>2, <3>1 DEF FinalTotal
    <3>4. QED BY <3>2, <3>3
  <2>3. CASE FinalShort(k) \/ FinalEnd(k)
    <3>1. PICK t : t = [Idle EXCEPT !.at = "dumped"] OBVIOUS
    <3>2. thr' = [thr EXCEPT ![k] = t] BY <2>3, <3>1 DEF FinalShort, FinalEnd, Dumped
    <3>3. Idle \in Thr BY IdleSound DEF ThrSound
    <3>4. t \in Thr /\ t.at = "dumped" BY <3>1, <3>3 DEF Thr
    <3>5. QED BY <3>2, <3>4 DEF ThrSound
  <2>4. QED BY <2>1, <2>2, <2>3
<1>7. QED BY <1>1, <1>2, <1>3, <1>4, <1>5, <1>6, OneThread

\* The steps of main and of the threads, seen from the start.
LEMMA StepsOfStart == [Next]_vars => [StartStep]_startVars
<1> SUFFICES ASSUME [Next]_vars PROVE [StartStep]_startVars OBVIOUS
<1>1. CASE StartNext BY <1>1 DEF StartStep
<1>2. ASSUME NEW k \in Slots,
             \/ Event(k) \/ Store(k) \/ dump_snapshot_interval(k)
             \/ dump_final_statistics(k) \/ CollectAdd(k) \/ CollectReset(k)
             \/ AdvanceTotal(k) \/ FinalTotal(k)
      PROVE  UNCHANGED startVars
  BY <1>2 DEF Event, Store, dump_snapshot_interval, dump_final_statistics,
     CollectAdd, CollectReset, AdvanceTotal, FinalTotal
<1>3. ASSUME NEW k \in Slots, FinalShort(k) \/ FinalEnd(k)
      PROVE  process_exits \/ UNCHANGED startVars
  BY <1>3 DEF FinalShort, FinalEnd, Dumped
<1>4. ASSUME NEW k \in Slots, event_crashes(k) PROVE process_crashes
  BY <1>4 DEF event_crashes
<1>5. ASSUME NEW k \in Slots, batch_returns(k) PROVE free_batch_data_allocations(k)
  BY <1>5 DEF batch_returns
<1>6. CASE sigint BY <1>6 DEF sigint
<1>7. CASE UNCHANGED vars BY <1>7 DEF vars
<1>8. QED
  BY <1>1, <1>2, <1>3, <1>4, <1>5, <1>6, <1>7 DEF Next, StartStep, ThreadEnds

\* The clients, whatever the threads do.
LEMMA ClientsInductive == ClientInv /\ [Next]_vars => ClientInv'
<1> SUFFICES ASSUME ClientInv, [Next]_vars PROVE ClientInv' OBVIOUS
<1>1. ASSUME NEW k \in Slots, Event(k) \/ event_crashes(k) PROVE ClientInv'
  <2>1. PICK counter \in Counters \cup {None} : ClientNext(k, counter)
    BY <1>1, CounterKinds DEF Event, event_crashes, Counters
  <2>2. k \in Batches BY LoadAssumption
  <2>3. QED BY <2>1, <2>2, ClientInductive
<1>2. CASE UNCHANGED clientVars
  <2>1. UNCHANGED <<first_hdr, client_state, st, talk, status, sent, answers,
                    unanswered, untold>>
    BY <1>2 DEF clientVars
  <2>2. ClientTypes' BY <2>1 DEF ClientInv, ClientTypes
  <2>3. ASSUME NEW k \in Batches
        PROVE  Flags(k)' /\ RequestsOf(k)' /\ ResponsesOf(k)'
    BY <2>1 DEF ClientInv, Flags, RequestsOf, ResponsesOf
  <2>4. QED BY <2>2, <2>3 DEF ClientInv
<1>3. QED
  BY <1>1, <1>2 DEF Next, vars, Store, dump_snapshot_interval, dump_final_statistics,
     CollectAdd, CollectReset, AdvanceTotal, FinalTotal, FinalShort, FinalEnd, Dumped,
     batch_returns, sigint

\* The statistics, whatever the threads do.
LEMMA StatsInductive == Inv /\ [Next]_vars => StatInv'
<1> SUFFICES ASSUME Inv, [Next]_vars PROVE StatInv' OBVIOUS
<1>1. ASSUME UNCHANGED <<threads, thr, delta, total, raced, loading_mode>>,
             stop_loading' \in BOOLEAN
      PROVE  StatInv'
  BY <1>1 DEF Inv, StatInv, ThrSound
<1>2. ASSUME NEW k \in Slots, batch_returns(k) PROVE StatInv'
  <2>1. /\ Loading(k) /\ threads' = threads
        /\ delta' = [delta EXCEPT ![k] = ResetOf(delta[k], OpCounters)]
        /\ UNCHANGED <<thr, total, raced, loading_mode, stop_loading>>
    BY <1>2, ThreadContext DEF batch_returns, free_batch_data_allocations
  <2>2. delta \in [Slots -> [Counters -> Nat]] /\ thr \in [Slots -> Thr]
        /\ ThrSound(thr[k]) /\ total \in [Slots -> [Counters -> Nat]]
        /\ raced \in BOOLEAN
    BY <2>1, ThreadContext
  <2>3. ResetOf(delta[k], OpCounters) \in [Counters -> Nat] BY <2>2, PointTypes
  <2>4. delta' \in [Slots -> [Counters -> Nat]] BY <2>1, <2>2, <2>3
  <2>5. thr' = [thr EXCEPT ![k] = thr[k]] BY <2>1, <2>2
  <2>6. QED BY <2>1, <2>2, <2>4, <2>5, OneThread DEF Inv
<1>3. ASSUME NEW k \in Slots,
             \/ Event(k) \/ Store(k) \/ dump_snapshot_interval(k)
             \/ dump_final_statistics(k) \/ CollectAdd(k) \/ CollectReset(k)
             \/ AdvanceTotal(k) \/ FinalTotal(k) \/ FinalShort(k) \/ FinalEnd(k)
      PROVE  StatInv'
  BY <1>3, EventStats, CollectStartStats, CollectStats, TotalStats
<1>4. CASE StartNext /\ UNCHANGED <<clientVars, statVars, loading_mode, stop_loading>>
  <2>1. threads' = threads
    BY <1>4 DEF StartNext, parse_config_file, main_returns, create_ip_addrs,
       create_thr_subbatches, cut_subbatch, cut_out_of_scope, cut_fails, cut_ends,
       start_thread, start_thread_fails, start_ends, start_beyond, batch_function,
       batch_function_fails, main_joined, join_crashes
  <2>2. UNCHANGED <<thr, delta, total, raced>> BY <1>4 DEF statVars
  <2>3. QED BY <1>1, <1>4, <2>1, <2>2 DEF Inv, StatInv
<1>5. ASSUME NEW k \in Slots, event_crashes(k) PROVE StatInv'
  <2>1. UNCHANGED <<threads, thr, delta, total, raced, loading_mode, stop_loading>>
    BY <1>5 DEF event_crashes, process_crashes, statVars
  <2>2. QED BY <1>1, <2>1 DEF Inv, StatInv
<1>6. CASE sigint
  BY <1>1, <1>6 DEF sigint, startVars, statVars
<1>7. CASE UNCHANGED vars
  <2>1. UNCHANGED <<threads, thr, delta, total, raced, loading_mode, stop_loading>>
    BY <1>7 DEF vars, startVars, statVars
  <2>2. QED BY <1>1, <2>1 DEF Inv, StatInv
<1>8. QED BY <1>2, <1>3, <1>4, <1>5, <1>6, <1>7 DEF Next

\* The program as it starts.
LEMMA Initially == Init => Inv
<1> SUFFICES ASSUME Init PROVE Inv OBVIOUS
<1>1. StartInv /\ ClientInv BY StartInitial, ClientInitial DEF Init
<1>2. \A k \in Slots : bc[k] = ZeroBatch BY DEF Init, StartInit
<1>3. \A k \in Slots : Ip(k) = <<>> BY <1>2 DEF Ip, ZeroBatch
<1>4. \A k \in Slots : Len(Ip(k)) = 0 BY <1>3
<1>5. pc = "parse" BY DEF Init, StartInit
<1>6. Rising BY <1>4, <1>5 DEF Rising
<1>7. \A k \in Slots : AddressSet(bc[k]) = {} BY <1>2 DEF AddressSet, ZeroBatch
<1>8. Covered BY <1>5, <1>7 DEF Covered
<1>9. StatInv BY IdleSound, ZeroType DEF Init, StatInv
<1>10. QED BY <1>1, <1>6, <1>8, <1>9 DEF Inv

\* The invariant: what each stage of the start relies on, the order of the
\* addresses and their cover by the interface, what header counters tell of an
\* exchange, and what a collecting thread has reached.
THEOREM ThreadsInvariant == Spec => []Inv
<1>1. Init => Inv BY Initially
<1>2. Inv /\ [Next]_vars => Inv'
  <2> SUFFICES ASSUME Inv, [Next]_vars PROVE Inv' OBVIOUS
  <2>1. [StartStep]_startVars BY StepsOfStart
  <2>2. StartInv' BY <2>1, StartInductive DEF Inv
  <2>3. Rising' BY <2>1, RisingInductive DEF Inv
  <2>4. Covered' BY <2>1, CoveredInductive DEF Inv
  <2>5. ClientInv' BY ClientsInductive DEF Inv
  <2>6. StatInv' BY StatsInductive
  <2>7. QED BY <2>2, <2>3, <2>4, <2>5, <2>6 DEF Inv
<1>3. QED BY <1>1, <1>2, PTL DEF Spec

\* Every variable has its type, and no thread collects from behind the batch
\* that follows the last (statistics.c:354 and 610).
THEOREM ThreadsTypes == Spec => []TypeOK
<1>1. Inv => TypeOK BY StatInvTypes DEF Inv, StartInv, ClientInv, TypeOK
<1>2. QED BY <1>1, ThreadsInvariant, PTL

\* A batch that runs has clients and contexts, whatever failed in
\* create_thr_subbatches (loader.c:218).
THEOREM BatchesEquipped == Spec => []RunningEquipped
<1>1. Inv => RunningEquipped
  BY DEF Inv, StartInv, StartTypes, Contexts, Equipped, RunningEquipped
<1>2. QED BY <1>1, ThreadsInvariant, PTL

\* No two clients have the same address, unless addresses are shared
\* (loader.c:2054).
THEOREM AddressesApart == Spec => []AddressesDedicated
<1>1. ASSUME Inv PROVE AddressesDedicated
  <2> SUFFICES ASSUME SharedNum(conf) = 0, NEW k \in running, NEW l \in running,
                      NEW p \in 1 .. Len(Ip(k)), NEW q \in 1 .. Len(Ip(l)),
                      Ip(k)[p] = Ip(l)[q]
               PROVE  k = l /\ p = q
    BY DEF AddressesDedicated, Ip
  <2>1. k \in Slots /\ l \in Slots
    BY <1>1 DEF Inv, StartInv, StartTypes
  <2>2. Ip(k)[p] \in Nat /\ Ip(l)[q] \in Nat
    <3>1. Ip(k) \in Seq(Nat) /\ Ip(l) \in Seq(Nat)
      BY <1>1, <2>1 DEF Inv, StartInv, StartTypes, Ip, Batch
    <3>2. QED BY <3>1
  <2>3. ~(k < l) /\ ~(l < k) BY <1>1, <2>1, <2>2 DEF Inv, Rising
  <2>4. k = l BY <2>1, <2>3 DEF Slots
  <2>5. ~(p < q) /\ ~(q < p) BY <1>1, <2>1, <2>2, <2>4 DEF Inv, Rising
  <2>6. p \in Int /\ q \in Int OBVIOUS
  <2>7. QED BY <2>4, <2>5, <2>6
<1>2. QED BY <1>1, ThreadsInvariant, PTL

\* The addresses of all clients are on the interface (loader.c:207), but for
\* the exception that the property names.
THEOREM AddressesConfigured == Spec => []AddressesAdded
<1>1. Inv => AddressesAdded
  BY DEF Inv, StartInv, StartTypes, Covered, AddressesAdded
<1>2. QED BY <1>1, ThreadsInvariant, PTL

\* Every request is counted once, but those that follow one cut off
\* (loader.c:1271).
THEOREM RequestsExact == Spec => []RequestsCounted
<1>1. Inv => RequestsCounted
  BY DEF Inv, ClientInv, RequestsOf, RequestsCounted
<1>2. QED BY <1>1, ThreadsInvariant, PTL

\* Every response is counted once, but for what header counters cannot tell
\* (loader.c:1302).
THEOREM ResponsesExact == Spec => []ResponsesCounted
<1>1. Inv => ResponsesCounted
  BY DEF Inv, ClientInv, ResponsesOf, ResponsesCounted
<1>2. QED BY <1>1, ThreadsInvariant, PTL

\* The threads do to the start of the program only what it allows: they end,
\* or end the process.
THEOREM StartImplemented == Spec => StartSpec
<1>1. Init => StartInit BY DEF Init
<1>2. [Next]_vars => [StartNext \/ ThreadEnds]_startVars
  BY StepsOfStart DEF StartStep
<1>3. QED BY <1>1, <1>2, PTL DEF Spec, StartSpec
=============================================================================
