----------------------------- MODULE MpoolProofs -----------------------------
(***************************************************************************)
(* The pool keeps its list, its counters and its blocks, and is an         *)
(* ObjectPool to its users, for every size of a block and every number of  *)
(* blocks.                                                                 *)
(***************************************************************************)
EXTENDS Mpool, FiniteSetTheorems, FunctionTheorems, SequenceTheorems,
        TLAPS

(***************************************************************************)
(* The invariant.                                                          *)
(***************************************************************************)

Members(s) == {s[k] : k \in 1 .. Len(s)}
Distinct(s) == \A j, k \in 1 .. Len(s) : s[j] = s[k] => j = k
StartsBelow(n) == {Start(b) : b \in 0 .. n - 1}

\* Where blocks are: marked, and until they are freed, kept.
BlocksSound ==
  /\ phase \in {"ready", "walk", "free", "dropped"} =>
       mem_block_start = StartsBelow(blocks_alloc_num)
  /\ phase \in {"ready", "walk"} => blocks = mem_block_start
  /\ phase = "ready" => memblock_array = <<>>

\* A pool not set up is empty.
Unused ==
  phase \in {"none", "failed"} =>
    /\ free_list_head = Null /\ chain = <<>>
    /\ blocks_alloc_num = 0 /\ obj_alloc_num = 0
    /\ mem_block_start = {} /\ blocks = {}
    /\ out = {} /\ memblock_array = <<>>

\* mpool_free has found no object missing, and found the block starts of the
\* list up to the object it has reached.
WalkSound ==
  /\ phase \in {"walk", "free", "released"} => out = {}
  /\ phase = "released" => obj_alloc_num = 0
  /\ phase \in {"walk", "free"} =>
       Distinct(memblock_array) /\ Members(memblock_array) \subseteq blocks
  /\ phase = "walk" =>
       \E k \in 1 .. Len(chain) + 1 :
         /\ item = IF k = Len(chain) + 1 THEN Null ELSE chain[k]
         /\ Members(memblock_array) =
              {chain[j] : j \in 1 .. k - 1} \cap mem_block_start

PoolInv ==
  /\ TypeOK /\ ListSound /\ CountsMatch /\ BlocksFreedOnce
  /\ out \subseteq Allocated
  /\ BlocksSound /\ Unused /\ WalkSound
-----------------------------------------------------------------------------
(***************************************************************************)
(* Numbers and sequences.                                                  *)
(***************************************************************************)

\* Blocks do not overlap.
LEMMA Products ==
  ASSUME NEW a \in Nat, NEW b \in Nat, NEW s \in Nat, a < b
  PROVE  a * s + s <= b * s /\ a * s \in Nat /\ b * s \in Nat
<1>1. PICK d \in Nat : b = a + 1 + d
  <2>1. b - a - 1 \in Nat /\ b = a + 1 + (b - a - 1) OBVIOUS
  <2>2. QED BY <2>1
<1>2. b * s = a * s + s + d * s BY <1>1
<1>3. a * s \in Nat /\ d * s \in Nat /\ b * s \in Nat BY <1>1
<1>4. QED BY <1>2, <1>3

\* The start of a block is an object of it.
LEMMA StartInBlocks ==
  ASSUME NEW n \in Nat, NEW b \in 0 .. n - 1
  PROVE  Start(b) \in 1 .. n * IncreaseStep
<1>1. b * IncreaseStep + IncreaseStep <= n * IncreaseStep
      /\ b * IncreaseStep \in Nat /\ n * IncreaseStep \in Nat
  BY Products, PoolAssumption
<1>2. QED BY <1>1, PoolAssumption DEF Start

\* Different blocks have different starts.
LEMMA StartInjective ==
  ASSUME NEW a \in Nat, NEW b \in Nat, Start(a) = Start(b)
  PROVE  a = b
<1>1. ASSUME NEW x \in Nat, NEW y \in Nat, x < y PROVE Start(x) < Start(y)
  <2>1. x * IncreaseStep + IncreaseStep <= y * IncreaseStep
        /\ x * IncreaseStep \in Nat /\ y * IncreaseStep \in Nat
    BY <1>1, Products, PoolAssumption
  <2>2. QED BY <2>1, PoolAssumption DEF Start
<1>2. Start(a) \in Int /\ Start(b) \in Int
  BY PoolAssumption DEF Start
<1>3. QED BY <1>1, <1>2

\* Blocks that follow each other.
LEMMA StartsJoin ==
  ASSUME NEW n \in Nat, NEW d \in Nat
  PROVE  StartsBelow(n) \cup {Start(b) : b \in n .. n + d - 1} = StartsBelow(n + d)
<1> DEFINE L == StartsBelow(n) \cup {Start(b) : b \in n .. n + d - 1}
<1>1. ASSUME NEW x \in L PROVE x \in StartsBelow(n + d)
  <2>1. PICK b \in (0 .. n - 1) \cup (n .. n + d - 1) : x = Start(b)
    BY DEF StartsBelow
  <2>2. b \in 0 .. n + d - 1 OBVIOUS
  <2>3. QED BY <2>1, <2>2 DEF StartsBelow
<1>2. ASSUME NEW x \in StartsBelow(n + d) PROVE x \in L
  <2>1. PICK b \in 0 .. n + d - 1 : x = Start(b)
    BY DEF StartsBelow
  <2>2. b \in 0 .. n - 1 \/ b \in n .. n + d - 1 OBVIOUS
  <2>3. QED BY <2>1, <2>2 DEF StartsBelow
<1>3. QED BY <1>1, <1>2

\* There are as many starts as blocks.
LEMMA StartsCounted ==
  ASSUME NEW n \in Nat
  PROVE  IsFiniteSet(StartsBelow(n)) /\ Cardinality(StartsBelow(n)) = n
<1> DEFINE Ids == 0 .. n - 1
           f == [b \in Ids |-> Start(b)]
<1>1. IsFiniteSet(Ids) /\ Cardinality(Ids) = n
  <2>1. /\ IsFiniteSet(0 .. n - 1)
        /\ Cardinality(0 .. n - 1) = IF 0 > n - 1 THEN 0 ELSE n - 1 - 0 + 1
    BY FS_Interval, SMT
  <2>2. QED BY <2>1
<1>2. f \in Bijection(Ids, StartsBelow(n))
  <2>1. f \in [Ids -> StartsBelow(n)]
    BY DEF StartsBelow
  <2>2. \A a, b \in Ids : f[a] = f[b] => a = b
    BY StartInjective
  <2>3. \A t \in StartsBelow(n) : \E b \in Ids : f[b] = t
    BY DEF StartsBelow
  <2> HIDE DEF f, Ids
  <2>4. QED BY <2>1, <2>2, <2>3, Fun_IsBij
<1>3. QED BY <1>1, <1>2, FS_Bijection DEF ExistsBijection

\* A sequence without its last element.
LEMMA AllButLast ==
  ASSUME NEW S, NEW s \in Seq(S), s # <<>>
  PROVE  /\ SubSeq(s, 1, Len(s) - 1) \in Seq(S)
         /\ Len(SubSeq(s, 1, Len(s) - 1)) = Len(s) - 1
         /\ \A j \in 1 .. Len(s) - 1 : SubSeq(s, 1, Len(s) - 1)[j] = s[j]
<1>1. Len(s) \in Nat \ {0} OBVIOUS
<1>2. /\ 1 \in 1 .. Len(s) + 1 /\ Len(s) - 1 \in 1 - 1 .. Len(s)
      /\ Len(s) - 1 - 1 + 1 = Len(s) - 1
  BY <1>1
<1>3. \A j \in 1 .. Len(s) - 1 : 1 + j - 1 = j OBVIOUS
<1>4. QED BY <1>1, <1>2, <1>3, SubSeqProperties

\* A sequence without repetition is no longer than a set that contains it.
LEMMA DistinctFits ==
  ASSUME NEW S, NEW s \in Seq(S), Distinct(s), Members(s) \subseteq S,
         IsFiniteSet(S)
  PROVE  Len(s) <= Cardinality(S)
<1> DEFINE Ids == 1 .. Len(s)
<1>1. IsFiniteSet(Ids) /\ Cardinality(Ids) = Len(s)
  <2>1. /\ IsFiniteSet(1 .. Len(s))
        /\ Cardinality(1 .. Len(s)) = IF 1 > Len(s) THEN 0 ELSE Len(s) - 1 + 1
    BY FS_Interval, SMT
  <2>2. QED BY <2>1
<1>2. Cardinality(S) \in Nat BY FS_CardinalityType
<1>3. CASE Cardinality(S) < Len(s)
  <2>1. s \in [Ids -> S] OBVIOUS
  <2>2. \E a, b \in Ids : a # b /\ s[a] = s[b]
    BY <1>1, <1>3, <2>1, FS_PigeonHole
  <2>3. QED BY <2>2 DEF Distinct
<1>4. QED BY <1>2, <1>3

\* A sequence that contains a set without an element of it has fewer.
LEMMA LongEnough ==
  ASSUME NEW n \in Nat, NEW s \in Seq(1 .. n), Distinct(s), Len(s) = n,
         NEW o \in 1 .. n
  PROVE  o \in Members(s)
<1> SUFFICES ASSUME o \notin Members(s) PROVE FALSE OBVIOUS
<1> DEFINE S == (1 .. n) \ {o}
<1>1. IsFiniteSet(1 .. n) /\ Cardinality(1 .. n) = n
  <2>1. /\ IsFiniteSet(1 .. n)
        /\ Cardinality(1 .. n) = IF 1 > n THEN 0 ELSE n - 1 + 1
    BY FS_Interval, SMT
  <2>2. QED BY <2>1
<1>2. IsFiniteSet(S) /\ Cardinality(S) = n - 1
  BY <1>1, FS_RemoveElement
<1>3. Members(s) \subseteq S /\ s \in Seq(S)
  <2>1. \A k \in 1 .. Len(s) : s[k] \in S BY DEF Members
  <2>2. QED BY <2>1 DEF Members
<1>4. Len(s) <= Cardinality(S)
  <2> HIDE DEF S
  <2>1. QED BY <1>2, <1>3, DistinctFits
<1>5. QED BY <1>2, <1>4
-----------------------------------------------------------------------------
(***************************************************************************)
(* Operations.                                                             *)
(***************************************************************************)

\* Initially.
LEMMA InitPool ==
  ASSUME Init
  PROVE  PoolInv
<1>1. TypeOK
  <2>1. 0 \in 0 .. MaxBlocks * IncreaseStep
    <3>1. MaxBlocks * IncreaseStep \in Nat BY PoolAssumption
    <3>2. QED BY <3>1
  <2>2. 0 \in 0 .. MaxBlocks BY PoolAssumption
  <2>3. QED BY <2>1, <2>2 DEF Init, TypeOK
<1>2. QED
  BY <1>1 DEF Init, PoolInv, ListSound, CountsMatch, BlocksFreedOnce, InUse,
     BlocksSound, Unused, WalkSound, Allocated

\* Blocks are added.
LEMMA BlocksAdded ==
  ASSUME TypeOK, NEW done \in Nat, mpool_allocate(done),
         mem_block_start = StartsBelow(blocks_alloc_num),
         blocks = mem_block_start,
         obj_alloc_num = blocks_alloc_num * IncreaseStep
  PROVE  /\ mem_block_start' = StartsBelow(blocks_alloc_num')
         /\ blocks' = mem_block_start'
         /\ obj_alloc_num' = blocks_alloc_num' * IncreaseStep
         /\ blocks_alloc_num' \in 0 .. MaxBlocks
         /\ obj_alloc_num' \in 0 .. MaxBlocks * IncreaseStep
         /\ mem_block_start' \subseteq Starts
         /\ done * IncreaseStep \in Nat /\ done * IncreaseStep >= IncreaseStep
<1>1. /\ blocks_alloc_num \in Nat /\ MaxBlocks \in Nat /\ IncreaseStep \in Nat \ {0}
      /\ blocks_alloc_num + done <= MaxBlocks /\ done > 0
      /\ blocks_alloc_num' = blocks_alloc_num + done
      /\ obj_alloc_num' = obj_alloc_num + done * IncreaseStep
  BY PoolAssumption DEF TypeOK, mpool_allocate
<1>2. mem_block_start' = StartsBelow(blocks_alloc_num')
  <2>1. StartsBelow(blocks_alloc_num) \cup NewStarts(done) =
          StartsBelow(blocks_alloc_num + done)
    BY <1>1, StartsJoin DEF NewStarts
  <2>2. QED BY <1>1, <2>1 DEF mpool_allocate
<1>3. blocks' = mem_block_start' BY DEF mpool_allocate
<1>4. obj_alloc_num' = blocks_alloc_num' * IncreaseStep
  BY <1>1
<1>5. /\ blocks_alloc_num' \in 0 .. MaxBlocks
      /\ obj_alloc_num' \in 0 .. MaxBlocks * IncreaseStep
  <2>1. blocks_alloc_num' \in 0 .. MaxBlocks BY <1>1
  <2>2. blocks_alloc_num' < MaxBlocks =>
          blocks_alloc_num' * IncreaseStep + IncreaseStep <= MaxBlocks * IncreaseStep
    BY <1>1, <2>1, Products
  <2>3. blocks_alloc_num' * IncreaseStep \in Nat /\ MaxBlocks * IncreaseStep \in Nat
    BY <1>1, <2>1
  <2>4. QED BY <1>1, <1>4, <2>1, <2>2, <2>3
<1>6. mem_block_start' \subseteq Starts
  BY <1>1, <1>2, <1>5 DEF StartsBelow, Starts
<1>7. done * IncreaseStep \in Nat /\ done * IncreaseStep >= IncreaseStep
  <2>1. 0 * IncreaseStep + IncreaseStep <= done * IncreaseStep
    BY <1>1, Products
  <2>2. QED BY <1>1, <2>1
<1>8. QED BY <1>2, <1>3, <1>4, <1>5, <1>6, <1>7

\* heap_init sets the pool up.
LEMMA InitStep ==
  ASSUME PoolInv, NEW num_obj \in PreallocNum, NEW done \in 1 .. MaxBlocks,
         mpool_init(num_obj, done)
  PROVE  PoolInv'
<1> DEFINE n == done * IncreaseStep
<1>1. /\ phase = "none" /\ phase' = "ready" /\ done \in Nat
      /\ free_list_head = Null /\ chain = <<>>
      /\ blocks_alloc_num = 0 /\ obj_alloc_num = 0
      /\ mem_block_start = {} /\ blocks = {}
      /\ out = {} /\ out' = out /\ memblock_array = <<>> /\ memblock_array' = <<>>
      /\ item' = item /\ got' = got /\ TypeOK
  BY DEF mpool_init, PoolInv, Unused, freeVars
<1>2. /\ mem_block_start' = StartsBelow(blocks_alloc_num')
      /\ blocks' = mem_block_start'
      /\ obj_alloc_num' = blocks_alloc_num' * IncreaseStep
      /\ blocks_alloc_num' \in 0 .. MaxBlocks
      /\ obj_alloc_num' \in 0 .. MaxBlocks * IncreaseStep
      /\ mem_block_start' \subseteq Starts
      /\ n \in Nat /\ n >= IncreaseStep
  <2>1. StartsBelow(0) = {} BY DEF StartsBelow
  <2>2. 0 * IncreaseStep = 0 BY PoolAssumption
  <2>3. QED BY <1>1, <2>1, <2>2, BlocksAdded DEF mpool_init
<1>3. obj_alloc_num' = n /\ n > 0
  BY <1>1, <1>2, PoolAssumption DEF mpool_init, mpool_allocate
<1> HIDE DEF n
<1>4. /\ chain' \in Seq(1 .. n) /\ Len(chain') = n
      /\ \A k \in 1 .. n : chain'[k] = 1 + n - k
  <2>1. chain' = [k \in 1 .. n |-> 1 + n - k] \o <<>>
    BY <1>1, <1>3 DEF mpool_init, ChainAfterAdds
  <2>2. [k \in 1 .. n |-> 1 + n - k] \in Seq(1 .. n)
    BY <1>2, <1>3
  <2>3. QED BY <1>2, <1>3, <2>1, <2>2
<1>5. /\ free_list_head' = n /\ free_list_size' = n
      /\ link_next' = [o \in Objects |-> IF o = 1 THEN Null
                         ELSE IF o \in 1 .. n THEN o - 1 ELSE link_next[o]]
  <2>1. 1 + n - 1 = n BY <1>2
  <2>2. QED BY <1>1, <1>3, <2>1 DEF mpool_init, NextAfterAdds
<1>6. 1 .. n \subseteq Objects
  <2>1. MaxBlocks * IncreaseStep \in Nat BY PoolAssumption
  <2>2. n <= MaxBlocks * IncreaseStep BY <1>2, <1>3
  <2>3. QED BY <1>2, <2>1, <2>2 DEF Objects
<1>7. TypeOK'
  <2>1. link_next' \in [Objects -> Objects \cup {Null}]
    <3>1. \A o \in 1 .. n : o = 1 \/ o - 1 \in 1 .. n BY <1>2
    <3>2. link_next \in [Objects -> Objects \cup {Null}] BY <1>1 DEF TypeOK
    <3>3. QED BY <1>5, <1>6, <3>1, <3>2
  <2>2. chain' \in Seq(Objects) /\ free_list_head' \in Objects
    BY <1>2, <1>3, <1>4, <1>5, <1>6
  <2>3. QED BY <1>1, <1>2, <1>5, <2>1, <2>2 DEF TypeOK
<1>8. ListSound'
  <2>1. free_list_head' = chain'[1] /\ chain' # <<>>
    BY <1>2, <1>3, <1>4, <1>5
  <2>2. \A k \in 1 .. Len(chain') :
          link_next'[chain'[k]] = IF k = Len(chain') THEN Null ELSE chain'[k + 1]
    <3> TAKE k \in 1 .. Len(chain')
    <3>1. chain'[k] = 1 + n - k /\ chain'[k] \in Objects /\ k \in 1 .. n
      BY <1>4, <1>6
    <3>2. CASE k = n
      BY <1>2, <1>4, <1>5, <3>1, <3>2
    <3>3. CASE k # n
      <4>1. k + 1 \in 1 .. n /\ chain'[k + 1] = chain'[k] - 1 /\ chain'[k] # 1
        BY <1>2, <1>4, <3>1, <3>3
      <4>2. chain'[k] \in 1 .. n BY <1>2, <3>1
      <4>3. QED BY <1>4, <1>5, <3>1, <3>3, <4>1, <4>2
    <3>4. QED BY <3>2, <3>3
  <2>3. {chain'[k] : k \in 1 .. Len(chain')} = 1 .. n
    <3>1. \A o \in 1 .. n : 1 + n - o \in 1 .. n /\ chain'[1 + n - o] = o
      BY <1>2, <1>4
    <3>2. \A k \in 1 .. n : 1 + n - k \in 1 .. n BY <1>2
    <3>3. \A k \in 1 .. n : chain'[k] \in 1 .. n BY <1>4, <3>2
    <3>4. QED BY <1>4, <3>1, <3>3
  <2>4. QED BY <1>1, <1>3, <2>1, <2>2, <2>3 DEF ListSound, Allocated
<1>9. CountsMatch'
  <2>1. \A j, k \in 1 .. Len(chain') : chain'[j] = chain'[k] => j = k
    BY <1>2, <1>4
  <2>2. QED BY <1>2, <1>4, <1>5, <2>1 DEF CountsMatch
<1>10. BlocksFreedOnce' /\ BlocksSound' /\ Unused' /\ WalkSound'
  BY <1>1, <1>2 DEF BlocksFreedOnce, BlocksSound, Unused, WalkSound
<1>11. QED BY <1>1, <1>7, <1>8, <1>9, <1>10 DEF PoolInv

\* The first object of the list is taken.
LEMMA TakeStep ==
  ASSUME PoolInv, mpool_take_obj
  PROVE  PoolInv'
<1> DEFINE o == free_list_head
<1>1. /\ phase = "ready" /\ phase' = "ready" /\ o # Null
      /\ free_list_head' = link_next[o] /\ free_list_size' = free_list_size - 1
      /\ link_next' = [link_next EXCEPT ![o] = Null] /\ chain' = Tail(chain)
      /\ out' = out \cup {o} /\ got' = o
      /\ UNCHANGED <<blockVars, freeVars>>
  BY DEF mpool_take_obj, mpool_remove
<1>2. /\ TypeOK /\ chain \in Seq(Objects) /\ o \in Objects
      /\ chain # <<>> /\ o = chain[1]
      /\ \A k \in 1 .. Len(chain) :
           link_next[chain[k]] = IF k = Len(chain) THEN Null ELSE chain[k + 1]
      /\ \A u \in out : link_next[u] = Null
      /\ {chain[k] : k \in 1 .. Len(chain)} = Allocated \ out
      /\ out \subseteq Allocated
      /\ \A j, k \in 1 .. Len(chain) : chain[j] = chain[k] => j = k
      /\ free_list_size = Len(chain)
      /\ obj_alloc_num = blocks_alloc_num * IncreaseStep
      /\ link_next \in [Objects -> Objects \cup {Null}]
  BY <1>1 DEF PoolInv, TypeOK, ListSound, CountsMatch, InUse
<1>3. /\ Len(chain) \in Nat \ {0} /\ chain' \in Seq(Objects)
      /\ Len(chain') = Len(chain) - 1
      /\ \A k \in 1 .. Len(chain') : chain'[k] = chain[k + 1]
  BY <1>1, <1>2
<1>4. /\ chain' # <<>> => chain'[1] = chain[2] /\ Len(chain) > 1
      /\ chain' = <<>> <=> Len(chain) = 1
  BY <1>3
<1> HIDE DEF o
<1>5. /\ free_list_head' = IF chain' = <<>> THEN Null ELSE chain'[1]
      /\ free_list_head' \in Objects \cup {Null}
  BY <1>1, <1>2, <1>3, <1>4
<1>6. \A k \in 2 .. Len(chain) : chain[k] \in Objects /\ chain[k] # o
  BY <1>2, <1>3
<1>7. \A k \in 1 .. Len(chain') :
        link_next'[chain'[k]] = IF k = Len(chain') THEN Null ELSE chain'[k + 1]
  <2> TAKE k \in 1 .. Len(chain')
  <2>1. k + 1 \in 2 .. Len(chain) /\ chain'[k] = chain[k + 1]
    BY <1>3
  <2>2. link_next'[chain'[k]] = link_next[chain[k + 1]]
    BY <1>1, <1>2, <1>6, <2>1
  <2>3. k # Len(chain') => chain'[k + 1] = chain[k + 2]
    BY <1>3
  <2>4. QED BY <1>2, <1>3, <2>1, <2>2, <2>3
<1>8. {chain'[k] : k \in 1 .. Len(chain')} = Allocated \ out'
  <2>1. \A k \in 1 .. Len(chain') : chain'[k] \in Allocated \ out'
    <3> TAKE k \in 1 .. Len(chain')
    <3>1. k + 1 \in 2 .. Len(chain) /\ chain'[k] = chain[k + 1] BY <1>3
    <3>2. chain[k + 1] \in Allocated \ out BY <1>2, <3>1
    <3>3. QED BY <1>1, <1>6, <3>1, <3>2
  <2>2. \A u \in Allocated \ out' : \E k \in 1 .. Len(chain') : chain'[k] = u
    <3> TAKE u \in Allocated \ out'
    <3>1. PICK j \in 1 .. Len(chain) : chain[j] = u
      BY <1>1, <1>2
    <3>2. j # 1 BY <1>1, <1>2, <3>1
    <3>3. j - 1 \in 1 .. Len(chain') /\ chain'[j - 1] = chain[j]
      BY <1>3, <3>2
    <3>4. QED BY <3>1, <3>3
  <2>3. QED BY <2>1, <2>2
<1>9. \A j, k \in 1 .. Len(chain') : chain'[j] = chain'[k] => j = k
  <2> TAKE j, k \in 1 .. Len(chain')
  <2>1. j + 1 \in 1 .. Len(chain) /\ k + 1 \in 1 .. Len(chain) BY <1>3
  <2>2. chain'[j] = chain[j + 1] /\ chain'[k] = chain[k + 1] BY <1>3
  <2>3. chain[j + 1] = chain[k + 1] => j + 1 = k + 1 BY <1>2, <2>1
  <2>4. QED BY <2>2, <2>3
<1>10. o \in Allocated
  BY <1>2, <1>3
<1>11. \A u \in out' : link_next'[u] = Null
  <2>1. out' \subseteq Objects BY <1>1, <1>2 DEF TypeOK
  <2>2. QED BY <1>1, <1>2, <2>1
<1>12. TypeOK'
  <2>1. /\ link_next' \in [Objects -> Objects \cup {Null}]
        /\ out' \subseteq Objects /\ free_list_size' \in Nat
    BY <1>1, <1>2, <1>3 DEF TypeOK
  <2>2. QED BY <1>1, <1>2, <1>3, <1>5, <2>1 DEF TypeOK, blockVars, freeVars
<1>13. ListSound' /\ CountsMatch' /\ out' \subseteq Allocated'
  <2>1. Allocated' = Allocated BY <1>1 DEF Allocated, blockVars
  <2>2. QED
    BY <1>1, <1>2, <1>3, <1>5, <1>7, <1>8, <1>9, <1>10, <1>11, <2>1
    DEF ListSound, CountsMatch, blockVars
<1>14. BlocksFreedOnce' /\ BlocksSound' /\ Unused' /\ WalkSound'
  BY <1>1 DEF PoolInv, BlocksFreedOnce, BlocksSound, Unused, WalkSound,
     blockVars, freeVars
<1>15. QED BY <1>12, <1>13, <1>14 DEF PoolInv

\* An object is put in front of the list.
LEMMA ReturnStep ==
  ASSUME PoolInv, NEW o \in Objects, mpool_return_obj(o)
  PROVE  PoolInv'
<1>1. /\ phase = "ready" /\ phase' = "ready" /\ o \in out
      /\ free_list_head' = o /\ free_list_size' = free_list_size + 1
      /\ link_next' = IF free_list_head # Null
                      THEN [link_next EXCEPT ![o] = free_list_head] ELSE link_next
      /\ chain' = <<o>> \o chain
      /\ out' = out \ {o} /\ got' = got
      /\ UNCHANGED <<blockVars, freeVars>>
  BY DEF mpool_return_obj
<1>2. /\ TypeOK /\ chain \in Seq(Objects)
      /\ free_list_head = IF chain = <<>> THEN Null ELSE chain[1]
      /\ \A k \in 1 .. Len(chain) :
           link_next[chain[k]] = IF k = Len(chain) THEN Null ELSE chain[k + 1]
      /\ \A u \in out : link_next[u] = Null
      /\ {chain[k] : k \in 1 .. Len(chain)} = Allocated \ out
      /\ out \subseteq Allocated
      /\ \A j, k \in 1 .. Len(chain) : chain[j] = chain[k] => j = k
      /\ free_list_size = Len(chain)
      /\ obj_alloc_num = blocks_alloc_num * IncreaseStep
      /\ link_next \in [Objects -> Objects \cup {Null}]
  BY <1>1 DEF PoolInv, TypeOK, ListSound, CountsMatch, InUse
<1>3. /\ Len(chain) \in Nat /\ chain' \in Seq(Objects)
      /\ Len(chain') = Len(chain) + 1 /\ chain'[1] = o
      /\ \A k \in 1 .. Len(chain) : chain'[k + 1] = chain[k]
  BY <1>1, <1>2
<1>4. \A k \in 1 .. Len(chain) : chain[k] \in Objects /\ chain[k] # o
  BY <1>1, <1>2
<1>5. \A k \in 1 .. Len(chain') :
        k = 1 \/ (k - 1 \in 1 .. Len(chain) /\ chain'[k] = chain[k - 1])
  BY <1>3
<1>6. link_next'[o] = IF chain = <<>> THEN Null ELSE chain[1]
  <2>1. CASE chain = <<>>
    BY <1>1, <1>2, <2>1
  <2>2. CASE chain # <<>>
    <3>1. chain[1] \in Objects BY <1>2, <1>3, <1>4, <2>2
    <3>2. free_list_head # Null BY <1>2, <2>2, <3>1 DEF Objects, Null
    <3>3. QED BY <1>1, <1>2, <2>2, <3>2
  <2>3. QED BY <2>1, <2>2
<1>7. \A u \in Objects \ {o} : link_next'[u] = link_next[u]
  BY <1>1, <1>2
<1>8. \A k \in 1 .. Len(chain') :
        link_next'[chain'[k]] = IF k = Len(chain') THEN Null ELSE chain'[k + 1]
  <2> TAKE k \in 1 .. Len(chain')
  <2>1. CASE k = 1
    <3>1. chain = <<>> <=> Len(chain') = 1 BY <1>2, <1>3
    <3>2. chain # <<>> => chain'[2] = chain[1] BY <1>2, <1>3
    <3>3. QED BY <1>3, <1>6, <2>1, <3>1, <3>2
  <2>2. CASE k # 1
    <3>1. k - 1 \in 1 .. Len(chain) /\ chain'[k] = chain[k - 1] BY <1>5, <2>2
    <3>2. link_next'[chain'[k]] = link_next[chain[k - 1]] BY <1>4, <1>7, <3>1
    <3>3. k # Len(chain') => chain'[k + 1] = chain[k] BY <1>3, <2>2
    <3>4. QED BY <1>2, <1>3, <3>1, <3>2, <3>3
  <2>3. QED BY <2>1, <2>2
<1>9. {chain'[k] : k \in 1 .. Len(chain')} = Allocated \ out'
  <2>1. \A k \in 1 .. Len(chain') : chain'[k] \in Allocated \ out'
    <3> TAKE k \in 1 .. Len(chain')
    <3>1. CASE k = 1 BY <1>1, <1>2, <1>3, <3>1
    <3>2. CASE k # 1
      <4>1. k - 1 \in 1 .. Len(chain) /\ chain'[k] = chain[k - 1] BY <1>5, <3>2
      <4>2. QED BY <1>1, <1>2, <4>1
    <3>3. QED BY <3>1, <3>2
  <2>2. \A u \in Allocated \ out' : \E k \in 1 .. Len(chain') : chain'[k] = u
    <3> TAKE u \in Allocated \ out'
    <3>1. CASE u = o
      <4>1. 1 \in 1 .. Len(chain') BY <1>3
      <4>2. QED BY <1>3, <3>1, <4>1
    <3>2. CASE u # o
      <4>1. PICK j \in 1 .. Len(chain) : chain[j] = u
        BY <1>1, <1>2, <3>2
      <4>2. j + 1 \in 1 .. Len(chain') /\ chain'[j + 1] = u BY <1>3, <4>1
      <4>3. QED BY <4>2
    <3>3. QED BY <3>1, <3>2
  <2>3. QED BY <2>1, <2>2
<1>10. \A j, k \in 1 .. Len(chain') : chain'[j] = chain'[k] => j = k
  <2> TAKE j, k \in 1 .. Len(chain')
  <2>1. CASE j # 1 /\ k # 1
    <3>1. /\ j - 1 \in 1 .. Len(chain) /\ chain'[j] = chain[j - 1]
          /\ k - 1 \in 1 .. Len(chain) /\ chain'[k] = chain[k - 1]
      BY <1>5, <2>1
    <3>2. chain[j - 1] = chain[k - 1] => j - 1 = k - 1 BY <1>2, <3>1
    <3>3. QED BY <3>1, <3>2
  <2>2. CASE j = 1 /\ k # 1 BY <1>3, <1>4, <1>5, <2>2
  <2>3. CASE j # 1 /\ k = 1 BY <1>3, <1>4, <1>5, <2>3
  <2>4. QED BY <2>1, <2>2, <2>3
<1>11. \A u \in out' : link_next'[u] = Null
  <2>1. out' \subseteq Objects BY <1>1, <1>2 DEF TypeOK
  <2>2. QED BY <1>1, <1>2, <1>7, <2>1
<1>12. TypeOK'
  <2>1. free_list_head \in Objects \cup {Null} BY <1>2 DEF TypeOK
  <2>2. link_next' \in [Objects -> Objects \cup {Null}]
    BY <1>1, <1>2, <2>1
  <2>3. QED BY <1>1, <1>2, <1>3, <2>2 DEF TypeOK, blockVars, freeVars
<1>13. ListSound' /\ CountsMatch' /\ out' \subseteq Allocated'
  <2>1. Allocated' = Allocated BY <1>1 DEF Allocated, blockVars
  <2>2. chain' # <<>> BY <1>3
  <2>3. QED
    BY <1>1, <1>2, <1>3, <1>8, <1>9, <1>10, <1>11, <2>1, <2>2
    DEF ListSound, CountsMatch, blockVars
<1>14. BlocksFreedOnce' /\ BlocksSound' /\ Unused' /\ WalkSound'
  BY <1>1 DEF PoolInv, BlocksFreedOnce, BlocksSound, Unused, WalkSound,
     blockVars, freeVars
<1>15. QED BY <1>12, <1>13, <1>14 DEF PoolInv

\* A block is added and its last object taken.
LEMMA GrowStep ==
  ASSUME PoolInv, mpool_take_obj_grown
  PROVE  PoolInv'
<1> DEFINE s == IncreaseStep
           n == obj_alloc_num
<1>1. /\ phase = "ready" /\ phase' = "ready" /\ free_list_head = Null
      /\ mpool_allocate(1)
      /\ free_list_head' = IF s = 1 THEN Null ELSE obj_alloc_num' - 1
      /\ link_next' = [NextAfterAdds(n + 1, s) EXCEPT ![obj_alloc_num'] = Null]
      /\ free_list_size' = s - 1
      /\ chain' = Tail(ChainAfterAdds(n + 1, s))
      /\ out' = out \cup {obj_alloc_num'} /\ got' = obj_alloc_num'
      /\ UNCHANGED freeVars
  BY DEF mpool_take_obj_grown
<1>2. /\ TypeOK /\ chain \in Seq(Objects)
      /\ free_list_head = IF chain = <<>> THEN Null ELSE chain[1]
      /\ {chain[k] : k \in 1 .. Len(chain)} = Allocated \ out
      /\ \A u \in out : link_next[u] = Null
      /\ out \subseteq Allocated
      /\ n = blocks_alloc_num * s
      /\ mem_block_start = StartsBelow(blocks_alloc_num)
      /\ blocks = mem_block_start
      /\ memblock_array = <<>>
      /\ link_next \in [Objects -> Objects \cup {Null}]
  BY <1>1 DEF PoolInv, TypeOK, ListSound, CountsMatch, InUse, BlocksSound
<1>3. chain = <<>> /\ out = Allocated
  <2>1. chain = <<>>
    <3> SUFFICES ASSUME chain # <<>> PROVE FALSE OBVIOUS
    <3>1. chain[1] \in Objects BY <1>2
    <3>2. QED BY <1>1, <1>2, <3>1 DEF Objects, Null
  <2>2. Len(chain) = 0 BY <2>1
  <2>3. {chain[k] : k \in 1 .. Len(chain)} = {} BY <2>2
  <2>4. Allocated \ out = {} BY <1>2, <2>3
  <2>5. QED BY <1>2, <2>1, <2>4
<1>4. /\ mem_block_start' = StartsBelow(blocks_alloc_num')
      /\ blocks' = mem_block_start'
      /\ obj_alloc_num' = blocks_alloc_num' * s
      /\ blocks_alloc_num' \in 0 .. MaxBlocks
      /\ obj_alloc_num' \in 0 .. MaxBlocks * s
      /\ mem_block_start' \subseteq Starts
  BY <1>1, <1>2, BlocksAdded
<1>5. /\ n \in Nat /\ s \in Nat \ {0} /\ obj_alloc_num' = n + s
      /\ MaxBlocks * s \in Nat /\ n + s <= MaxBlocks * s
  <2>1. n \in Nat /\ s \in Nat \ {0} /\ MaxBlocks * s \in Nat
    BY <1>2, PoolAssumption DEF TypeOK
  <2>2. obj_alloc_num' = n + 1 * s
    BY <1>1 DEF mpool_allocate
  <2>3. obj_alloc_num' <= MaxBlocks * s
    BY <1>4, <2>1
  <2>4. 1 * s = s BY <2>1
  <2>5. QED BY <2>1, <2>2, <2>3, <2>4
<1> HIDE DEF n, s
<1>6. 1 .. n + s \subseteq Objects /\ Allocated' = 1 .. n + s
  BY <1>5 DEF Objects, Allocated, s
<1>7. /\ chain' \in Seq(1 .. n + s) /\ Len(chain') = s - 1
      /\ \A k \in 1 .. s - 1 : chain'[k] = n + s - k
  <2> DEFINE q == [k \in 1 .. s |-> n + 1 + s - k]
  <2>1. ChainAfterAdds(n + 1, s) = q \o <<>>
    BY <1>3 DEF ChainAfterAdds
  <2>2. \A k \in 1 .. s : n + 1 + s - k \in 1 .. n + s BY <1>5
  <2>3. q \in Seq(1 .. n + s) /\ Len(q) = s /\ q # <<>>
    BY <1>5, <2>2
  <2>4. \A k \in 1 .. s : q[k] = n + 1 + s - k OBVIOUS
  <2> HIDE DEF q
  <2>5. q \o <<>> = q BY <2>3
  <2>6. chain' = Tail(q) BY <1>1, <2>1, <2>5
  <2>7. Len(Tail(q)) = s - 1 /\ Tail(q) \in Seq(1 .. n + s)
        /\ \A k \in 1 .. s - 1 : Tail(q)[k] = q[k + 1]
    BY <1>5, <2>3
  <2>8. \A k \in 1 .. s - 1 : k + 1 \in 1 .. s /\ n + 1 + s - (k + 1) = n + s - k
    BY <1>5
  <2>9. QED BY <2>4, <2>6, <2>7, <2>8
<1>8. \A u \in Objects :
        link_next'[u] = IF u = n + s \/ u = n + 1 THEN Null
                        ELSE IF u \in n + 1 .. n + s THEN u - 1 ELSE link_next[u]
  <2>1. n + 1 + s - 1 = n + s BY <1>5
  <2>2. NextAfterAdds(n + 1, s) =
          [u \in Objects |-> IF u = n + 1 THEN Null
                             ELSE IF u \in n + 1 .. n + s THEN u - 1
                             ELSE link_next[u]]
    BY <1>1, <2>1 DEF NextAfterAdds
  <2>3. n + s \in Objects BY <1>5, <1>6
  <2>4. QED BY <1>1, <1>5, <2>2, <2>3
<1>9. link_next' \in [Objects -> Objects \cup {Null}]
  <2>1. DOMAIN link_next' = Objects /\ link_next' = [u \in Objects |-> link_next'[u]]
    BY <1>1 DEF NextAfterAdds
  <2>2. \A u \in Objects : link_next'[u] \in Objects \cup {Null}
    <3> TAKE u \in Objects
    <3>1. u \in n + 1 .. n + s /\ u # n + 1 => u - 1 \in 1 .. n + s BY <1>5
    <3>2. QED BY <1>2, <1>6, <1>8, <3>1
  <2>3. QED BY <2>1, <2>2
<1>10. free_list_head' = IF chain' = <<>> THEN Null ELSE chain'[1]
  <2>1. CASE s = 1
    <3>1. Len(chain') = 0 BY <1>7, <2>1
    <3>2. chain' = <<>> BY <1>7, <3>1
    <3>3. QED BY <1>1, <2>1, <3>2 DEF s
  <2>2. CASE s # 1
    <3>1. Len(chain') > 0 /\ 1 \in 1 .. s - 1 BY <1>5, <1>7, <2>2
    <3>2. chain' # <<>> BY <3>1
    <3>3. chain'[1] = n + s - 1 BY <1>7, <3>1
    <3>4. QED BY <1>1, <1>5, <2>2, <3>2, <3>3 DEF s
  <2>3. QED BY <2>1, <2>2
<1>11. \A k \in 1 .. Len(chain') :
         link_next'[chain'[k]] = IF k = Len(chain') THEN Null ELSE chain'[k + 1]
  <2> TAKE k \in 1 .. Len(chain')
  <2>1. /\ chain'[k] = n + s - k /\ k \in 1 .. s - 1
        /\ n + s - k \in n + 1 .. n + s - 1 /\ n + s - k \in Objects
    BY <1>5, <1>6, <1>7
  <2>2. k # s - 1 => chain'[k + 1] = n + s - k - 1 /\ n + s - k # n + 1
    BY <1>5, <1>7, <2>1
  <2>3. k = s - 1 => n + s - k = n + 1 BY <1>5, <2>1
  <2>4. n + s - k \in n + 1 .. n + s /\ n + s - k # n + s BY <1>5, <2>1
  <2>5. CASE k = s - 1
    BY <1>7, <1>8, <2>1, <2>3, <2>5
  <2>6. CASE k # s - 1
    <3>1. n + s - k # n + 1 /\ n + s - k # n + s BY <2>2, <2>4, <2>6
    <3>2. \A u \in Objects : u = n + s - k => link_next'[u] = u - 1
      <4> TAKE u \in Objects
      <4> HAVE u = n + s - k
      <4>1. u # n + 1 /\ u # n + s /\ u \in n + 1 .. n + s
        BY <2>4, <3>1
      <4>2. QED BY <1>8, <4>1
    <3>3. chain'[k] \in Objects /\ chain'[k + 1] = chain'[k] - 1
      BY <1>5, <2>1, <2>2, <2>6
    <3>4. QED BY <1>7, <2>1, <2>6, <3>2, <3>3
  <2>7. QED BY <2>5, <2>6
<1>12. {chain'[k] : k \in 1 .. Len(chain')} = Allocated' \ out'
  <2>1. Allocated' \ out' = n + 1 .. n + s - 1
    BY <1>1, <1>3, <1>5, <1>6 DEF Allocated, n
  <2>2. \A k \in 1 .. s - 1 : n + s - k \in n + 1 .. n + s - 1 BY <1>5
  <2>3. \A u \in n + 1 .. n + s - 1 : n + s - u \in 1 .. s - 1 /\ n + s - (n + s - u) = u
    BY <1>5
  <2>4. QED BY <1>7, <2>1, <2>2, <2>3
<1>13. \A j, k \in 1 .. Len(chain') : chain'[j] = chain'[k] => j = k
  BY <1>5, <1>7
<1>14. \A u \in out' : link_next'[u] = Null
  <2> TAKE u \in out'
  <2>1. CASE u = n + s
    <3>1. n + s \in Objects BY <1>5, <1>6
    <3>2. QED BY <1>8, <2>1, <3>1
  <2>2. CASE u # n + s
    <3>1. u \in out /\ u \in 1 .. n /\ u \in Objects
      BY <1>1, <1>3, <1>5, <1>6, <2>2 DEF Allocated, n
    <3>2. u \notin n + 1 .. n + s BY <1>5, <3>1
    <3>3. u # n + 1 BY <1>5, <3>1
    <3>4. QED BY <1>2, <1>8, <3>1, <3>2, <3>3
  <2>3. QED BY <2>1, <2>2
<1>15. out' \subseteq Allocated'
  BY <1>1, <1>3, <1>5, <1>6 DEF Allocated, n
<1>16. chain' \in Seq(Objects)
  <2>1. \A k \in 1 .. Len(chain') : chain'[k] \in Objects
    <3>1. \A k \in 1 .. Len(chain') : chain'[k] \in 1 .. n + s
      <4>1. \A k \in 1 .. s - 1 : n + s - k \in 1 .. n + s BY <1>5
      <4>2. QED BY <1>7, <4>1
    <3>2. QED BY <1>6, <3>1
  <2>2. QED BY <1>7, <2>1
<1>17. TypeOK'
  <2>1. free_list_head' \in Objects \cup {Null}
    <3>1. chain' # <<>> => chain'[1] \in Objects BY <1>16
    <3>2. QED BY <1>10, <3>1
  <2>2. free_list_size' \in Nat BY <1>1, <1>5 DEF s
  <2>3. out' \subseteq Objects /\ got' \in Objects
    BY <1>1, <1>5, <1>6, <1>15
  <2>4. /\ item' \in Objects \cup {Null} /\ memblock_array' \in Seq(Objects)
        /\ phase' \in {"none", "failed", "ready", "walk", "free", "released", "dropped"}
        /\ blocks' \subseteq Starts
    BY <1>1, <1>2, <1>4 DEF TypeOK, freeVars
  <2>5. QED BY <1>4, <1>9, <1>16, <2>1, <2>2, <2>3, <2>4 DEF TypeOK, s
<1>18. ListSound'
  BY <1>10, <1>11, <1>12, <1>14 DEF ListSound
<1>19. CountsMatch'
  BY <1>1, <1>4, <1>7, <1>13 DEF CountsMatch, s
<1>20. BlocksFreedOnce' /\ BlocksSound' /\ Unused' /\ WalkSound'
  BY <1>1, <1>2, <1>4 DEF BlocksFreedOnce, BlocksSound, Unused, WalkSound, freeVars
<1>21. QED BY <1>15, <1>17, <1>18, <1>19, <1>20 DEF PoolInv

\* No object is given, or the pool is dropped: nothing of it changes.
LEMMA RefusedStep ==
  ASSUME PoolInv, mpool_init_fails \/ mpool_take_obj_fails \/ mpool_free_refused
  PROVE  PoolInv'
<1>1. /\ UNCHANGED <<listVars, blockVars, freeVars, out>>
      /\ \/ phase = "none" /\ phase' = "failed" /\ got' = got
         \/ phase = "ready" /\ phase' = "ready" /\ got' = Null
         \/ phase = "ready" /\ phase' = "dropped" /\ got' = got
  BY DEF mpool_init_fails, mpool_take_obj_fails, mpool_free_refused
<1>2. TypeOK' BY <1>1 DEF PoolInv, TypeOK, listVars, blockVars, freeVars
<1>3. /\ ListSound' /\ CountsMatch' /\ BlocksFreedOnce' /\ out' \subseteq Allocated'
      /\ BlocksSound' /\ Unused' /\ WalkSound'
  BY <1>1 DEF PoolInv, ListSound, CountsMatch, BlocksFreedOnce, BlocksSound,
     Unused, WalkSound, InUse, Allocated, listVars, blockVars, freeVars
<1>4. QED BY <1>2, <1>3 DEF PoolInv
-----------------------------------------------------------------------------
(***************************************************************************)
(* mpool_free.                                                             *)
(***************************************************************************)

\* With equal counters no object is out.
LEMMA NothingOut ==
  ASSUME PoolInv, InUse, obj_alloc_num = free_list_size
  PROVE  out = {}
<1>1. /\ chain \in Seq(Objects) /\ Len(chain) = obj_alloc_num
      /\ obj_alloc_num \in Nat /\ Distinct(chain)
      /\ Members(chain) = Allocated \ out /\ out \subseteq Allocated
  BY PoolAssumption
  DEF PoolInv, TypeOK, CountsMatch, ListSound, Distinct, Members
<1>2. chain \in Seq(1 .. obj_alloc_num)
  <2>1. \A k \in 1 .. Len(chain) : chain[k] \in Allocated BY <1>1 DEF Members
  <2>2. QED BY <1>1, <2>1 DEF Allocated
<1>3. \A o \in Allocated : o \in Members(chain)
  BY <1>1, <1>2, LongEnough DEF Allocated
<1>4. QED BY <1>1, <1>3

\* The walk starts.
LEMMA FreeStep ==
  ASSUME PoolInv, mpool_free
  PROVE  PoolInv'
<1>1. /\ phase = "ready" /\ phase' = "walk" /\ item' = free_list_head
      /\ obj_alloc_num = free_list_size
      /\ UNCHANGED <<listVars, blockVars, memblock_array, out, got>>
  BY DEF mpool_free
<1>2. out = {} BY <1>1, NothingOut DEF InUse
<1>3. /\ memblock_array = <<>> /\ memblock_array \in Seq(Objects)
      /\ chain \in Seq(Objects) /\ blocks_alloc_num \in Nat
      /\ free_list_head = IF chain = <<>> THEN Null ELSE chain[1]
  BY <1>1 DEF PoolInv, BlocksSound, TypeOK, ListSound, InUse
<1>4. TypeOK'
  BY <1>1 DEF PoolInv, TypeOK, listVars, blockVars
<1>5. ListSound' /\ CountsMatch' /\ out' \subseteq Allocated' /\ BlocksSound' /\ Unused'
  BY <1>1 DEF PoolInv, ListSound, CountsMatch, BlocksSound, Unused, InUse,
     Allocated, listVars, blockVars
<1>6. Members(memblock_array) = {} /\ Distinct(memblock_array)
  BY <1>3 DEF Members, Distinct
<1>7. BlocksFreedOnce'
  BY <1>1, <1>3, <1>6 DEF BlocksFreedOnce, Members, Distinct, listVars, blockVars
<1>8. WalkSound'
  <2>1. 1 \in 1 .. Len(chain) + 1 /\ (1 = Len(chain) + 1 <=> chain = <<>>)
    BY <1>3
  <2>2. {chain[j] : j \in 1 .. 1 - 1} = {} OBVIOUS
  <2>3. \E k \in 1 .. Len(chain) + 1 :
          /\ item' = IF k = Len(chain) + 1 THEN Null ELSE chain[k]
          /\ Members(memblock_array) =
               {chain[j] : j \in 1 .. k - 1} \cap mem_block_start
    BY <1>1, <1>3, <1>6, <2>1, <2>2
  <2>4. chain' = chain /\ memblock_array' = memblock_array
        /\ mem_block_start' = mem_block_start
    BY <1>1 DEF listVars, blockVars
  <2>5. QED BY <1>1, <1>2, <1>6, <2>3, <2>4 DEF WalkSound
<1>9. QED BY <1>4, <1>5, <1>7, <1>8 DEF PoolInv

\* One object more is looked at.
LEMMA WalkStep ==
  ASSUME PoolInv, walk
  PROVE  PoolInv'
<1>1. /\ phase = "walk" /\ phase' = "walk" /\ item # Null
      /\ item' = link_next[item]
      /\ memblock_array' = IF item \in mem_block_start
                           THEN Append(memblock_array, item) ELSE memblock_array
      /\ UNCHANGED <<listVars, blockVars, out, got>>
  BY DEF walk
<1>2. /\ TypeOK /\ chain \in Seq(Objects) /\ memblock_array \in Seq(Objects)
      /\ Distinct(memblock_array) /\ Members(memblock_array) \subseteq blocks
      /\ \A k \in 1 .. Len(chain) :
           link_next[chain[k]] = IF k = Len(chain) THEN Null ELSE chain[k + 1]
      /\ \A j, k \in 1 .. Len(chain) : chain[j] = chain[k] => j = k
      /\ mem_block_start = StartsBelow(blocks_alloc_num) /\ blocks = mem_block_start
      /\ blocks_alloc_num \in Nat /\ out = {}
      /\ link_next \in [Objects -> Objects \cup {Null}]
  BY <1>1 DEF PoolInv, TypeOK, WalkSound, ListSound, CountsMatch, InUse, BlocksSound
<1>3. PICK k \in 1 .. Len(chain) + 1 :
        /\ item = IF k = Len(chain) + 1 THEN Null ELSE chain[k]
        /\ Members(memblock_array) = {chain[j] : j \in 1 .. k - 1} \cap mem_block_start
  BY <1>1 DEF PoolInv, WalkSound
<1>4. k \in 1 .. Len(chain) /\ item = chain[k] /\ item \in Objects
  BY <1>1, <1>2, <1>3
<1>5. item \notin Members(memblock_array)
  <2>1. \A j \in 1 .. k - 1 : j \in 1 .. Len(chain) /\ chain[j] # chain[k]
    BY <1>2, <1>4
  <2>2. QED BY <1>3, <1>4, <2>1
<1>6. /\ memblock_array' \in Seq(Objects)
      /\ Members(memblock_array') = Members(memblock_array) \cup ({item} \cap mem_block_start)
      /\ Distinct(memblock_array')
  <2>1. CASE item \in mem_block_start
    <3>1. /\ memblock_array' = Append(memblock_array, item)
          /\ memblock_array' \in Seq(Objects)
          /\ Len(memblock_array') = Len(memblock_array) + 1
          /\ memblock_array'[Len(memblock_array) + 1] = item
          /\ \A j \in 1 .. Len(memblock_array) : memblock_array'[j] = memblock_array[j]
          /\ Len(memblock_array) \in Nat
      BY <1>1, <1>2, <1>4, <2>1
    <3>2. \A j \in 1 .. Len(memblock_array') :
            j \in 1 .. Len(memblock_array) \/ j = Len(memblock_array) + 1
      BY <3>1
    <3>3. Members(memblock_array') = Members(memblock_array) \cup {item}
      <4>1. \A x \in Members(memblock_array') : x \in Members(memblock_array) \cup {item}
        BY <3>1, <3>2 DEF Members
      <4>2. \A x \in Members(memblock_array) : x \in Members(memblock_array')
        BY <3>1 DEF Members
      <4>3. Len(memblock_array) + 1 \in 1 .. Len(memblock_array')
        BY <3>1
      <4>4. item \in Members(memblock_array')
        BY <3>1, <4>3 DEF Members
      <4>5. QED BY <4>1, <4>2, <4>4
    <3>4. Distinct(memblock_array')
      <4> SUFFICES ASSUME NEW i \in 1 .. Len(memblock_array'),
                          NEW j \in 1 .. Len(memblock_array'),
                          memblock_array'[i] = memblock_array'[j]
                   PROVE  i = j
        BY DEF Distinct
      <4>1. \A h \in 1 .. Len(memblock_array) : memblock_array[h] # item
        BY <1>5 DEF Members
      <4>2. CASE i \in 1 .. Len(memblock_array) /\ j \in 1 .. Len(memblock_array)
        BY <1>2, <3>1, <4>2 DEF Distinct
      <4>3. CASE i = Len(memblock_array) + 1 /\ j \in 1 .. Len(memblock_array)
        BY <3>1, <4>1, <4>3
      <4>4. CASE i \in 1 .. Len(memblock_array) /\ j = Len(memblock_array) + 1
        BY <3>1, <4>1, <4>4
      <4>5. QED BY <3>2, <4>2, <4>3, <4>4
    <3>5. QED BY <2>1, <3>1, <3>3, <3>4
  <2>2. CASE item \notin mem_block_start
    BY <1>1, <1>2, <2>2
  <2>3. QED BY <2>1, <2>2
<1>7. Members(memblock_array') \subseteq blocks
  BY <1>2, <1>6
<1>8. Len(memblock_array') <= blocks_alloc_num
  <2>1. IsFiniteSet(blocks) /\ Cardinality(blocks) = blocks_alloc_num
    BY <1>2, StartsCounted
  <2>2. memblock_array' \in Seq(blocks)
    <3>1. \A j \in 1 .. Len(memblock_array') : memblock_array'[j] \in blocks
      BY <1>7 DEF Members
    <3>2. QED BY <1>6, <3>1
  <2>3. PICK S : S = blocks
    OBVIOUS
  <2>4. PICK s \in Seq(S) : s = memblock_array'
    BY <2>2, <2>3
  <2>5. Distinct(s) /\ Members(s) \subseteq S /\ IsFiniteSet(S)
    BY <1>6, <1>7, <2>1, <2>3, <2>4
  <2>6. Len(s) <= Cardinality(S)
    BY <2>5, DistinctFits
  <2>7. QED BY <2>1, <2>3, <2>4, <2>6
<1>9. /\ k + 1 \in 1 .. Len(chain) + 1
      /\ item' = IF k + 1 = Len(chain) + 1 THEN Null ELSE chain[k + 1]
      /\ Members(memblock_array') =
           {chain[j] : j \in 1 .. (k + 1) - 1} \cap mem_block_start
  <2>1. k + 1 \in 1 .. Len(chain) + 1 /\ (k + 1 = Len(chain) + 1 <=> k = Len(chain))
    BY <1>2, <1>4
  <2>2. {chain[j] : j \in 1 .. (k + 1) - 1} = {chain[j] : j \in 1 .. k - 1} \cup {chain[k]}
    <3>1. \A j : j \in 1 .. (k + 1) - 1 <=> j \in 1 .. k - 1 \/ j = k
      BY <1>4
    <3>2. QED BY <3>1
  <2>3. QED BY <1>1, <1>2, <1>3, <1>4, <1>6, <2>1, <2>2
<1>10. TypeOK'
  <2>1. item' \in Objects \cup {Null} BY <1>1, <1>2, <1>4
  <2>2. QED BY <1>1, <1>2, <1>6, <2>1 DEF TypeOK, listVars, blockVars
<1>11. ListSound' /\ CountsMatch' /\ out' \subseteq Allocated' /\ BlocksSound' /\ Unused'
  BY <1>1 DEF PoolInv, ListSound, CountsMatch, BlocksSound, Unused, InUse,
     Allocated, listVars, blockVars
<1>12. BlocksFreedOnce'
  BY <1>1, <1>6, <1>7, <1>8 DEF BlocksFreedOnce, Members, Distinct, blockVars
<1>13. WalkSound'
  <2>1. \E i \in 1 .. Len(chain) + 1 :
          /\ item' = IF i = Len(chain) + 1 THEN Null ELSE chain[i]
          /\ Members(memblock_array') =
               {chain[j] : j \in 1 .. i - 1} \cap mem_block_start
    BY <1>9
  <2>2. chain' = chain /\ mem_block_start' = mem_block_start /\ blocks' = blocks
        /\ out' = {}
    BY <1>1, <1>2 DEF listVars, blockVars
  <2>3. QED BY <1>1, <1>6, <1>7, <2>1, <2>2 DEF WalkSound
<1>14. QED BY <1>10, <1>11, <1>12, <1>13 DEF PoolInv

\* The walk has reached the end of the list: every block has been found.
LEMMA WalkEndsStep ==
  ASSUME PoolInv, walk_ends
  PROVE  PoolInv'
<1>1. /\ phase = "walk" /\ phase' = "free" /\ item = Null
      /\ UNCHANGED <<listVars, blockVars, freeVars, out, got>>
  BY DEF walk_ends
<1>2. /\ TypeOK /\ chain \in Seq(Objects) /\ out = {}
      /\ Distinct(memblock_array) /\ Members(memblock_array) \subseteq blocks
      /\ Members(chain) = Allocated \ out
      /\ mem_block_start = StartsBelow(blocks_alloc_num) /\ blocks = mem_block_start
      /\ blocks_alloc_num \in Nat
      /\ obj_alloc_num = blocks_alloc_num * IncreaseStep
  BY <1>1 DEF PoolInv, TypeOK, WalkSound, ListSound, CountsMatch, InUse,
     BlocksSound, Members
<1>3. PICK k \in 1 .. Len(chain) + 1 :
        /\ item = IF k = Len(chain) + 1 THEN Null ELSE chain[k]
        /\ Members(memblock_array) = {chain[j] : j \in 1 .. k - 1} \cap mem_block_start
  BY <1>1 DEF PoolInv, WalkSound
<1>4. k = Len(chain) + 1
  <2>1. \A j \in 1 .. Len(chain) : chain[j] # Null
    <3>1. \A j \in 1 .. Len(chain) : chain[j] \in Objects BY <1>2
    <3>2. QED BY <3>1 DEF Objects, Null
  <2>2. QED BY <1>1, <1>2, <1>3, <2>1
<1>5. Members(memblock_array) = Members(chain) \cap mem_block_start
  <2>1. k - 1 = Len(chain) BY <1>2, <1>4
  <2>2. QED BY <1>3, <2>1 DEF Members
<1>6. blocks \subseteq Allocated
  <2>1. \A b \in 0 .. blocks_alloc_num - 1 :
          Start(b) \in 1 .. blocks_alloc_num * IncreaseStep
    BY <1>2, StartInBlocks
  <2>2. QED BY <1>2, <2>1 DEF StartsBelow, Allocated
<1>7. Members(memblock_array) = blocks
  BY <1>2, <1>5, <1>6
<1>8. TypeOK' BY <1>1, <1>2 DEF TypeOK, listVars, blockVars, freeVars
<1>9. ListSound' /\ CountsMatch' /\ out' \subseteq Allocated' /\ BlocksSound' /\ Unused'
  BY <1>1 DEF PoolInv, ListSound, CountsMatch, BlocksSound, Unused, InUse,
     Allocated, listVars, blockVars, freeVars
<1>10. BlocksFreedOnce'
  BY <1>1, <1>7 DEF PoolInv, BlocksFreedOnce, Members, blockVars, freeVars
<1>11. WalkSound'
  BY <1>1, <1>2 DEF WalkSound, blockVars, freeVars, Members, Distinct
<1>12. QED BY <1>8, <1>9, <1>10, <1>11 DEF PoolInv

\* A block is freed.
LEMMA FreeBlockStep ==
  ASSUME PoolInv, free_block
  PROVE  PoolInv'
<1> DEFINE m == Len(memblock_array)
<1>1. /\ phase = "free" /\ phase' = "free" /\ memblock_array # <<>>
      /\ blocks' = blocks \ {memblock_array[m]}
      /\ memblock_array' = SubSeq(memblock_array, 1, m - 1)
      /\ UNCHANGED <<listVars, blocks_alloc_num, obj_alloc_num, mem_block_start,
                     item, out, got>>
  BY DEF free_block
<1>2. /\ TypeOK /\ memblock_array \in Seq(Objects) /\ m \in Nat \ {0}
      /\ Distinct(memblock_array) /\ Members(memblock_array) = blocks
      /\ m <= blocks_alloc_num /\ blocks_alloc_num \in Nat
  BY <1>1 DEF PoolInv, TypeOK, WalkSound, BlocksFreedOnce, Members
<1>3. /\ memblock_array' \in Seq(Objects) /\ Len(memblock_array') = m - 1
      /\ \A j \in 1 .. m - 1 : memblock_array'[j] = memblock_array[j]
  BY <1>1, <1>2, AllButLast
<1> HIDE DEF m
<1>4. Distinct(memblock_array')
  <2>1. \A j \in 1 .. m - 1 : j \in 1 .. m BY <1>2
  <2>2. QED BY <1>2, <1>3, <2>1 DEF Distinct, m
<1>5. Members(memblock_array') = blocks'
  <2>1. \A j \in 1 .. m - 1 : j \in 1 .. m /\ memblock_array[j] # memblock_array[m]
    BY <1>2 DEF Distinct, m
  <2>2. \A x \in blocks' : \E j \in 1 .. m - 1 : memblock_array[j] = x
    <3> TAKE x \in blocks'
    <3>1. PICK j \in 1 .. m : memblock_array[j] = x /\ x # memblock_array[m]
      BY <1>1, <1>2 DEF Members, m
    <3>2. j \in 1 .. m - 1 BY <1>2, <3>1
    <3>3. QED BY <3>1, <3>2
  <2>3. \A j \in 1 .. m - 1 : memblock_array[j] \in blocks'
    BY <1>1, <1>2, <2>1 DEF Members, m
  <2>4. QED BY <1>3, <2>2, <2>3 DEF Members
<1>6. TypeOK' BY <1>1, <1>2, <1>3 DEF TypeOK, listVars
<1>7. ListSound' /\ CountsMatch' /\ out' \subseteq Allocated' /\ BlocksSound' /\ Unused'
  BY <1>1 DEF PoolInv, ListSound, CountsMatch, BlocksSound, Unused, InUse,
     Allocated, listVars
<1>8. BlocksFreedOnce'
  <2>1. Len(memblock_array') <= blocks_alloc_num'
    BY <1>1, <1>2, <1>3
  <2>2. QED BY <1>1, <1>4, <1>5, <2>1 DEF BlocksFreedOnce, Members, Distinct
<1>9. WalkSound'
  BY <1>1, <1>4, <1>5 DEF PoolInv, WalkSound
<1>10. QED BY <1>6, <1>7, <1>8, <1>9 DEF PoolInv

\* No block is left.
LEMMA FreeEndsStep ==
  ASSUME PoolInv, free_ends
  PROVE  PoolInv'
<1>1. /\ phase = "free" /\ phase' = "released" /\ memblock_array = <<>>
      /\ free_list_head' = Null /\ free_list_size' = 0
      /\ blocks_alloc_num' = 0 /\ obj_alloc_num' = 0 /\ chain' = <<>>
      /\ UNCHANGED <<link_next, mem_block_start, blocks, freeVars, out, got>>
  BY DEF free_ends
<1>2. out = {} BY <1>1 DEF PoolInv, WalkSound
<1>3. blocks = {}
  BY <1>1 DEF PoolInv, BlocksFreedOnce
<1>4. TypeOK'
  <2>1. MaxBlocks * IncreaseStep \in Nat /\ MaxBlocks \in Nat BY PoolAssumption
  <2>2. 0 \in 0 .. MaxBlocks * IncreaseStep /\ 0 \in 0 .. MaxBlocks BY <2>1
  <2>3. QED BY <1>1, <2>2 DEF PoolInv, TypeOK, freeVars
<1>5. /\ ListSound' /\ CountsMatch' /\ BlocksFreedOnce' /\ out' \subseteq Allocated'
      /\ BlocksSound' /\ Unused' /\ WalkSound'
  BY <1>1, <1>2, <1>3 DEF ListSound, CountsMatch, BlocksFreedOnce, BlocksSound,
     Unused, WalkSound, InUse
<1>6. QED BY <1>4, <1>5 DEF PoolInv
-----------------------------------------------------------------------------
(***************************************************************************)
(* Theorems.                                                               *)
(***************************************************************************)

\* PoolInv is inductive.
LEMMA PoolStep ==
  ASSUME PoolInv, [Next]_vars
  PROVE  PoolInv'
<1>1. CASE UNCHANGED vars
  <2>1. UNCHANGED <<free_list_head, link_next, free_list_size, chain,
                    blocks_alloc_num, obj_alloc_num, mem_block_start, blocks,
                    item, memblock_array, out, got, phase>>
    BY <1>1 DEF vars, listVars, blockVars, freeVars
  <2>2. TypeOK' BY <2>1 DEF PoolInv, TypeOK
  <2>3. ListSound' /\ CountsMatch' /\ out' \subseteq Allocated' /\ Unused'
    BY <2>1 DEF PoolInv, ListSound, CountsMatch, Unused, InUse, Allocated
  <2>4. BlocksFreedOnce' /\ BlocksSound'
    BY <2>1 DEF PoolInv, BlocksFreedOnce, BlocksSound
  <2>5. WalkSound'
    BY <2>1 DEF PoolInv, WalkSound, Distinct, Members
  <2>6. QED BY <2>2, <2>3, <2>4, <2>5 DEF PoolInv
<1>2. CASE \E num_obj \in PreallocNum, done \in 1 .. MaxBlocks : mpool_init(num_obj, done)
  BY <1>2, InitStep
<1>3. CASE mpool_init_fails \/ mpool_take_obj_fails \/ mpool_free_refused
  BY <1>3, RefusedStep
<1>4. CASE mpool_take_obj BY <1>4, TakeStep
<1>5. CASE mpool_take_obj_grown BY <1>5, GrowStep
<1>6. CASE \E o \in Objects : mpool_return_obj(o) BY <1>6, ReturnStep
<1>7. CASE mpool_free BY <1>7, FreeStep
<1>8. CASE walk BY <1>8, WalkStep
<1>9. CASE walk_ends BY <1>9, WalkEndsStep
<1>10. CASE free_block BY <1>10, FreeBlockStep
<1>11. CASE free_ends BY <1>11, FreeEndsStep
<1>12. QED
  BY <1>1, <1>2, <1>3, <1>4, <1>5, <1>6, <1>7, <1>8, <1>9, <1>10, <1>11 DEF Next

\* Every state the pool reaches satisfies the invariant.
THEOREM PoolInvariant == Spec => []PoolInv
<1>1. Init => PoolInv BY InitPool
<1>2. PoolInv /\ [Next]_vars => PoolInv' BY PoolStep
<1>3. QED BY <1>1, <1>2, PTL DEF Spec

\* The types of the pool's variables.
THEOREM PoolTypes == Spec => []TypeOK
<1>1. PoolInv => TypeOK BY DEF PoolInv
<1>2. QED BY <1>1, PoolInvariant, PTL

\* The free list is the free objects, each once, and no user's.
THEOREM FreeListThreaded == Spec => []ListSound
<1>1. PoolInv => ListSound BY DEF PoolInv
<1>2. QED BY <1>1, PoolInvariant, PTL

\* The counters mpool_free decides by are right.
THEOREM PoolCounted == Spec => []CountsMatch
<1>1. PoolInv => CountsMatch BY DEF PoolInv
<1>2. QED BY <1>1, PoolInvariant, PTL

\* mpool_free stays in its array and frees every block once.
THEOREM BlocksReleased == Spec => []BlocksFreedOnce
<1>1. PoolInv => BlocksFreedOnce BY DEF PoolInv
<1>2. QED BY <1>1, PoolInvariant, PTL

\* A step of the pool is a step, or none, of what its users rely on.
LEMMA PoolRefines ==
  ASSUME PoolInv, PoolInv', [Next]_vars
  PROVE  [Pool!Next]_(Pool!vars)
<1>1. CASE UNCHANGED vars
  BY <1>1 DEF Pool!vars, vars, blockVars, Allocated
<1>2. CASE UNCHANGED <<obj_alloc_num, out, got>>
  BY <1>2 DEF Pool!vars, Allocated
<1>3. obj_alloc_num \in Nat /\ obj_alloc_num' \in Nat /\ MaxBlocks * IncreaseStep \in Nat
  BY PoolAssumption DEF PoolInv, TypeOK
<1>4. Allocated' \subseteq Objects
  BY <1>3 DEF PoolInv, TypeOK, Allocated, Objects
<1>5. ASSUME NEW num_obj \in PreallocNum, NEW done \in 1 .. MaxBlocks,
             mpool_init(num_obj, done)
      PROVE  Pool!Grow
  <2>1. obj_alloc_num = 0 /\ out' = out /\ got' = got
    BY <1>5 DEF mpool_init, PoolInv, Unused
  <2>2. Allocated = {} BY <2>1 DEF Allocated
  <2>3. QED BY <1>4, <2>1, <2>2 DEF Pool!Grow
<1>6. ASSUME mpool_take_obj
      PROVE  Pool!Take(free_list_head) /\ free_list_head \in Objects
  <2>1. /\ phase = "ready" /\ free_list_head # Null
        /\ out' = out \cup {free_list_head} /\ got' = free_list_head
        /\ obj_alloc_num' = obj_alloc_num
    BY <1>6 DEF mpool_take_obj, blockVars
  <2>2. free_list_head \in Allocated \ out
    <3>1. /\ chain \in Seq(Objects) /\ chain # <<>> /\ free_list_head = chain[1]
          /\ {chain[k] : k \in 1 .. Len(chain)} = Allocated \ out
      BY <2>1 DEF PoolInv, TypeOK, ListSound, InUse
    <3>2. 1 \in 1 .. Len(chain) BY <3>1
    <3>3. QED BY <3>1, <3>2
  <2>3. Allocated' = Allocated BY <2>1 DEF Allocated
  <2>4. QED BY <1>4, <2>1, <2>2, <2>3 DEF Pool!Take
<1>7. ASSUME mpool_take_obj_grown
      PROVE  Pool!Take(obj_alloc_num') /\ obj_alloc_num' \in Objects
  <2>1. /\ out' = out \cup {obj_alloc_num'} /\ got' = obj_alloc_num'
        /\ obj_alloc_num' = obj_alloc_num + 1 * IncreaseStep
        /\ out \subseteq Allocated
    BY <1>7 DEF mpool_take_obj_grown, mpool_allocate, PoolInv
  <2>2. obj_alloc_num' > obj_alloc_num
    BY <1>3, <2>1, PoolAssumption
  <2>3. Allocated \subseteq Allocated' /\ obj_alloc_num' \in Allocated' \ out
    BY <1>3, <2>1, <2>2 DEF Allocated
  <2>4. QED BY <1>4, <2>1, <2>3 DEF Pool!Take
<1>8. ASSUME mpool_take_obj_fails PROVE Pool!Refuse
  <2>1. /\ phase = "ready" /\ free_list_head = Null /\ got' = Null
        /\ out' = out /\ obj_alloc_num' = obj_alloc_num
    BY <1>8 DEF mpool_take_obj_fails, blockVars
  <2>2. /\ chain \in Seq(Objects)
        /\ free_list_head = IF chain = <<>> THEN Null ELSE chain[1]
        /\ {chain[k] : k \in 1 .. Len(chain)} = Allocated \ out
        /\ out \subseteq Allocated
    BY <2>1 DEF PoolInv, TypeOK, ListSound, InUse
  <2>3. chain = <<>>
    <3>1. chain # <<>> => chain[1] \in Objects BY <2>2
    <3>2. QED BY <2>1, <2>2, <3>1 DEF Objects, Null
  <2>4. {chain[k] : k \in 1 .. Len(chain)} = {}
    <3>1. Len(chain) = 0 BY <2>3
    <3>2. QED BY <3>1
  <2>5. Allocated = out BY <2>2, <2>4
  <2>6. Allocated' = Allocated BY <2>1 DEF Allocated
  <2>7. QED BY <2>1, <2>5, <2>6 DEF Pool!Refuse, Null
<1>9. ASSUME NEW o \in Objects, mpool_return_obj(o)
      PROVE  Pool!Return(o)
  BY <1>9 DEF mpool_return_obj, blockVars, Allocated, Pool!Return
<1>10. ASSUME free_ends PROVE Pool!Release
  <2>1. out = {} /\ out' = out /\ got' = got /\ obj_alloc_num' = 0
    BY <1>10 DEF free_ends, PoolInv, WalkSound
  <2>2. Allocated' = {} BY <2>1 DEF Allocated
  <2>3. QED BY <2>1, <2>2 DEF Pool!Release
<1>11. CASE mpool_init_fails \/ mpool_free \/ mpool_free_refused \/ walk
            \/ walk_ends \/ free_block
  BY <1>2, <1>11 DEF mpool_init_fails, mpool_free, mpool_free_refused, walk,
     walk_ends, free_block, blockVars
<1>12. QED
  BY <1>1, <1>5, <1>6, <1>7, <1>8, <1>9, <1>10, <1>11 DEF Next, Pool!Next

\* The pool of mpool.c does what its users rely on: no object is given to two
\* of them and a request is refused only if none is left.
THEOREM PoolServed == Spec => PoolSpec
<1>1. Init => Pool!Init
  BY DEF Init, Pool!Init, Allocated, Null
<1>2. PoolInv /\ PoolInv' /\ [Next]_vars => [Pool!Next]_(Pool!vars)
  BY PoolRefines
<1>3. QED BY <1>1, <1>2, PoolInvariant, PTL DEF Spec, PoolSpec, Pool!Spec
=============================================================================
