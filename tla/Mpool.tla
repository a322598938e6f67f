------------------------------- MODULE Mpool -------------------------------
(***************************************************************************)
(* The memory pool of mpool.c that the hnodes of a waiting queue come      *)
(* from: a free list threaded through the objects themselves, refilled by  *)
(* blocks of increase_step objects.                                        *)
(*                                                                         *)
(* One action per operation; the walk of mpool_free over the free list is  *)
(* one action per object, and so is its loop over the blocks found.  A     *)
(* calloc may always fail.  Objects are numbered in the order of their     *)
(* addresses in the order the blocks were allocated; 0 is the null         *)
(* pointer.  The pool is that of one waiting queue: it is set up once, by  *)
(* heap_init, and released once, by heap_reset.  mpool_mem_release, which  *)
(* nobody calls, and heap_prealloc, neither, are left out.                 *)
(***************************************************************************)
EXTENDS Integers, Sequences, FiniteSets

CONSTANTS
  IncreaseStep,  \* objects in a block
  MaxBlocks,     \* bound of the blocks a system gives
  PreallocNum    \* the numbers of objects asked for at initialization

ASSUME PoolAssumption ==
  /\ IncreaseStep \in Nat \ {0}
  /\ MaxBlocks \in Nat
  /\ PreallocNum \subseteq Nat

VARIABLES
  free_list_head,
  link_next,         \* the next pointer in each object
  free_list_size,
  blocks_alloc_num,
  obj_alloc_num,
  mem_block_start,   \* objects marked as the start of their block
  out,               \* objects taken and not returned
  got,               \* the latest return value of mpool_take_obj
  phase,             \* of the pool, and of mpool_free
  item,              \* the object the walk of mpool_free has reached
  memblock_array,    \* block starts found by the walk, in order
  blocks,            \* starts of the blocks calloc gave and free did not get
  chain              \* auxiliary: the free objects, head of the list first

listVars == <<free_list_head, link_next, free_list_size, chain>>
blockVars == <<blocks_alloc_num, obj_alloc_num, mem_block_start, blocks>>
freeVars == <<item, memblock_array>>
vars == <<listVars, blockVars, freeVars, out, got, phase>>

Null == 0
Objects == 1 .. MaxBlocks * IncreaseStep
Allocated == 1 .. obj_alloc_num
Start(b) == b * IncreaseStep + 1
Starts == {Start(b) : b \in 0 .. MaxBlocks - 1}

Init ==
  /\ free_list_head = Null
  /\ link_next = [o \in Objects |-> Null]
  /\ free_list_size = 0
  /\ blocks_alloc_num = 0 /\ obj_alloc_num = 0
  /\ mem_block_start = {}
  /\ out = {} /\ got = Null
  /\ phase = "none"
  /\ item = Null /\ memblock_array = <<>>
  /\ blocks = {}
  /\ chain = <<>>
-----------------------------------------------------------------------------
\* mpool_allocate: blocks to ask for, one at least.
num_alloc_step(num_obj) ==
  IF num_obj \div IncreaseStep = 0 THEN 1 ELSE num_obj \div IncreaseStep

\* Objects first .. first + n - 1 are new: each is put in front of the list,
\* and the first one, with the zeroed next pointer calloc gave it, is linked
\* only if the list was not empty.
NextAfterAdds(first, n) ==
  [o \in Objects |-> IF o = first THEN free_list_head
                     ELSE IF o \in first .. first + n - 1 THEN o - 1
                     ELSE link_next[o]]
ChainAfterAdds(first, n) ==
  [k \in 1 .. n |-> first + n - k] \o chain

\* Of each block the first object is marked.
NewStarts(done) ==
  {Start(b) : b \in blocks_alloc_num .. blocks_alloc_num + done - 1}

\* done blocks are allocated before calloc fails, or all of them.
mpool_allocate(done) ==
  /\ done > 0
  /\ blocks_alloc_num + done <= MaxBlocks
  /\ blocks_alloc_num' = blocks_alloc_num + done
  /\ obj_alloc_num' = obj_alloc_num + done * IncreaseStep
  /\ mem_block_start' = mem_block_start \cup NewStarts(done)
  /\ blocks' = blocks \cup NewStarts(done)

\* heap_init.
mpool_init(num_obj, done) ==
  /\ phase = "none"
  /\ num_obj > 0
  /\ done <= num_alloc_step(num_obj)
  /\ mpool_allocate(done)
  /\ free_list_head' = obj_alloc_num'
  /\ link_next' = NextAfterAdds(1, obj_alloc_num')
  /\ free_list_size' = obj_alloc_num'
  /\ chain' = ChainAfterAdds(1, obj_alloc_num')
  /\ phase' = "ready"
  /\ UNCHANGED <<freeVars, out, got>>

\* No block at all, or none asked for: heap_init fails, and so does the batch.
mpool_init_fails ==
  /\ phase = "none"
  /\ phase' = "failed"
  /\ UNCHANGED <<listVars, blockVars, freeVars, out, got>>
-----------------------------------------------------------------------------
remove_keeps_next ==                            \* mutant: next is not nulled
  /\ free_list_head' = link_next[free_list_head]
  /\ free_list_size' = free_list_size - 1
  /\ link_next' = link_next
  /\ chain' = SubSeq(chain, 2, Len(chain))

remove_twice_counted ==                         \* mutant: a counter too much
  /\ free_list_head' = link_next[free_list_head]
  /\ free_list_size' = free_list_size - 2
  /\ link_next' = [link_next EXCEPT ![free_list_head] = Null]
  /\ chain' = Tail(chain)

\* mpool_remove, of a list that is not empty.
mpool_remove ==
  /\ free_list_head' = link_next[free_list_head]
  /\ free_list_size' = free_list_size - 1
  /\ link_next' = [link_next EXCEPT ![free_list_head] = Null]
  /\ chain' = Tail(chain)

\* mpool_take_obj with a free object.
mpool_take_obj ==
  /\ phase = "ready"
  /\ free_list_head # Null
  /\ mpool_remove
  /\ out' = out \cup {free_list_head}
  /\ got' = free_list_head
  /\ UNCHANGED <<blockVars, freeVars, phase>>

\* mpool_take_obj on an empty list: a block is added and its last object,
\* the first of the new list, taken.
take_obj_grown_uncounted ==                     \* mutant: the one taken counts
  /\ phase = "ready"
  /\ free_list_head = Null
  /\ mpool_allocate(1)
  /\ free_list_head' = IF IncreaseStep = 1 THEN Null ELSE obj_alloc_num' - 1
  /\ link_next' = [NextAfterAdds(obj_alloc_num + 1, IncreaseStep)
                     EXCEPT ![obj_alloc_num'] = Null]
  /\ free_list_size' = IncreaseStep
  /\ chain' = Tail(ChainAfterAdds(obj_alloc_num + 1, IncreaseStep))
  /\ out' = out \cup {obj_alloc_num'}
  /\ got' = obj_alloc_num'
  /\ UNCHANGED <<freeVars, phase>>

mpool_take_obj_grown ==
  /\ phase = "ready"
  /\ free_list_head = Null
  /\ mpool_allocate(1)
  /\ free_list_head' = IF IncreaseStep = 1 THEN Null ELSE obj_alloc_num' - 1
  /\ link_next' = [NextAfterAdds(obj_alloc_num + 1, IncreaseStep)
                     EXCEPT ![obj_alloc_num'] = Null]
  /\ free_list_size' = IncreaseStep - 1
  /\ chain' = Tail(ChainAfterAdds(obj_alloc_num + 1, IncreaseStep))
  /\ out' = out \cup {obj_alloc_num'}
  /\ got' = obj_alloc_num'
  /\ UNCHANGED <<freeVars, phase>>

\* ... and the system has no memory.
mpool_take_obj_fails ==
  /\ phase = "ready"
  /\ free_list_head = Null
  /\ got' = Null
  /\ UNCHANGED <<listVars, blockVars, freeVars, out, phase>>

return_relinks_always(o) ==                     \* mutant: > 1 for # 0
  /\ phase = "ready"
  /\ o \in out
  /\ link_next' = IF free_list_size > 1
                  THEN [link_next EXCEPT ![o] = free_list_head] ELSE link_next
  /\ free_list_head' = o
  /\ free_list_size' = free_list_size + 1
  /\ chain' = <<o>> \o chain
  /\ out' = out \ {o}
  /\ UNCHANGED <<blockVars, freeVars, got, phase>>

\* mpool_return_obj (mpool_add): the next pointer is written only if the list
\* is not empty.
mpool_return_obj(o) ==
  /\ phase = "ready"
  /\ o \in out
  /\ link_next' = IF free_list_head # Null
                  THEN [link_next EXCEPT ![o] = free_list_head] ELSE link_next
  /\ free_list_head' = o
  /\ free_list_size' = free_list_size + 1
  /\ chain' = <<o>> \o chain
  /\ out' = out \ {o}
  /\ UNCHANGED <<blockVars, freeVars, got, phase>>
-----------------------------------------------------------------------------
free_anyway ==                                  \* mutant: no test of the counts
  /\ phase = "ready"
  /\ phase' = "walk"
  /\ item' = free_list_head
  /\ UNCHANGED <<listVars, blockVars, memblock_array, out, got>>

\* mpool_free, called by heap_reset, starts its walk over the free list.
mpool_free ==
  /\ phase = "ready"
  /\ obj_alloc_num = free_list_size
  /\ blocks_alloc_num # 0
  /\ phase' = "walk"
  /\ item' = free_list_head
  /\ UNCHANGED <<listVars, blockVars, memblock_array, out, got>>

\* Objects are missing, or calloc of the array of blocks fails: the pool is
\* dropped and the blocks stay.
mpool_free_refused ==
  /\ phase = "ready"
  /\ phase' = "dropped"
  /\ UNCHANGED <<listVars, blockVars, freeVars, out, got>>

\* An iteration of the walk.
walk ==
  /\ phase = "walk"
  /\ item # Null
  /\ memblock_array' = IF item \in mem_block_start
                       THEN Append(memblock_array, item) ELSE memblock_array
  /\ item' = link_next[item]
  /\ UNCHANGED <<listVars, blockVars, out, got, phase>>

walk_ends ==
  /\ phase = "walk"
  /\ item = Null
  /\ phase' = "free"
  /\ UNCHANGED <<listVars, blockVars, freeVars, out, got>>

\* An iteration of the loop that frees the blocks, the last one found first.
free_block ==
  /\ phase = "free"
  /\ memblock_array # <<>>
  /\ blocks' = blocks \ {memblock_array[Len(memblock_array)]}
  /\ memblock_array' = SubSeq(memblock_array, 1, Len(memblock_array) - 1)
  /\ UNCHANGED <<listVars, blocks_alloc_num, obj_alloc_num, mem_block_start,
                 item, out, got, phase>>

\* ... and it ends: the pool is zeroed, and then freed by heap_reset.
free_ends ==
  /\ phase = "free"
  /\ memblock_array = <<>>
  /\ phase' = "released"
  /\ free_list_head' = Null /\ free_list_size' = 0
  /\ blocks_alloc_num' = 0 /\ obj_alloc_num' = 0
  /\ chain' = <<>>
  /\ UNCHANGED <<link_next, mem_block_start, blocks, freeVars, out, got>>

Next ==
  \/ \E num_obj \in PreallocNum, done \in 1 .. MaxBlocks : mpool_init(num_obj, done)
  \/ mpool_init_fails
  \/ mpool_take_obj
  \/ mpool_take_obj_grown
  \/ mpool_take_obj_fails
  \/ \E o \in Objects : mpool_return_obj(o)
  \/ mpool_free
  \/ mpool_free_refused
  \/ walk
  \/ walk_ends
  \/ free_block
  \/ free_ends

Spec == Init /\ [][Next]_vars
-----------------------------------------------------------------------------
(***************************************************************************)
(* Properties.                                                             *)
(***************************************************************************)

TypeOK ==
  /\ free_list_head \in Objects \cup {Null}
  /\ link_next \in [Objects -> Objects \cup {Null}]
  /\ free_list_size \in Nat
  /\ blocks_alloc_num \in 0 .. MaxBlocks
  /\ obj_alloc_num \in 0 .. MaxBlocks * IncreaseStep
  /\ mem_block_start \subseteq Starts
  /\ out \subseteq Objects
  /\ got \in Objects \cup {Null}
  /\ phase \in {"none", "failed", "ready", "walk", "free", "released", "dropped"}
  /\ item \in Objects \cup {Null}
  /\ memblock_array \in Seq(Objects)
  /\ blocks \subseteq Starts
  /\ chain \in Seq(Objects)

InUse == phase \in {"ready", "walk", "free", "dropped"}

\* The list that mpool_add and mpool_remove thread through the objects leads
\* from the head through every free object once and then to null, although
\* mpool_add leaves the next pointer alone when the list is empty; an object
\* in the hands of a user never keeps a pointer into the list.
ListSound ==
  InUse =>
    /\ free_list_head = IF chain = <<>> THEN Null ELSE chain[1]
    /\ \A k \in 1 .. Len(chain) :
         link_next[chain[k]] = IF k = Len(chain) THEN Null ELSE chain[k + 1]
    /\ \A o \in out : link_next[o] = Null
    /\ {chain[k] : k \in 1 .. Len(chain)} = Allocated \ out

\* The counters that mpool_free decides by are those of the list and of the
\* blocks: no object is on the list twice, however it was taken and returned.
CountsMatch ==
  InUse =>
    /\ \A j, k \in 1 .. Len(chain) : chain[j] = chain[k] => j = k
    /\ free_list_size = Len(chain)
    /\ obj_alloc_num = blocks_alloc_num * IncreaseStep

\* mpool_free has room in its array for every block it finds, and frees each
\* block the system gave exactly once: at the end none is left.
BlocksFreedOnce ==
  /\ phase \in {"walk", "free"} =>
       /\ Len(memblock_array) <= blocks_alloc_num
       /\ \A j, k \in 1 .. Len(memblock_array) :
            memblock_array[j] = memblock_array[k] => j = k
       /\ {memblock_array[k] : k \in 1 .. Len(memblock_array)} \subseteq blocks
  /\ phase = "free" =>
       {memblock_array[k] : k \in 1 .. Len(memblock_array)} = blocks
  /\ phase = "released" => blocks = {}

\* What the users of the pool rely on, whatever the list is made of: no object
\* is given to two of them, and a request is refused only if none is left.
Pool == INSTANCE ObjectPool WITH owned <- Allocated
PoolSpec == Pool!Spec
=============================================================================
