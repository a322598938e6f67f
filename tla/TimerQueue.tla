----------------------------- MODULE TimerQueue -----------------------------
(***************************************************************************)
(* The waiting queue of a batch: heap.c (a binary heap of hnodes with an   *)
(* id -> slot table) driven by timer_queue.c (schedule, cancel, dispatch). *)
(*                                                                         *)
(* One action per operation of the queue.  The two loops of heap.c,        *)
(* filter_up and filter_down, are one action per iteration; nothing else   *)
(* runs until the loop has ended (sift.dir # "none" disables every other   *)
(* action).  The C loops carry the moving node in a local and write it to  *)
(* its slot when the loop ends; here it is written on every iteration,     *)
(* which no caller can tell apart.  The handler of a dispatched timer runs *)
(* between DispatchBegin and an end action, and may schedule and cancel.   *)
(*                                                                         *)
(* Slots at or beyond curr_heap_size are never read, and are not kept.     *)
(* ids_min_free_restore is written and never read, and is left out.        *)
(***************************************************************************)
EXTENDS Integers, FiniteSets

CONSTANTS
  Timers,         \* timer nodes: one per client, one per periodic job
  NoTimer,        \* no timer node
  Period,         \* Period[t]: 0 for a one-shot timer
  TQ_RESOLUTION,  \* the smallest period accepted
  InitSize,       \* the size given to tq_init
  IncreaseStep,   \* the increase step; 0 means "don't increase"
  MaxTime,        \* bound of the clock and of the requested times
  MaxLost         \* bound of the hnodes lost by refused schedules

ASSUME TimersAssumption ==
  /\ IsFiniteSet(Timers)
  /\ NoTimer \notin Timers
  /\ TQ_RESOLUTION \in Nat \ {0}
  /\ Period \in [Timers -> Nat]
  /\ \A t \in Timers : Period[t] = 0 \/ Period[t] >= TQ_RESOLUTION
ASSUME SizesAssumption ==
  /\ InitSize \in Nat \ {0}
  /\ IncreaseStep \in Nat
  /\ MaxTime \in Nat
  /\ MaxLost \in Nat

VARIABLES
  heap,            \* heap[slot]: the hnode there, for slot < curr_heap_size
  curr_heap_size,
  max_heap_size,
  ids_arr,         \* ids_arr[id]: slot of the node with that id, -1 if free
  ids_last,        \* the last id provided
  ids_min_free,    \* the lowest freed id, max_heap_size if there is none
  hnodes_out,      \* hnodes taken from the mpool and not returned
  next_timer,      \* the expiration time in each timer node
  now,             \* get_tick_count ()
  sift,            \* progress of filter_up or filter_down
  calling          \* the hnode popped by the dispatch in progress

heapVars == <<heap, curr_heap_size, max_heap_size, ids_arr, ids_last,
              ids_min_free, sift>>
vars == <<heapVars, hnodes_out, next_timer, now, calling>>

Free == -1
Hnode == [node_id : Nat, ctx : Timers]
NoNode == [node_id |-> Free, ctx |-> NoTimer]
NoSift == [dir |-> "none", pos |-> 0]

HEAP_PARENT(slot) == IF slot = 0 THEN 0 ELSE (slot - 1) \div 2
HEAP_LCHILD(slot) == 2 * slot + 1

Slots == 0 .. curr_heap_size - 1
Settled == sift.dir = "none"
Dispatching == calling # NoNode

\* timer_node_comparator: strictly earlier.
Before(left, right) == next_timer[left.ctx] < next_timer[right.ctx]

Queued(t) == \E s \in Slots : heap[s].ctx = t

\* A periodic timer keeps its id while its handler runs: the id is reserved
\* when its node is popped.
ReservesNone(nd) == FALSE                       \* mutant: heap_pop (h, 0)
ReservesId(nd) == Period[nd.ctx] > 0
KeepsId(nd) == nd # NoNode /\ Period[nd.ctx] > 0

\* mpool_return_obj, after node_reset.
mpool_return_forgotten == UNCHANGED hnodes_out  \* mutant: a leaked hnode
mpool_return_obj == hnodes_out' = hnodes_out - 1
-----------------------------------------------------------------------------
(***************************************************************************)
(* Node ids.                                                               *)
(***************************************************************************)

\* The end of the scan in heap_get_node_id: the first free id above
\* ids_last, or the size of the table (beyond it if the scan starts there).
ScanEnd(arr, size) ==
  LET free == {i \in ids_last + 1 .. size - 1 : arr[i] < 0}
  IN  IF free # {}
      THEN CHOOSE i \in free : \A j \in free : i <= j
      ELSE IF ids_last + 1 > size THEN ids_last + 1 ELSE size

WrapsToMinFree(arr, size) == ScanEnd(arr, size) = size /\ ids_min_free < size

heap_get_node_id(arr, size) ==
  IF WrapsToMinFree(arr, size) THEN ids_min_free ELSE ScanEnd(arr, size)

\* The id table after the node with this id is put into a slot.  A write
\* beyond the table is lost: it hits memory the queue does not read.
PutId(arr, id, slot) == [i \in DOMAIN arr |-> IF i = id THEN slot ELSE arr[i]]

release_not_last(arr, id) ==                    \* mutant: < for <=
  /\ ids_arr' = PutId(arr, id, Free)
  /\ ids_min_free' = IF id < ids_min_free /\ id < ids_last
                     THEN id ELSE ids_min_free

\* release_node_id, applied to the table arr.
release_node_id(arr, id) ==
  /\ ids_arr' = PutId(arr, id, Free)
  /\ ids_min_free' = IF id < ids_min_free /\ id <= ids_last
                     THEN id ELSE ids_min_free
-----------------------------------------------------------------------------
(***************************************************************************)
(* heap_push and heap_remove_node, up to the loop that ends them.          *)
(***************************************************************************)

\* heap_increase, when the heap is full.
SizeForPush == IF curr_heap_size >= max_heap_size
               THEN max_heap_size + IncreaseStep ELSE max_heap_size
IdsForPush == [i \in 0 .. SizeForPush - 1 |->
                 IF i < max_heap_size THEN ids_arr[i] ELSE Free]
PushFails == curr_heap_size >= max_heap_size /\ IncreaseStep = 0

PlaceAtEndUncounted(nd) ==                      \* mutant: no curr_heap_size++
  /\ max_heap_size' = SizeForPush
  /\ heap' = [s \in 0 .. curr_heap_size |->
                IF s = curr_heap_size THEN nd ELSE heap[s]]
  /\ ids_arr' = PutId(IdsForPush, nd.node_id, curr_heap_size)
  /\ curr_heap_size' = curr_heap_size
  /\ sift' = [dir |-> "up", pos |-> curr_heap_size]

\* Places the node at the end of the heap and starts filter_up.
PlaceAtEnd(nd) ==
  /\ max_heap_size' = SizeForPush
  /\ heap' = [s \in 0 .. curr_heap_size |->
                IF s = curr_heap_size THEN nd ELSE heap[s]]
  /\ ids_arr' = PutId(IdsForPush, nd.node_id, curr_heap_size)
  /\ curr_heap_size' = curr_heap_size + 1
  /\ sift' = [dir |-> "up", pos |-> curr_heap_size]

\* heap_push (h, nd, 0): a new id is taken from the table.
heap_push_new(t) ==
  LET id == heap_get_node_id(IdsForPush, SizeForPush)
  IN  /\ PlaceAtEnd([node_id |-> id, ctx |-> t])
      /\ ids_last' = id
      /\ ids_min_free' = IF WrapsToMinFree(IdsForPush, SizeForPush)
                         THEN SizeForPush ELSE ids_min_free

\* heap_push (h, nd, 1): a periodic timer comes back with the id it has.
heap_push_kept(nd) ==
  PlaceAtEnd(nd) /\ UNCHANGED <<ids_last, ids_min_free>>

AlwaysDown(moved, parent) == "down"             \* mutant: filter_down only
FilterDir(moved, parent) == IF Before(moved, parent) THEN "up" ELSE "down"

\* heap_remove_node: the end node moves to the vacated slot and is then
\* filtered up or down; the id is released unless it is reserved.
heap_remove_node(slot, reserve) ==
  LET last  == curr_heap_size - 1
      moved == heap[last]
      id    == heap[slot].node_id
      arr   == IF slot < last THEN PutId(ids_arr, moved.node_id, slot) ELSE ids_arr
      rest  == [s \in 0 .. last - 1 |-> IF s = slot THEN moved ELSE heap[s]]
  IN  /\ curr_heap_size' = last
      /\ heap' = rest
      /\ sift' = IF slot < last
                 THEN [dir |-> FilterDir(moved, rest[HEAP_PARENT(slot)]),
                       pos |-> slot]
                 ELSE NoSift
      /\ IF reserve THEN ids_arr' = arr /\ UNCHANGED ids_min_free
                    ELSE release_node_id(arr, id)
      /\ UNCHANGED <<max_heap_size, ids_last>>

\* Two nodes exchange their slots, the id table follows.
Exchange(a, b) ==
  /\ heap' = [heap EXCEPT ![a] = heap[b], ![b] = heap[a]]
  /\ ids_arr' = PutId(PutId(ids_arr, heap[b].node_id, a), heap[a].node_id, b)

loopVars == <<curr_heap_size, max_heap_size, ids_last, ids_min_free,
              hnodes_out, next_timer, now, calling>>

\* One iteration of filter_up: stop below a strictly earlier parent.
filter_up ==
  LET pos == sift.pos
      up  == HEAP_PARENT(pos)
  IN  /\ sift.dir = "up"
      /\ IF pos = 0 \/ Before(heap[up], heap[pos])
         THEN sift' = NoSift /\ UNCHANGED <<heap, ids_arr>>
         ELSE Exchange(pos, up) /\ sift' = [dir |-> "up", pos |-> up]
      /\ UNCHANGED loopVars

LeftChild(pos) == HEAP_LCHILD(pos)              \* mutant: right one not seen

\* The child filter_down compares with: the right one if strictly earlier.
EarlierChild(pos) ==
  LET left == HEAP_LCHILD(pos)
  IN  IF left + 1 \in Slots /\ Before(heap[left + 1], heap[left])
      THEN left + 1 ELSE left

\* One iteration of filter_down: stop above a strictly later child.
filter_down ==
  LET pos   == sift.pos
      child == EarlierChild(pos)
  IN  /\ sift.dir = "down"
      /\ IF HEAP_LCHILD(pos) \notin Slots \/ Before(heap[pos], heap[child])
         THEN sift' = NoSift /\ UNCHANGED <<heap, ids_arr>>
         ELSE Exchange(pos, child) /\ sift' = [dir |-> "down", pos |-> child]
      /\ UNCHANGED loopVars
-----------------------------------------------------------------------------
(***************************************************************************)
(* The operations of timer_queue.c.                                        *)
(***************************************************************************)

Init ==
  /\ heap = [s \in {} |-> NoNode]
  /\ curr_heap_size = 0
  /\ max_heap_size = InitSize
  /\ ids_arr = [i \in 0 .. InitSize - 1 |-> Free]
  /\ ids_last = 0
  /\ ids_min_free = 0
  /\ hnodes_out = 0
  /\ next_timer = [t \in Timers |-> 0]
  /\ now = 0
  /\ sift = NoSift
  /\ calling = NoNode

\* A caller never schedules a timer node that is in the queue, nor a
\* periodic one from its own handler.
MaySchedule(t) ==
  /\ Settled
  /\ ~Queued(t)
  /\ ~(KeepsId(calling) /\ calling.ctx = t)

tq_schedule_timer(t, when) ==
  /\ MaySchedule(t)
  /\ ~PushFails
  /\ next_timer' = [next_timer EXCEPT ![t] = when]
  /\ heap_push_new(t)
  /\ hnodes_out' = hnodes_out + 1
  /\ UNCHANGED <<now, calling>>

\* heap_push fails in a full heap that may not grow; the hnode taken from
\* the pool is not given back.
tq_schedule_timer_fails(t, when) ==
  /\ MaySchedule(t)
  /\ PushFails
  /\ hnodes_out < curr_heap_size + MaxLost
  /\ next_timer' = [next_timer EXCEPT ![t] = when]
  /\ hnodes_out' = hnodes_out + 1
  /\ UNCHANGED <<heapVars, now, calling>>

\* Cancelling by id; an id that is free changes nothing.  No handler of the
\* program cancels the timer it is called for.
tq_cancel_timer(id) ==
  /\ Settled
  /\ id \in DOMAIN ids_arr
  /\ ~(KeepsId(calling) /\ calling.node_id = id)
  /\ ids_arr[id] \in Slots
  /\ heap[ids_arr[id]].node_id = id
  /\ heap_remove_node(ids_arr[id], FALSE)
  /\ mpool_return_obj
  /\ UNCHANGED <<next_timer, now, calling>>

\* tq_dispatch_nearest_timer up to the call of func_timer; the caller,
\* dispatch_expired_timers, has seen that the nearest timer has expired.
DispatchBegin ==
  /\ Settled
  /\ ~Dispatching
  /\ curr_heap_size > 0
  /\ next_timer[heap[0].ctx] <= now
  /\ calling' = heap[0]
  /\ heap_remove_node(0, ReservesId(heap[0]))
  /\ UNCHANGED <<hnodes_out, next_timer, now>>

\* func_timer returned 0 and the timer is periodic: it is pushed again.
DispatchReschedule ==
  /\ Settled
  /\ KeepsId(calling)
  /\ ~PushFails
  /\ next_timer' = [next_timer EXCEPT ![calling.ctx] = now + Period[calling.ctx]]
  /\ heap_push_kept(calling)
  /\ calling' = NoNode
  /\ UNCHANGED <<hnodes_out, now>>

release_forgotten ==                            \* mutant: the kept id is lost
  UNCHANGED <<ids_arr, ids_min_free>>

\* release_kept_timer_id, for a periodic timer only.
release_kept_timer_id ==
  IF KeepsId(calling) THEN release_node_id(ids_arr, calling.node_id)
                      ELSE UNCHANGED <<ids_arr, ids_min_free>>

\* node_return: func_timer failed or asked to stop the timer, the timer is
\* one-shot, or it could not be pushed again.
DispatchEnd ==
  /\ Settled
  /\ Dispatching
  /\ release_kept_timer_id
  /\ mpool_return_obj
  /\ calling' = NoNode
  /\ UNCHANGED <<heap, curr_heap_size, max_heap_size, ids_last, sift,
                 next_timer, now>>

\* Time passes between the operations.
Tick ==
  /\ Settled
  /\ ~Dispatching
  /\ now < MaxTime
  /\ now' = now + 1
  /\ UNCHANGED <<heapVars, hnodes_out, next_timer, calling>>

Next ==
  \/ filter_up
  \/ filter_down
  \/ \E t \in Timers, when \in now .. MaxTime : tq_schedule_timer(t, when)
  \/ \E t \in Timers, when \in now .. MaxTime : tq_schedule_timer_fails(t, when)
  \/ \E id \in DOMAIN ids_arr : tq_cancel_timer(id)
  \/ DispatchBegin
  \/ DispatchReschedule
  \/ DispatchEnd
  \/ Tick

Spec == Init /\ [][Next]_vars
-----------------------------------------------------------------------------
(***************************************************************************)
(* Properties.                                                             *)
(***************************************************************************)

\* Every variable has its type: nodes carry natural ids and timer nodes, the
\* id table maps to slots or to Free, one loop or none is in progress.
TypeOK ==
  /\ curr_heap_size \in Nat
  /\ max_heap_size \in Nat \ {0}
  /\ heap \in [Slots -> Hnode]
  /\ ids_arr \in [0 .. max_heap_size - 1 -> Nat \cup {Free}]
  /\ ids_last \in Nat
  /\ ids_min_free \in Nat
  /\ hnodes_out \in Int
  /\ next_timer \in [Timers -> Nat]
  /\ now \in Nat
  /\ sift \in [dir : {"none", "up", "down"}, pos : Nat]
  /\ calling \in Hnode \cup {NoNode}

\* alloc_init_timer_waiting_queue is given the "maximum possible size of the
\* queue": every id handed out is an index of the id table, so heap_push
\* writes inside it and tq_cancel_timer accepts the id.
IdsInTable == \A s \in Slots : heap[s].node_id \in DOMAIN ids_arr

\* heap.h "the unique id of the node": the table leads from the id of a
\* queued node back to the node's slot, so no two nodes share an id and
\* tq_cancel_timer finds the node it is asked for; and the id kept by a
\* periodic timer during its handler is not given to anybody else.
IdsUnique ==
  /\ \A s \in Slots : heap[s].node_id \in DOMAIN ids_arr =>
                        ids_arr[heap[s].node_id] = s
  /\ KeepsId(calling) =>
       /\ calling.node_id \in DOMAIN ids_arr
       /\ \A s \in Slots : heap[s].node_id # calling.node_id

\* No id is lost: one that is not free is the id of a queued node or is kept
\* for the periodic timer whose handler runs.
NoIdLost ==
  \A id \in DOMAIN ids_arr :
    ids_arr[id] # Free =>
      \/ \E s \in Slots : heap[s].node_id = id
      \/ KeepsId(calling) /\ calling.node_id = id

\* Between operations no node expires strictly before its parent, so the
\* node tq_time_to_nearest_timer looks at is a nearest one.
HeapOrdered ==
  Settled => \A s \in Slots : ~Before(heap[s], heap[HEAP_PARENT(s)])

\* mpool_free: "all objects must be returned".  The hnodes outside the pool
\* are the queued ones and the one being dispatched.
HnodesAccounted ==
  hnodes_out = curr_heap_size + IF Dispatching THEN 1 ELSE 0

(***************************************************************************)
(* The inductive invariant behind them, for a queue with a slot for every  *)
(* timer: the table never has to grow and a free id is always found.       *)
(***************************************************************************)
HasRoom == Cardinality(Timers) <= InitSize

\* No timer node is in the queue twice, nor while its periodic handler runs.
NodesDistinct ==
  /\ \A a, b \in Slots : heap[a].ctx = heap[b].ctx => a = b
  /\ KeepsId(calling) => \A s \in Slots : heap[s].ctx # calling.ctx

\* Every free id is where heap_get_node_id will look for it.
CursorSound ==
  /\ max_heap_size = InitSize
  /\ ids_last < max_heap_size
  /\ ids_min_free <= max_heap_size
  /\ \A id \in DOMAIN ids_arr :
       ids_arr[id] = Free => id > ids_last \/ id >= ids_min_free
  /\ ids_min_free < max_heap_size => /\ ids_arr[ids_min_free] = Free
                                    /\ ids_min_free <= ids_last

\* A loop is at a slot of the heap; a kept id is not free.
LoopInHeap == ~Settled => sift.pos \in Slots
KeptIdBusy == KeepsId(calling) => ids_arr[calling.node_id] # Free

ShapeInv ==
  /\ TypeOK
  /\ IdsInTable
  /\ IdsUnique
  /\ NoIdLost
  /\ NodesDistinct
  /\ CursorSound
  /\ LoopInHeap
  /\ KeptIdBusy

\* The expiration times along the heap.
Keys == [s \in Slots |-> next_timer[heap[s].ctx]]

InOrder(K, s) == K[HEAP_PARENT(s)] <= K[s]

BelowParentOf(K, S, pos) ==
  pos # 0 => \A s \in S : HEAP_PARENT(s) = pos => K[HEAP_PARENT(pos)] <= K[s]

\* filter_up is at pos: the order may be broken there only.
UpInv(K, S, pos) ==
  (\A s \in S : s # pos => InOrder(K, s)) /\ BelowParentOf(K, S, pos)

\* filter_down is at pos: the order may be broken below it only.
DownInv(K, S, pos) ==
  (\A s \in S : HEAP_PARENT(s) # pos => InOrder(K, s)) /\ BelowParentOf(K, S, pos)

OrderInv ==
  /\ Settled => \A s \in Slots : InOrder(Keys, s)
  /\ sift.dir = "up" => UpInv(Keys, Slots, sift.pos)
  /\ sift.dir = "down" => DownInv(Keys, Slots, sift.pos)

(***************************************************************************)
(* The queue implements the timer service.                                 *)
(***************************************************************************)
Pending == {heap[s] : s \in Slots}
Service == INSTANCE TimerService WITH pending <- Pending

\* The queue, its loops and id table hidden, behaves like a set of pending
\* timers: a new id is never one in use, cancelling an id removes exactly
\* the timer that was given it, and the timer dispatched is a nearest one.
ServiceSpec == Service!Spec
=============================================================================
