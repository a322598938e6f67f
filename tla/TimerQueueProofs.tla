-------------------------- MODULE TimerQueueProofs --------------------------
(***************************************************************************)
(* Theorems about TimerQueue, for every set of timers, every size of the   *)
(* queue that has room for them and every clock.  First come lemmas about  *)
(* node ids and about what each operation on the heap leaves of it.        *)
(***************************************************************************)
EXTENDS TimerQueue, NatLemmas

\* A queue that has room is never full when a timer outside it is pushed.
LEMMA RoomForOne ==
  ASSUME HasRoom, ShapeInv, NEW t \in Timers,
         \A s \in Slots : heap[s].ctx # t
  PROVE  curr_heap_size < max_heap_size
<1>1. IsFiniteSet(Timers) BY TimersAssumption
<1>2. /\ IsFiniteSet(Timers \ {t})
      /\ Cardinality(Timers \ {t}) = Cardinality(Timers) - 1
      /\ Cardinality(Timers) \in Nat
  BY <1>1, FS_RemoveElement, FS_CardinalityType
<1>3. /\ curr_heap_size \in Nat
      /\ heap \in [Slots -> Hnode]
  BY DEF ShapeInv, TypeOK
<1>4. IsFiniteSet(Slots) /\ Cardinality(Slots) = curr_heap_size
  <2>1. /\ IsFiniteSet(0 .. curr_heap_size - 1)
        /\ Cardinality(0 .. curr_heap_size - 1) =
             IF 0 > curr_heap_size - 1 THEN 0 ELSE curr_heap_size - 1 - 0 + 1
    BY <1>3, FS_Interval, SMT
  <2>2. QED BY <2>1, <1>3 DEF Slots
<1>5. DEFINE f == [s \in Slots |-> heap[s].ctx]
<1>6. f \in [Slots -> Timers \ {t}]
  BY <1>3 DEF Hnode
<1>7. \A a, b \in Slots : f[a] = f[b] => a = b
  BY DEF ShapeInv, NodesDistinct
<1>8. ~(Cardinality(Timers \ {t}) < Cardinality(Slots))
  <2> HIDE DEF f
  <2>1. QED BY <1>2, <1>4, <1>6, <1>7, FS_PigeonHole
<1>9. QED
  BY <1>2, <1>3, <1>4, <1>8, SizesAssumption
  DEF HasRoom, ShapeInv, CursorSound

\* The timer that holds an id that is not free.
HolderOf(id) == IF KeepsId(calling) /\ calling.node_id = id
                THEN calling.ctx ELSE heap[ids_arr[id]].ctx

\* While a timer is neither queued nor keeps an id there is a free id.
LEMMA FreeIdExists ==
  ASSUME HasRoom, ShapeInv, NEW t \in Timers,
         \A s \in Slots : heap[s].ctx # t,
         ~(KeepsId(calling) /\ calling.ctx = t)
  PROVE  \E id \in DOMAIN ids_arr : ids_arr[id] = Free
<1> SUFFICES ASSUME \A id \in DOMAIN ids_arr : ids_arr[id] # Free
             PROVE  FALSE
  OBVIOUS
<1> DEFINE Ids == 0 .. max_heap_size - 1
<1>1. IsFiniteSet(Timers) BY TimersAssumption
<1>2. /\ IsFiniteSet(Timers \ {t})
      /\ Cardinality(Timers \ {t}) = Cardinality(Timers) - 1
      /\ Cardinality(Timers) \in Nat
  BY <1>1, FS_RemoveElement, FS_CardinalityType
<1>3. /\ max_heap_size \in Nat \ {0}
      /\ ids_arr \in [Ids -> Nat \cup {Free}]
      /\ heap \in [Slots -> Hnode]
      /\ calling \in Hnode \cup {NoNode}
  BY DEF ShapeInv, TypeOK
<1>4. IsFiniteSet(Ids) /\ Cardinality(Ids) = max_heap_size
  <2>1. /\ IsFiniteSet(0 .. max_heap_size - 1)
        /\ Cardinality(0 .. max_heap_size - 1) =
             IF 0 > max_heap_size - 1 THEN 0 ELSE max_heap_size - 1 - 0 + 1
    BY <1>3, FS_Interval, SMT
  <2>2. QED BY <2>1, <1>3
<1>5. \A id \in Ids : \/ KeepsId(calling) /\ calling.node_id = id
                      \/ /\ ids_arr[id] \in Slots
                         /\ heap[ids_arr[id]].node_id = id
  BY <1>3 DEF ShapeInv, NoIdLost, IdsUnique, IdsInTable
<1>6. DEFINE f == [id \in Ids |-> HolderOf(id)]
<1>7. f \in [Ids -> Timers \ {t}]
  <2>1. KeepsId(calling) => calling.ctx \in Timers
    BY <1>3 DEF KeepsId, Hnode
  <2>2. \A id \in Ids : HolderOf(id) \in Timers \ {t}
    BY <1>3, <1>5, <2>1 DEF HolderOf, Hnode
  <2>3. QED BY <2>2
<1>8. \A a, b \in Ids : f[a] = f[b] => a = b
  BY <1>5 DEF HolderOf, ShapeInv, NodesDistinct
<1>9. ~(Cardinality(Timers \ {t}) < Cardinality(Ids))
  <2> HIDE DEF f, Ids
  <2>1. QED BY <1>2, <1>4, <1>7, <1>8, FS_PigeonHole
<1>10. QED
  BY <1>2, <1>3, <1>4, <1>9, SizesAssumption
  DEF HasRoom, ShapeInv, CursorSound
-----------------------------------------------------------------------------
(***************************************************************************)
(* Node ids.                                                               *)
(***************************************************************************)

\* What heap_get_node_id returns when there is a free id: a free index of the
\* table, after which the free ids are still where it will look for them.
LEMMA FreshId ==
  ASSUME ShapeInv, NEW free \in DOMAIN ids_arr, ids_arr[free] = Free,
         NEW id, id = heap_get_node_id(ids_arr, max_heap_size),
         NEW min, min = IF WrapsToMinFree(ids_arr, max_heap_size)
                        THEN max_heap_size ELSE ids_min_free
  PROVE  /\ id \in DOMAIN ids_arr
         /\ ids_arr[id] = Free
         /\ min \in Nat /\ min <= max_heap_size
         /\ \A j \in DOMAIN ids_arr :
              ids_arr[j] = Free /\ j # id => j > id \/ j >= min
         /\ min < max_heap_size => /\ ids_arr[min] = Free
                                   /\ min < id
<1> DEFINE above == {i \in ids_last + 1 .. max_heap_size - 1 : ids_arr[i] < 0}
<1>1. /\ max_heap_size \in Nat \ {0}
      /\ ids_arr \in [0 .. max_heap_size - 1 -> Nat \cup {Free}]
      /\ ids_last \in Nat /\ ids_last < max_heap_size
      /\ ids_min_free \in Nat /\ ids_min_free <= max_heap_size
      /\ \A j \in DOMAIN ids_arr :
           ids_arr[j] = Free => j > ids_last \/ j >= ids_min_free
      /\ ids_min_free < max_heap_size => /\ ids_arr[ids_min_free] = Free
                                         /\ ids_min_free <= ids_last
  BY DEF ShapeInv, TypeOK, CursorSound
<1>2. \A i : i \in above <=> /\ i \in DOMAIN ids_arr
                             /\ i > ids_last /\ ids_arr[i] = Free
  BY <1>1 DEF Free
<1>3. CASE above # {}
  <2>1. PICK m \in above : \A j \in above : m <= j
    <3>1. above \subseteq Nat BY <1>1
    <3>2. QED BY <3>1, <1>3, SmallestOfNats
  <2>2. ScanEnd(ids_arr, max_heap_size) = m
    <3>1. ScanEnd(ids_arr, max_heap_size)
            = CHOOSE i \in above : \A j \in above : i <= j
      BY <1>3 DEF ScanEnd
    <3>2. \A i \in above : (\A j \in above : i <= j) => i = m
      BY <2>1, <1>1
    <3>3. QED BY <2>1, <3>1, <3>2
  <2>3. m \in DOMAIN ids_arr /\ ids_arr[m] = Free /\ m > ids_last
    BY <1>2, <2>1
  <2>4. id = m /\ min = ids_min_free
    BY <1>1, <2>2, <2>3 DEF heap_get_node_id, WrapsToMinFree
  <2>5. \A j \in DOMAIN ids_arr :
          ids_arr[j] = Free /\ j # id => j > id \/ j >= min
    BY <1>1, <1>2, <2>1, <2>4
  <2>6. QED BY <1>1, <2>3, <2>4, <2>5
<1>4. CASE above = {}
  <2>1. ScanEnd(ids_arr, max_heap_size) = max_heap_size
    BY <1>1, <1>4 DEF ScanEnd
  <2>2. free <= ids_last
    BY <1>1, <1>2, <1>4
  <2>3. ids_min_free < max_heap_size
    BY <1>1, <2>2
  <2>4. id = ids_min_free /\ min = max_heap_size
    BY <2>1, <2>3 DEF heap_get_node_id, WrapsToMinFree
  <2>5. \A j \in DOMAIN ids_arr : ids_arr[j] = Free => j <= ids_last
    BY <1>1, <1>2, <1>4
  <2>6. QED BY <1>1, <2>3, <2>4, <2>5
<1>5. QED BY <1>3, <1>4
-----------------------------------------------------------------------------
(***************************************************************************)
(* The operations on the heap, and what they leave of it.                  *)
(***************************************************************************)

\* A node placed at the end of a heap that is not full joins the others.
LEMMA PlaceEffect ==
  ASSUME ShapeInv, NEW nd \in Hnode, PlaceAtEnd(nd),
         curr_heap_size < max_heap_size
  PROVE  /\ max_heap_size' = max_heap_size
         /\ curr_heap_size' = curr_heap_size + 1
         /\ Slots' = Slots \cup {curr_heap_size}
         /\ curr_heap_size \notin Slots
         /\ heap' \in [Slots' -> Hnode]
         /\ \A s \in Slots : heap'[s] = heap[s]
         /\ heap'[curr_heap_size] = nd
         /\ ids_arr' = [i \in DOMAIN ids_arr |->
              IF i = nd.node_id THEN curr_heap_size ELSE ids_arr[i]]
         /\ sift' = [dir |-> "up", pos |-> curr_heap_size]
<1>1. /\ curr_heap_size \in Nat
      /\ max_heap_size \in Nat \ {0}
      /\ heap \in [Slots -> Hnode]
      /\ ids_arr \in [0 .. max_heap_size - 1 -> Nat \cup {Free}]
  BY DEF ShapeInv, TypeOK
<1>2. SizeForPush = max_heap_size
  BY <1>1 DEF SizeForPush
<1>3. IdsForPush = ids_arr
  BY <1>1, <1>2 DEF IdsForPush
<1>4. /\ curr_heap_size' = curr_heap_size + 1
      /\ Slots' = 0 .. curr_heap_size
      /\ Slots' = Slots \cup {curr_heap_size}
      /\ curr_heap_size \notin Slots
  BY <1>1 DEF PlaceAtEnd, Slots
<1>5. /\ heap' \in [Slots' -> Hnode]
      /\ \A s \in Slots : heap'[s] = heap[s]
      /\ heap'[curr_heap_size] = nd
  BY <1>1, <1>4 DEF PlaceAtEnd
<1>6. QED
  BY <1>2, <1>3, <1>4, <1>5 DEF PlaceAtEnd, PutId

\* Two nodes that exchange their slots keep their ids, and the table follows.
LEMMA ExchangeEffect ==
  ASSUME ShapeInv, NEW a \in Slots, NEW b \in Slots, Exchange(a, b), a # b
  PROVE  /\ heap' = [heap EXCEPT ![a] = heap[b], ![b] = heap[a]]
         /\ heap' \in [Slots -> Hnode]
         /\ ids_arr' \in [DOMAIN ids_arr -> Nat \cup {Free}]
         /\ \A s \in Slots : ids_arr'[heap'[s].node_id] = s
         /\ \A id \in DOMAIN ids_arr :
              ids_arr'[id] = Free <=> ids_arr[id] = Free
         /\ \A id \in DOMAIN ids_arr :
              (\A s \in Slots : heap[s].node_id # id) => ids_arr'[id] = ids_arr[id]
<1>1. /\ curr_heap_size \in Nat
      /\ heap \in [Slots -> Hnode]
      /\ ids_arr \in [0 .. max_heap_size - 1 -> Nat \cup {Free}]
      /\ \A s \in Slots : /\ heap[s].node_id \in DOMAIN ids_arr
                          /\ ids_arr[heap[s].node_id] = s
  BY DEF ShapeInv, TypeOK, IdsInTable, IdsUnique
<1>2. Slots \subseteq Nat
  BY <1>1 DEF Slots
<1>3. /\ heap' = [heap EXCEPT ![a] = heap[b], ![b] = heap[a]]
      /\ heap' \in [Slots -> Hnode]
  BY <1>1 DEF Exchange
<1>4. heap[a].node_id # heap[b].node_id
  BY <1>1
<1>5. ids_arr' = [i \in DOMAIN ids_arr |->
                    IF i = heap[a].node_id THEN b
                    ELSE IF i = heap[b].node_id THEN a ELSE ids_arr[i]]
  BY <1>1 DEF Exchange, PutId
<1>6. ids_arr' \in [DOMAIN ids_arr -> Nat \cup {Free}]
  BY <1>1, <1>2, <1>5
<1>7. \A s \in Slots : ids_arr'[heap'[s].node_id] = s
  <2>1. SUFFICES ASSUME NEW s \in Slots
                 PROVE  ids_arr'[heap'[s].node_id] = s
    OBVIOUS
  <2>2. CASE s = a BY <1>1, <1>3, <1>4, <1>5, <2>2
  <2>3. CASE s = b BY <1>1, <1>3, <1>4, <1>5, <2>3
  <2>4. CASE s # a /\ s # b BY <1>1, <1>3, <1>5, <2>4
  <2>5. QED BY <2>2, <2>3, <2>4
<1>8. \A id \in DOMAIN ids_arr : ids_arr'[id] = Free <=> ids_arr[id] = Free
  BY <1>1, <1>2, <1>5 DEF Free
<1>9. \A id \in DOMAIN ids_arr :
        (\A s \in Slots : heap[s].node_id # id) => ids_arr'[id] = ids_arr[id]
  BY <1>5
<1>10. QED BY <1>3, <1>6, <1>7, <1>8, <1>9

\* Removing a node leaves the others, each with its id; the id removed is
\* free, or still busy if it is reserved.
LEMMA RemoveEffect ==
  ASSUME ShapeInv, NEW slot \in Slots, NEW reserve \in BOOLEAN,
         heap_remove_node(slot, reserve)
  PROVE  /\ curr_heap_size' = curr_heap_size - 1
         /\ curr_heap_size' \in Nat
         /\ heap' \in [Slots' -> Hnode]
         /\ {heap'[s] : s \in Slots'} = {heap[s] : s \in Slots} \ {heap[slot]}
         /\ ids_arr' \in [DOMAIN ids_arr -> Nat \cup {Free}]
         /\ \A s \in Slots' : ids_arr'[heap'[s].node_id] = s
         /\ \A id \in DOMAIN ids_arr : id # heap[slot].node_id =>
              (ids_arr'[id] = Free <=> ids_arr[id] = Free)
         /\ ids_arr'[heap[slot].node_id] = IF reserve THEN slot ELSE Free
         /\ sift'.dir # "none" => sift'.pos \in Slots'
         /\ sift' \in [dir : {"none", "up", "down"}, pos : Nat]
<1> DEFINE last == curr_heap_size - 1
<1>1. /\ curr_heap_size \in Nat
      /\ heap \in [Slots -> Hnode]
      /\ ids_arr \in [0 .. max_heap_size - 1 -> Nat \cup {Free}]
      /\ \A s \in Slots : /\ heap[s].node_id \in DOMAIN ids_arr
                          /\ ids_arr[heap[s].node_id] = s
  BY DEF ShapeInv, TypeOK, IdsInTable, IdsUnique
<1>2. /\ curr_heap_size' = last /\ last \in Nat /\ last \in Slots
      /\ Slots' = 0 .. last - 1
      /\ Slots = Slots' \cup {last} /\ last \notin Slots'
      /\ Slots \subseteq Nat
      /\ slot <= last
      /\ slot \in Nat
  <2>1. curr_heap_size' = last
    BY DEF heap_remove_node
  <2>2. slot \in 0 .. last
    BY DEF Slots
  <2>3. last \in Nat
    BY <1>1, <2>2
  <2>4. Slots = 0 .. last /\ Slots' = 0 .. last - 1
    BY <2>1 DEF Slots
  <2>5. QED BY <2>1, <2>2, <2>3, <2>4
<1>3. heap' = [s \in Slots' |-> IF s = slot THEN heap[last] ELSE heap[s]]
  BY <1>2 DEF heap_remove_node
<1>4. heap' \in [Slots' -> Hnode]
  BY <1>1, <1>2, <1>3
<1>5. \A a, b \in Slots : heap[a].node_id = heap[b].node_id => a = b
  BY <1>1
<1>6. {heap'[s] : s \in Slots'} = {heap[s] : s \in Slots} \ {heap[slot]}
  <2>1. ASSUME NEW s \in Slots'
        PROVE  heap'[s] \in {heap[r] : r \in Slots} \ {heap[slot]}
    BY <1>2, <1>3, <1>5
  <2>2. ASSUME NEW r \in Slots, heap[r] # heap[slot]
        PROVE  heap[r] \in {heap'[s] : s \in Slots'}
    <3>1. CASE r = last
      <4>1. slot \in Slots' BY <1>2, <2>2, <3>1
      <4>2. heap'[slot] = heap[r] BY <1>3, <3>1, <4>1
      <4>3. QED BY <4>1, <4>2
    <3>2. CASE r # last
      <4>1. r \in Slots' /\ heap'[r] = heap[r] BY <1>2, <1>3, <2>2, <3>2
      <4>2. QED BY <4>1
    <3>3. QED BY <3>1, <3>2
  <2>3. QED BY <2>1, <2>2
<1>7. DEFINE arr == IF slot < last THEN PutId(ids_arr, heap[last].node_id, slot)
                    ELSE ids_arr
<1>8. arr = [i \in DOMAIN ids_arr |->
               IF i = heap[last].node_id /\ slot < last THEN slot ELSE ids_arr[i]]
  BY <1>1 DEF PutId
<1>9. ids_arr' = [i \in DOMAIN ids_arr |->
                    IF i = heap[slot].node_id /\ ~reserve THEN Free
                    ELSE arr[i]]
  <2>1. CASE reserve
    <3>1. ids_arr' = arr BY <2>1 DEF heap_remove_node
    <3>2. QED BY <2>1, <3>1, <1>8
  <2>2. CASE ~reserve
    <3>1. ids_arr' = PutId(arr, heap[slot].node_id, Free)
      BY <2>2 DEF heap_remove_node, release_node_id
    <3>2. QED BY <2>2, <3>1, <1>8 DEF PutId
  <2>3. QED BY <2>1, <2>2
<1>10. ids_arr' \in [DOMAIN ids_arr -> Nat \cup {Free}]
  <2> HIDE DEF arr
  <2>1. arr \in [DOMAIN ids_arr -> Nat \cup {Free}] BY <1>1, <1>2, <1>8
  <2>2. QED BY <2>1, <1>9
<1>11. \A s \in Slots' : ids_arr'[heap'[s].node_id] = s
  <2> HIDE DEF arr
  <2>1. SUFFICES ASSUME NEW s \in Slots'
                 PROVE  ids_arr'[heap'[s].node_id] = s
    OBVIOUS
  <2>2. CASE s = slot
    <3>1. slot < last BY <1>2, <2>2
    <3>2. heap'[s] = heap[last] BY <1>3, <2>2
    <3>3. heap[last].node_id # heap[slot].node_id BY <1>2, <1>5, <3>1
    <3>4. QED BY <1>1, <1>2, <1>8, <1>9, <2>2, <3>1, <3>2, <3>3
  <2>3. CASE s # slot
    <3>1. heap'[s] = heap[s] /\ s \in Slots /\ s # last
      BY <1>2, <1>3, <2>3
    <3>2. /\ heap[s].node_id # heap[slot].node_id
          /\ heap[s].node_id # heap[last].node_id
      BY <1>2, <1>5, <2>3, <3>1
    <3>3. QED BY <1>1, <1>8, <1>9, <3>1, <3>2
  <2>4. QED BY <2>2, <2>3
<1>12. \A id \in DOMAIN ids_arr : id # heap[slot].node_id =>
         (ids_arr'[id] = Free <=> ids_arr[id] = Free)
  <2> HIDE DEF arr
  <2>1. QED BY <1>1, <1>2, <1>8, <1>9 DEF Free
<1>13. ids_arr'[heap[slot].node_id] = IF reserve THEN slot ELSE Free
  <2> HIDE DEF arr
  <2>1. QED BY <1>1, <1>2, <1>5, <1>8, <1>9
<1>14. /\ sift'.dir # "none" => sift'.pos \in Slots'
       /\ sift' \in [dir : {"none", "up", "down"}, pos : Nat]
  <2>1. CASE slot < last
    <3>1. PICK d \in {"up", "down"} : sift' = [dir |-> d, pos |-> slot]
      BY <2>1 DEF heap_remove_node, FilterDir
    <3>2. slot \in Slots' BY <1>2, <2>1
    <3>3. QED BY <1>2, <3>1, <3>2
  <2>2. CASE ~(slot < last)
    <3>1. sift' = NoSift BY <2>2 DEF heap_remove_node
    <3>2. QED BY <3>1 DEF NoSift
  <2>3. QED BY <2>1, <2>2
<1>15. QED
  BY <1>2, <1>4, <1>6, <1>10, <1>11, <1>12, <1>13, <1>14
-----------------------------------------------------------------------------
(***************************************************************************)
(* ShapeInv is inductive: one lemma per action.                            *)
(***************************************************************************)

\* The empty queue has the shape.
LEMMA InitShape == Init => ShapeInv
<1> SUFFICES ASSUME Init PROVE ShapeInv
  OBVIOUS
<1>1. Slots = {}
  BY DEF Init, Slots
<1>2. ~KeepsId(calling) /\ Settled
  BY DEF Init, KeepsId, Settled, NoSift
<1>3. TypeOK
  <2>1. heap \in [Slots -> Hnode]
    BY <1>1 DEF Init
  <2>2. /\ ids_arr \in [0 .. max_heap_size - 1 -> Nat \cup {Free}]
        /\ next_timer \in [Timers -> Nat]
        /\ sift \in [dir : {"none", "up", "down"}, pos : Nat]
    BY DEF Init, NoSift
  <2>3. QED BY <2>1, <2>2, SizesAssumption DEF Init, TypeOK
<1>4. CursorSound
  BY SizesAssumption DEF Init, CursorSound
<1>5. QED
  BY <1>1, <1>2, <1>3, <1>4
  DEF Init, ShapeInv, IdsInTable, IdsUnique, NoIdLost, NodesDistinct,
      LoopInHeap, KeptIdBusy

\* An exchange of two nodes inside a loop.
LEMMA ExchangeShape ==
  ASSUME ShapeInv, NEW a \in Slots, NEW b \in Slots, a # b, Exchange(a, b),
         NEW d \in {"up", "down"}, sift' = [dir |-> d, pos |-> b],
         UNCHANGED loopVars
  PROVE  ShapeInv'
<1>1. Slots' = Slots /\ Slots \subseteq Nat
  BY DEF loopVars, Slots, ShapeInv, TypeOK
<1>2. KeepsId(calling)' <=> KeepsId(calling)
  BY DEF loopVars, KeepsId
<1>3. /\ heap' = [heap EXCEPT ![a] = heap[b], ![b] = heap[a]]
      /\ heap' \in [Slots -> Hnode]
      /\ ids_arr' \in [DOMAIN ids_arr -> Nat \cup {Free}]
      /\ \A s \in Slots : ids_arr'[heap'[s].node_id] = s
      /\ \A id \in DOMAIN ids_arr : ids_arr'[id] = Free <=> ids_arr[id] = Free
  BY ExchangeEffect
<1>4. heap \in [Slots -> Hnode] /\ DOMAIN ids_arr' = DOMAIN ids_arr
  BY <1>3 DEF ShapeInv, TypeOK
<1>5. /\ \A s \in Slots : \E r \in Slots : heap'[s] = heap[r]
      /\ \A r \in Slots : \E s \in Slots : heap'[s] = heap[r]
  BY <1>3, <1>4
<1>6. TypeOK'
  BY <1>1, <1>3 DEF ShapeInv, TypeOK, loopVars
<1>7. IdsInTable'
  BY <1>1, <1>4, <1>5 DEF ShapeInv, IdsInTable
<1>8. IdsUnique'
  <2>1. KeepsId(calling) => calling.node_id \in DOMAIN ids_arr'
    BY <1>4 DEF ShapeInv, IdsUnique
  <2>2. ASSUME KeepsId(calling), NEW s \in Slots
        PROVE  heap'[s].node_id # calling.node_id
    <3>1. PICK r \in Slots : heap'[s] = heap[r] BY <1>5
    <3>2. QED BY <2>2, <3>1 DEF ShapeInv, IdsUnique
  <2>3. QED BY <1>1, <1>2, <1>3, <2>1, <2>2 DEF IdsUnique, loopVars
<1>9. NoIdLost'
  <2>1. ASSUME NEW id \in DOMAIN ids_arr, ids_arr[id] # Free,
               ~(KeepsId(calling) /\ calling.node_id = id)
        PROVE  \E s \in Slots : heap'[s].node_id = id
    <3>1. PICK r \in Slots : heap[r].node_id = id
      BY <2>1 DEF ShapeInv, NoIdLost
    <3>2. PICK s \in Slots : heap'[s] = heap[r] BY <1>5
    <3>3. QED BY <3>1, <3>2
  <2>2. QED BY <1>1, <1>2, <1>3, <1>4, <2>1 DEF NoIdLost, loopVars
<1>10. NodesDistinct'
  <2>1. \A x, y \in Slots : heap'[x].ctx = heap'[y].ctx => x = y
    BY <1>3, <1>4 DEF ShapeInv, NodesDistinct
  <2>2. ASSUME KeepsId(calling), NEW s \in Slots
        PROVE  heap'[s].ctx # calling.ctx
    <3>1. PICK r \in Slots : heap'[s] = heap[r] BY <1>5
    <3>2. QED BY <2>2, <3>1 DEF ShapeInv, NodesDistinct
  <2>3. QED BY <1>1, <1>2, <2>1, <2>2 DEF NodesDistinct, loopVars
<1>11. CursorSound'
  BY <1>3, <1>4 DEF ShapeInv, CursorSound, TypeOK, loopVars
<1>12. LoopInHeap'
  <2>1. sift'.pos = b OBVIOUS
  <2>2. QED BY <1>1, <2>1 DEF LoopInHeap
<1>13. KeptIdBusy'
  BY <1>2, <1>3 DEF ShapeInv, KeptIdBusy, IdsUnique, loopVars
<1>14. QED
  BY <1>6, <1>7, <1>8, <1>9, <1>10, <1>11, <1>12, <1>13 DEF ShapeInv

\* The end of a loop.
LEMMA SettleShape ==
  ASSUME ShapeInv, sift' = NoSift, UNCHANGED <<heap, ids_arr, loopVars>>
  PROVE  ShapeInv'
<1>1. Slots' = Slots /\ (KeepsId(calling)' <=> KeepsId(calling)) /\ Settled'
  BY DEF loopVars, Slots, KeepsId, Settled, NoSift
<1>2. sift' \in [dir : {"none", "up", "down"}, pos : Nat]
  BY DEF NoSift
<1>3. QED
  BY <1>1, <1>2
  DEF ShapeInv, TypeOK, IdsInTable, IdsUnique, NoIdLost, NodesDistinct,
      CursorSound, LoopInHeap, KeptIdBusy, loopVars

\* The parent of a slot, and its children.
LEMMA ParentChild ==
  ASSUME NEW s \in Nat
  PROVE  /\ HEAP_PARENT(s) \in Nat
         /\ HEAP_PARENT(s) <= s
         /\ s # 0 => HEAP_PARENT(s) < s
         /\ HEAP_LCHILD(s) \in Nat /\ HEAP_LCHILD(s) > s
         /\ \A r \in Nat \ {0} : HEAP_PARENT(r) = s <=>
              r = HEAP_LCHILD(s) \/ r = HEAP_LCHILD(s) + 1
  BY DEF HEAP_PARENT, HEAP_LCHILD

\* An iteration of filter_up moves two nodes and their table entries alike.
LEMMA FilterUpShape == ShapeInv /\ filter_up => ShapeInv'
<1> SUFFICES ASSUME ShapeInv, filter_up PROVE ShapeInv'
  OBVIOUS
<1> DEFINE pos == sift.pos
           up  == HEAP_PARENT(pos)
<1>1. pos \in Slots /\ Slots \subseteq Nat /\ Slots = 0 .. curr_heap_size - 1
      /\ curr_heap_size \in Nat
  BY DEF filter_up, ShapeInv, LoopInHeap, Settled, Slots, TypeOK
<1>2. CASE pos = 0 \/ Before(heap[up], heap[pos])
  BY <1>2, SettleShape DEF filter_up
<1>3. CASE ~(pos = 0 \/ Before(heap[up], heap[pos]))
  <2>1. up \in Nat /\ up < pos
    BY <1>1, <1>3, ParentChild
  <2>2. up \in Slots /\ pos # up
    BY <1>1, <2>1
  <2>3. /\ Exchange(pos, up)
        /\ sift' = [dir |-> "up", pos |-> up]
        /\ UNCHANGED loopVars
    BY <1>3 DEF filter_up
  <2> HIDE DEF up, pos
  <2>4. QED BY <1>1, <2>1, <2>2, <2>3, ExchangeShape
<1>4. QED BY <1>2, <1>3

\* An iteration of filter_down moves two nodes and their table entries alike.
LEMMA FilterDownShape == ShapeInv /\ filter_down => ShapeInv'
<1> SUFFICES ASSUME ShapeInv, filter_down PROVE ShapeInv'
  OBVIOUS
<1> DEFINE pos   == sift.pos
           child == EarlierChild(pos)
<1>1. pos \in Slots /\ Slots \subseteq Nat
  BY DEF filter_down, ShapeInv, LoopInHeap, Settled, Slots, TypeOK
<1>2. CASE HEAP_LCHILD(pos) \notin Slots \/ Before(heap[pos], heap[child])
  BY <1>2, SettleShape DEF filter_down
<1>3. CASE ~(HEAP_LCHILD(pos) \notin Slots \/ Before(heap[pos], heap[child]))
  <2>1. child \in Slots /\ child # pos
    <3>1. /\ HEAP_LCHILD(pos) \in Slots
          /\ HEAP_LCHILD(pos) > pos /\ HEAP_LCHILD(pos) \in Nat
      BY <1>1, <1>3, ParentChild
    <3> HIDE DEF pos
    <3>2. QED BY <1>1, <3>1 DEF EarlierChild
  <2>2. /\ Exchange(pos, child)
        /\ sift' = [dir |-> "down", pos |-> child]
        /\ UNCHANGED loopVars
    BY <1>3 DEF filter_down
  <2> HIDE DEF child, pos
  <2>3. QED BY <1>1, <2>1, <2>2, ExchangeShape
<1>4. QED BY <1>2, <1>3

\* What every push keeps of the shape.
LEMMA PlaceShape ==
  ASSUME ShapeInv, NEW nd \in Hnode, PlaceAtEnd(nd),
         curr_heap_size < max_heap_size,
         nd.node_id \in DOMAIN ids_arr,
         \A s \in Slots : heap[s].node_id # nd.node_id,
         \A s \in Slots : heap[s].ctx # nd.ctx
  PROVE  /\ max_heap_size' = max_heap_size /\ curr_heap_size' \in Nat
         /\ heap' \in [Slots' -> Hnode]
         /\ ids_arr' \in [DOMAIN ids_arr -> Nat \cup {Free}]
         /\ sift' \in [dir : {"none", "up", "down"}, pos : Nat]
         /\ IdsInTable' /\ LoopInHeap'
         /\ \A s \in Slots' : ids_arr'[heap'[s].node_id] = s
         /\ \A a, b \in Slots' : heap'[a].ctx = heap'[b].ctx => a = b
         /\ \A id \in DOMAIN ids_arr :
              ids_arr'[id] = Free <=> ids_arr[id] = Free /\ id # nd.node_id
         /\ \A s \in Slots' : heap'[s] = nd \/ \E r \in Slots : heap'[s] = heap[r]
         /\ \A r \in Slots : \E s \in Slots' : heap'[s] = heap[r]
         /\ \E s \in Slots' : heap'[s] = nd
<1>1. /\ curr_heap_size \in Nat
      /\ heap \in [Slots -> Hnode]
      /\ ids_arr \in [0 .. max_heap_size - 1 -> Nat \cup {Free}]
      /\ \A s \in Slots : /\ heap[s].node_id \in DOMAIN ids_arr
                          /\ ids_arr[heap[s].node_id] = s
  BY DEF ShapeInv, TypeOK, IdsInTable, IdsUnique
<1>2. /\ max_heap_size' = max_heap_size
      /\ curr_heap_size' = curr_heap_size + 1
      /\ Slots' = Slots \cup {curr_heap_size}
      /\ curr_heap_size \notin Slots
      /\ heap' \in [Slots' -> Hnode]
      /\ \A s \in Slots : heap'[s] = heap[s]
      /\ heap'[curr_heap_size] = nd
      /\ ids_arr' = [i \in DOMAIN ids_arr |->
           IF i = nd.node_id THEN curr_heap_size ELSE ids_arr[i]]
      /\ sift' = [dir |-> "up", pos |-> curr_heap_size]
  BY PlaceEffect
<1>3. ids_arr' \in [DOMAIN ids_arr -> Nat \cup {Free}]
  BY <1>1, <1>2
<1>4. \A s \in Slots' : /\ heap'[s].node_id \in DOMAIN ids_arr'
                        /\ ids_arr'[heap'[s].node_id] = s
  BY <1>1, <1>2
<1>5. IdsInTable' /\ LoopInHeap'
  BY <1>2, <1>4 DEF IdsInTable, LoopInHeap
<1>6. \A a, b \in Slots' : heap'[a].ctx = heap'[b].ctx => a = b
  BY <1>2 DEF ShapeInv, NodesDistinct
<1>7. \A id \in DOMAIN ids_arr :
        ids_arr'[id] = Free <=> ids_arr[id] = Free /\ id # nd.node_id
  BY <1>1, <1>2 DEF Free
<1>8. QED
  BY <1>1, <1>2, <1>3, <1>4, <1>5, <1>6, <1>7

\* tq_schedule_timer: the id taken is free, because the queue has room and
\* every free id is where heap_get_node_id looks.
LEMMA ScheduleShape ==
  ASSUME HasRoom, ShapeInv, NEW t \in Timers, NEW when \in Nat,
         tq_schedule_timer(t, when)
  PROVE  ShapeInv'
<1> DEFINE id == heap_get_node_id(IdsForPush, SizeForPush)
           nd == [node_id |-> id, ctx |-> t]
<1>1. /\ \A s \in Slots : heap[s].ctx # t
      /\ ~(KeepsId(calling) /\ calling.ctx = t)
  BY DEF tq_schedule_timer, MaySchedule, Queued
<1>2. curr_heap_size < max_heap_size
  BY <1>1, RoomForOne
<1>3. /\ curr_heap_size \in Nat
      /\ max_heap_size \in Nat \ {0}
      /\ ids_arr \in [0 .. max_heap_size - 1 -> Nat \cup {Free}]
      /\ heap \in [Slots -> Hnode]
  BY DEF ShapeInv, TypeOK
<1>4. SizeForPush = max_heap_size /\ IdsForPush = ids_arr
  BY <1>2, <1>3 DEF SizeForPush, IdsForPush
<1>5. PICK free \in DOMAIN ids_arr : ids_arr[free] = Free
  BY <1>1, FreeIdExists
<1>6. /\ id \in DOMAIN ids_arr
      /\ ids_arr[id] = Free
      /\ ids_last' = id
      /\ ids_min_free' \in Nat /\ ids_min_free' <= max_heap_size
      /\ \A j \in DOMAIN ids_arr :
           ids_arr[j] = Free /\ j # id => j > id \/ j >= ids_min_free'
      /\ ids_min_free' < max_heap_size =>
           ids_arr[ids_min_free'] = Free /\ ids_min_free' < id
  <2>1. id = heap_get_node_id(ids_arr, max_heap_size)
    BY <1>4
  <2>2. /\ ids_min_free' = IF WrapsToMinFree(ids_arr, max_heap_size)
                           THEN max_heap_size ELSE ids_min_free
        /\ ids_last' = id
    BY <1>4 DEF tq_schedule_timer, heap_push_new
  <2> HIDE DEF id
  <2>3. QED BY <1>5, <2>1, <2>2, FreshId
<1>7. nd \in Hnode /\ nd.node_id = id /\ nd.ctx = t /\ PlaceAtEnd(nd)
  <2>1. PlaceAtEnd(nd) BY DEF tq_schedule_timer, heap_push_new
  <2> HIDE DEF id
  <2>2. nd \in Hnode BY <1>3, <1>6 DEF Hnode
  <2>3. QED BY <2>1, <2>2
<1>8. /\ calling' = calling /\ now' = now
      /\ next_timer' = [next_timer EXCEPT ![t] = when]
      /\ hnodes_out' = hnodes_out + 1
  BY DEF tq_schedule_timer
<1>9. KeepsId(calling)' <=> KeepsId(calling)
  BY <1>8 DEF KeepsId
<1>10. \A s \in Slots : heap[s].node_id # id
  <2> HIDE DEF id
  <2>1. Slots \subseteq Nat BY <1>3 DEF Slots
  <2>2. QED BY <1>6, <2>1 DEF ShapeInv, IdsUnique, Free
<1>11. KeepsId(calling) => calling.node_id # id
  <2> HIDE DEF id
  <2>1. QED BY <1>6 DEF ShapeInv, KeptIdBusy
<1> HIDE DEF id, nd
<1>12. /\ max_heap_size' = max_heap_size /\ curr_heap_size' \in Nat
       /\ heap' \in [Slots' -> Hnode]
       /\ ids_arr' \in [DOMAIN ids_arr -> Nat \cup {Free}]
       /\ sift' \in [dir : {"none", "up", "down"}, pos : Nat]
       /\ IdsInTable' /\ LoopInHeap'
       /\ \A s \in Slots' : ids_arr'[heap'[s].node_id] = s
       /\ \A a, b \in Slots' : heap'[a].ctx = heap'[b].ctx => a = b
       /\ \A j \in DOMAIN ids_arr :
            ids_arr'[j] = Free <=> ids_arr[j] = Free /\ j # id
       /\ \A s \in Slots' : heap'[s] = nd \/ \E r \in Slots : heap'[s] = heap[r]
       /\ \A r \in Slots : \E s \in Slots' : heap'[s] = heap[r]
       /\ \E s \in Slots' : heap'[s] = nd
  BY <1>1, <1>2, <1>6, <1>7, <1>10, PlaceShape
<1>13. TypeOK'
  BY <1>3, <1>6, <1>8, <1>12 DEF ShapeInv, TypeOK
<1>14. IdsUnique'
  BY <1>3, <1>7, <1>8, <1>9, <1>11, <1>12 DEF ShapeInv, IdsUnique
<1>15. NoIdLost'
  BY <1>3, <1>7, <1>8, <1>9, <1>12 DEF ShapeInv, NoIdLost
<1>16. NodesDistinct'
  BY <1>1, <1>7, <1>8, <1>9, <1>12 DEF ShapeInv, NodesDistinct
<1>17. CursorSound'
  BY <1>3, <1>6, <1>12 DEF ShapeInv, CursorSound
<1>18. KeptIdBusy'
  BY <1>3, <1>8, <1>9, <1>12 DEF ShapeInv, KeptIdBusy, IdsUnique
<1>19. QED
  BY <1>12, <1>13, <1>14, <1>15, <1>16, <1>17, <1>18 DEF ShapeInv

\* A step that frees no id and takes none leaves them where they were.
LEMMA KeptCursor ==
  ASSUME ShapeInv, UNCHANGED <<max_heap_size, ids_last, ids_min_free>>,
         ids_arr' \in [DOMAIN ids_arr -> Nat \cup {Free}],
         \A j \in DOMAIN ids_arr : ids_arr'[j] = Free <=> ids_arr[j] = Free
  PROVE  CursorSound'
<1>1. /\ max_heap_size \in Nat /\ ids_min_free \in Nat
      /\ ids_arr \in [0 .. max_heap_size - 1 -> Nat \cup {Free}]
      /\ CursorSound
  BY DEF ShapeInv, TypeOK
<1>2. ids_min_free < max_heap_size => ids_min_free \in DOMAIN ids_arr
  BY <1>1
<1>3. DOMAIN ids_arr' = DOMAIN ids_arr
  OBVIOUS
<1>4. QED BY <1>1, <1>2, <1>3 DEF CursorSound

\* A periodic timer comes back with the id it has kept.
LEMMA RescheduleShape == HasRoom /\ ShapeInv /\ DispatchReschedule => ShapeInv'
<1> SUFFICES ASSUME HasRoom, ShapeInv, DispatchReschedule PROVE ShapeInv'
  OBVIOUS
<1> DEFINE id == calling.node_id
<1>1. /\ KeepsId(calling)
      /\ calling' = NoNode
      /\ PlaceAtEnd(calling)
      /\ UNCHANGED <<ids_last, ids_min_free, hnodes_out, now>>
      /\ next_timer' = [next_timer EXCEPT ![calling.ctx] = now + Period[calling.ctx]]
  BY DEF DispatchReschedule, heap_push_kept
<1>2. calling \in Hnode /\ calling.ctx \in Timers /\ id \in Nat
  BY <1>1 DEF ShapeInv, TypeOK, KeepsId, Hnode
<1>3. /\ id \in DOMAIN ids_arr
      /\ ids_arr[id] # Free
      /\ \A s \in Slots : heap[s].node_id # id
      /\ \A s \in Slots : heap[s].ctx # calling.ctx
  BY <1>1 DEF ShapeInv, IdsUnique, KeptIdBusy, NodesDistinct
<1>4. curr_heap_size < max_heap_size
  BY <1>2, <1>3, RoomForOne
<1>5. /\ max_heap_size' = max_heap_size /\ curr_heap_size' \in Nat
      /\ heap' \in [Slots' -> Hnode]
      /\ ids_arr' \in [DOMAIN ids_arr -> Nat \cup {Free}]
      /\ sift' \in [dir : {"none", "up", "down"}, pos : Nat]
      /\ IdsInTable' /\ LoopInHeap'
      /\ \A s \in Slots' : ids_arr'[heap'[s].node_id] = s
      /\ \A a, b \in Slots' : heap'[a].ctx = heap'[b].ctx => a = b
      /\ \A j \in DOMAIN ids_arr :
           ids_arr'[j] = Free <=> ids_arr[j] = Free /\ j # id
      /\ \A r \in Slots : \E s \in Slots' : heap'[s] = heap[r]
      /\ \E s \in Slots' : heap'[s] = calling
  BY <1>1, <1>2, <1>3, <1>4, PlaceShape
<1>6. ~KeepsId(calling)'
  BY <1>1 DEF KeepsId
<1>7. /\ ids_arr \in [0 .. max_heap_size - 1 -> Nat \cup {Free}]
      /\ next_timer' \in [Timers -> Nat]
  <2>1. now + Period[calling.ctx] \in Nat
    BY <1>2, TimersAssumption DEF ShapeInv, TypeOK
  <2>2. QED BY <1>1, <2>1 DEF ShapeInv, TypeOK
<1>8. TypeOK'
  BY <1>1, <1>5, <1>7 DEF ShapeInv, TypeOK
<1>9. IdsUnique' /\ KeptIdBusy' /\ NodesDistinct'
  BY <1>5, <1>6 DEF IdsUnique, KeptIdBusy, NodesDistinct
<1>10. NoIdLost'
  BY <1>3, <1>5, <1>6, <1>7 DEF ShapeInv, NoIdLost
<1>11. CursorSound'
  <2>1. \A j \in DOMAIN ids_arr : ids_arr'[j] = Free <=> ids_arr[j] = Free
    BY <1>3, <1>5
  <2>2. QED BY <1>1, <1>5, <2>1, KeptCursor
<1>12. QED
  BY <1>5, <1>8, <1>9, <1>10, <1>11 DEF ShapeInv

\* A released id is where heap_get_node_id will look for it.
LEMMA ReleasedCursor ==
  ASSUME ShapeInv, NEW id \in DOMAIN ids_arr,
         ids_arr' \in [DOMAIN ids_arr -> Nat \cup {Free}],
         ids_arr'[id] = Free,
         \A j \in DOMAIN ids_arr : j # id => (ids_arr'[j] = Free <=> ids_arr[j] = Free),
         ids_min_free' = IF id < ids_min_free /\ id <= ids_last
                         THEN id ELSE ids_min_free,
         UNCHANGED <<max_heap_size, ids_last>>
  PROVE  CursorSound' /\ ids_min_free' \in Nat
<1>1. /\ max_heap_size \in Nat /\ ids_min_free \in Nat /\ ids_last \in Nat
      /\ ids_arr \in [0 .. max_heap_size - 1 -> Nat \cup {Free}]
  BY DEF ShapeInv, TypeOK
<1>2. id \in Nat /\ id < max_heap_size
  BY <1>1
<1>3. QED BY <1>1, <1>2 DEF ShapeInv, CursorSound

\* What every removal keeps of the shape.
LEMMA RemoveShape ==
  ASSUME ShapeInv, NEW slot \in Slots, NEW reserve \in BOOLEAN,
         heap_remove_node(slot, reserve)
  PROVE  /\ curr_heap_size' \in Nat /\ max_heap_size' = max_heap_size
         /\ heap' \in [Slots' -> Hnode]
         /\ ids_arr' \in [DOMAIN ids_arr -> Nat \cup {Free}]
         /\ sift' \in [dir : {"none", "up", "down"}, pos : Nat]
         /\ ids_last' \in Nat /\ ids_min_free' \in Nat
         /\ IdsInTable' /\ LoopInHeap' /\ CursorSound'
         /\ \A s \in Slots' : ids_arr'[heap'[s].node_id] = s
         /\ \A a, b \in Slots' : heap'[a].ctx = heap'[b].ctx => a = b
         /\ \A s \in Slots' : \E r \in Slots : r # slot /\ heap'[s] = heap[r]
         /\ \A r \in Slots : r # slot => \E s \in Slots' : heap'[s] = heap[r]
         /\ \A id \in DOMAIN ids_arr : id # heap[slot].node_id =>
              (ids_arr'[id] = Free <=> ids_arr[id] = Free)
         /\ ids_arr'[heap[slot].node_id] = IF reserve THEN slot ELSE Free
<1> DEFINE gone == heap[slot].node_id
<1>1. /\ curr_heap_size' \in Nat
      /\ heap' \in [Slots' -> Hnode]
      /\ {heap'[s] : s \in Slots'} = {heap[s] : s \in Slots} \ {heap[slot]}
      /\ ids_arr' \in [DOMAIN ids_arr -> Nat \cup {Free}]
      /\ \A s \in Slots' : ids_arr'[heap'[s].node_id] = s
      /\ \A id \in DOMAIN ids_arr : id # gone =>
           (ids_arr'[id] = Free <=> ids_arr[id] = Free)
      /\ ids_arr'[gone] = IF reserve THEN slot ELSE Free
      /\ sift'.dir # "none" => sift'.pos \in Slots'
      /\ sift' \in [dir : {"none", "up", "down"}, pos : Nat]
  BY RemoveEffect
<1>2. /\ ids_arr \in [0 .. max_heap_size - 1 -> Nat \cup {Free}]
      /\ curr_heap_size \in Nat /\ slot \in Nat
      /\ ids_last \in Nat /\ ids_min_free \in Nat
      /\ \A s \in Slots : /\ heap[s].node_id \in DOMAIN ids_arr
                          /\ ids_arr[heap[s].node_id] = s
  BY DEF ShapeInv, TypeOK, IdsInTable, IdsUnique, Slots
<1>3. UNCHANGED <<max_heap_size, ids_last>>
  BY DEF heap_remove_node
<1>4. \A r \in Slots : heap[r] = heap[slot] => r = slot
  BY <1>2
<1>5. \A s \in Slots' : \E r \in Slots : r # slot /\ heap'[s] = heap[r]
  BY <1>1
<1>6. \A r \in Slots : r # slot => \E s \in Slots' : heap'[s] = heap[r]
  <2>1. ASSUME NEW r \in Slots, r # slot
        PROVE  heap[r] \in {heap'[s] : s \in Slots'}
    BY <1>1, <1>4, <2>1
  <2>2. QED BY <2>1
<1>7. IdsInTable'
  <2>1. \A s \in Slots' : heap'[s].node_id \in DOMAIN ids_arr
    BY <1>2, <1>5
  <2>2. QED BY <1>1, <2>1 DEF IdsInTable
<1>8. LoopInHeap'
  BY <1>1 DEF LoopInHeap, Settled
<1>9. \A a, b \in Slots' : heap'[a].ctx = heap'[b].ctx => a = b
  <2>1. SUFFICES ASSUME NEW a \in Slots', NEW b \in Slots',
                        heap'[a].ctx = heap'[b].ctx
                 PROVE  a = b
    OBVIOUS
  <2>2. PICK r \in Slots : heap'[a] = heap[r] BY <1>5
  <2>3. PICK q \in Slots : heap'[b] = heap[q] BY <1>5
  <2>4. r = q BY <2>1, <2>2, <2>3 DEF ShapeInv, NodesDistinct
  <2>5. heap'[a] = heap'[b] BY <2>2, <2>3, <2>4
  <2>6. QED BY <1>1, <2>5
<1>10. CursorSound' /\ ids_min_free' \in Nat
  <2>1. CASE reserve
    <3>1. UNCHANGED ids_min_free BY <2>1 DEF heap_remove_node
    <3>2. ids_arr'[gone] # Free /\ ids_arr[gone] # Free
      BY <1>1, <1>2, <2>1 DEF Free
    <3>3. \A j \in DOMAIN ids_arr : ids_arr'[j] = Free <=> ids_arr[j] = Free
      BY <1>1, <3>2
    <3>4. QED BY <1>1, <1>2, <1>3, <3>1, <3>3, KeptCursor
  <2>2. CASE ~reserve
    <3>1. ids_min_free' = IF gone < ids_min_free /\ gone <= ids_last
                          THEN gone ELSE ids_min_free
      BY <2>2 DEF heap_remove_node, release_node_id
    <3>2. gone \in DOMAIN ids_arr BY <1>2
    <3> HIDE DEF gone
    <3>3. QED BY <1>1, <1>3, <2>2, <3>1, <3>2, ReleasedCursor
  <2>3. QED BY <2>1, <2>2
<1>11. QED
  BY <1>1, <1>2, <1>3, <1>5, <1>6, <1>7, <1>8, <1>9, <1>10

\* tq_cancel_timer: the node is found by its id, and the id becomes free.
LEMMA CancelShape ==
  ASSUME ShapeInv, NEW id \in DOMAIN ids_arr, tq_cancel_timer(id)
  PROVE  ShapeInv'
<1> DEFINE slot == ids_arr[id]
<1>1. /\ slot \in Slots /\ heap[slot].node_id = id
      /\ heap_remove_node(slot, FALSE)
      /\ ~(KeepsId(calling) /\ calling.node_id = id)
      /\ hnodes_out' = hnodes_out - 1
      /\ UNCHANGED <<next_timer, now, calling>>
  BY DEF tq_cancel_timer, mpool_return_obj
<1> HIDE DEF slot
<1>2. /\ curr_heap_size' \in Nat /\ max_heap_size' = max_heap_size
      /\ heap' \in [Slots' -> Hnode]
      /\ ids_arr' \in [DOMAIN ids_arr -> Nat \cup {Free}]
      /\ sift' \in [dir : {"none", "up", "down"}, pos : Nat]
      /\ ids_last' \in Nat /\ ids_min_free' \in Nat
      /\ IdsInTable' /\ LoopInHeap' /\ CursorSound'
      /\ \A s \in Slots' : ids_arr'[heap'[s].node_id] = s
      /\ \A a, b \in Slots' : heap'[a].ctx = heap'[b].ctx => a = b
      /\ \A s \in Slots' : \E r \in Slots : r # slot /\ heap'[s] = heap[r]
      /\ \A r \in Slots : r # slot => \E s \in Slots' : heap'[s] = heap[r]
      /\ \A j \in DOMAIN ids_arr : j # heap[slot].node_id =>
           (ids_arr'[j] = Free <=> ids_arr[j] = Free)
      /\ ids_arr'[heap[slot].node_id] = Free
  BY <1>1, RemoveShape
<1>3. KeepsId(calling)' <=> KeepsId(calling)
  BY <1>1 DEF KeepsId
<1>4. /\ ids_arr \in [0 .. max_heap_size - 1 -> Nat \cup {Free}]
      /\ DOMAIN ids_arr' = DOMAIN ids_arr
  BY <1>2 DEF ShapeInv, TypeOK
<1>5. TypeOK'
  BY <1>1, <1>2, <1>4 DEF ShapeInv, TypeOK
<1>6. IdsUnique'
  <2>1. ASSUME KeepsId(calling), NEW s \in Slots'
        PROVE  heap'[s].node_id # calling.node_id
    <3>1. PICK r \in Slots : heap'[s] = heap[r] BY <1>2
    <3>2. QED BY <2>1, <3>1 DEF ShapeInv, IdsUnique
  <2>2. KeepsId(calling) => calling.node_id \in DOMAIN ids_arr'
    BY <1>4 DEF ShapeInv, IdsUnique
  <2>3. QED BY <1>1, <1>2, <1>3, <2>1, <2>2 DEF IdsUnique
<1>7. NoIdLost'
  <2>1. ASSUME NEW j \in DOMAIN ids_arr, ids_arr'[j] # Free,
               ~(KeepsId(calling) /\ calling.node_id = j)
        PROVE  \E s \in Slots' : heap'[s].node_id = j
    <3>1. j # id /\ ids_arr[j] # Free BY <1>1, <1>2, <2>1
    <3>2. PICK r \in Slots : heap[r].node_id = j
      BY <2>1, <3>1 DEF ShapeInv, NoIdLost
    <3>3. PICK s \in Slots' : heap'[s] = heap[r] BY <1>1, <1>2, <3>1, <3>2
    <3>4. QED BY <3>2, <3>3
  <2>2. QED BY <1>1, <1>3, <1>4, <2>1 DEF NoIdLost
<1>8. NodesDistinct'
  <2>1. ASSUME KeepsId(calling), NEW s \in Slots'
        PROVE  heap'[s].ctx # calling.ctx
    <3>1. PICK r \in Slots : heap'[s] = heap[r] BY <1>2
    <3>2. QED BY <2>1, <3>1 DEF ShapeInv, NodesDistinct
  <2>2. QED BY <1>1, <1>2, <1>3, <2>1 DEF NodesDistinct
<1>9. KeptIdBusy'
  <2>1. KeepsId(calling) => /\ calling.node_id \in DOMAIN ids_arr
                            /\ ids_arr[calling.node_id] # Free
                            /\ calling.node_id # id
    BY <1>1 DEF ShapeInv, KeptIdBusy, IdsUnique
  <2>2. QED BY <1>1, <1>2, <1>3, <2>1 DEF KeptIdBusy
<1>10. QED
  BY <1>2, <1>5, <1>6, <1>7, <1>8, <1>9 DEF ShapeInv

\* tq_dispatch_nearest_timer pops the top; a periodic timer keeps its id.
LEMMA BeginShape == ShapeInv /\ DispatchBegin => ShapeInv'
<1> SUFFICES ASSUME ShapeInv, DispatchBegin PROVE ShapeInv'
  OBVIOUS
<1> DEFINE reserve == ReservesId(heap[0])
           id      == heap[0].node_id
<1>1. /\ 0 \in Slots
      /\ calling' = heap[0]
      /\ heap_remove_node(0, reserve)
      /\ UNCHANGED <<hnodes_out, next_timer, now>>
  BY DEF DispatchBegin, ShapeInv, TypeOK, Slots
<1>2. /\ reserve \in BOOLEAN
      /\ KeepsId(calling)' => reserve
      /\ calling = NoNode
  BY <1>1 DEF ReservesId, KeepsId, DispatchBegin, Dispatching
<1>3. heap[0] \in Hnode /\ id \in DOMAIN ids_arr
  BY <1>1 DEF ShapeInv, TypeOK, IdsInTable
<1>4. KeepsId(calling)' <=> reserve
  <2>1. heap[0].ctx # NoTimer BY <1>3, TimersAssumption DEF Hnode
  <2>2. heap[0] # NoNode BY <2>1 DEF NoNode
  <2>3. QED BY <1>1, <2>2 DEF KeepsId, ReservesId
<1> HIDE DEF reserve
<1>5. /\ curr_heap_size' \in Nat /\ max_heap_size' = max_heap_size
      /\ heap' \in [Slots' -> Hnode]
      /\ ids_arr' \in [DOMAIN ids_arr -> Nat \cup {Free}]
      /\ sift' \in [dir : {"none", "up", "down"}, pos : Nat]
      /\ ids_last' \in Nat /\ ids_min_free' \in Nat
      /\ IdsInTable' /\ LoopInHeap' /\ CursorSound'
      /\ \A s \in Slots' : ids_arr'[heap'[s].node_id] = s
      /\ \A a, b \in Slots' : heap'[a].ctx = heap'[b].ctx => a = b
      /\ \A s \in Slots' : \E r \in Slots : r # 0 /\ heap'[s] = heap[r]
      /\ \A r \in Slots : r # 0 => \E s \in Slots' : heap'[s] = heap[r]
      /\ \A j \in DOMAIN ids_arr : j # heap[0].node_id =>
           (ids_arr'[j] = Free <=> ids_arr[j] = Free)
      /\ ids_arr'[heap[0].node_id] = IF reserve THEN 0 ELSE Free
  BY <1>1, <1>2, RemoveShape
<1>6. /\ ids_arr \in [0 .. max_heap_size - 1 -> Nat \cup {Free}]
      /\ DOMAIN ids_arr' = DOMAIN ids_arr
  BY <1>5 DEF ShapeInv, TypeOK
<1>7. TypeOK'
  BY <1>1, <1>3, <1>5, <1>6 DEF ShapeInv, TypeOK
<1>8. ASSUME NEW s \in Slots'
      PROVE  heap'[s].node_id # id /\ heap'[s].ctx # heap[0].ctx
  <2>1. PICK r \in Slots : r # 0 /\ heap'[s] = heap[r] BY <1>5
  <2>2. QED BY <1>1, <2>1 DEF ShapeInv, IdsInTable, IdsUnique, NodesDistinct
<1>9. IdsUnique'
  BY <1>1, <1>3, <1>5, <1>6, <1>8 DEF IdsUnique
<1>10. NoIdLost'
  <2>1. ASSUME NEW j \in DOMAIN ids_arr, ids_arr'[j] # Free,
               ~(reserve /\ id = j)
        PROVE  \E s \in Slots' : heap'[s].node_id = j
    <3>1. j # id BY <1>5, <2>1
    <3>2. ids_arr[j] # Free BY <1>5, <2>1, <3>1
    <3>3. PICK r \in Slots : heap[r].node_id = j
      BY <1>2, <3>2 DEF ShapeInv, NoIdLost, KeepsId
    <3>4. r # 0 BY <3>1, <3>3
    <3>5. PICK s \in Slots' : heap'[s] = heap[r] BY <1>5, <3>4
    <3>6. QED BY <3>3, <3>5
  <2>2. QED BY <1>1, <1>4, <1>6, <2>1 DEF NoIdLost
<1>11. NodesDistinct'
  BY <1>1, <1>5, <1>8 DEF NodesDistinct
<1>12. KeptIdBusy'
  BY <1>1, <1>4, <1>5 DEF KeptIdBusy, Free
<1>13. QED
  BY <1>5, <1>7, <1>9, <1>10, <1>11, <1>12 DEF ShapeInv

\* The end of a dispatch releases the id a periodic timer has kept.
LEMMA EndShape == ShapeInv /\ DispatchEnd => ShapeInv'
<1> SUFFICES ASSUME ShapeInv, DispatchEnd PROVE ShapeInv'
  OBVIOUS
<1> DEFINE id == calling.node_id
<1>1. /\ release_kept_timer_id
      /\ hnodes_out' = hnodes_out - 1
      /\ calling' = NoNode
      /\ UNCHANGED <<heap, curr_heap_size, max_heap_size, ids_last, sift,
                     next_timer, now>>
  BY DEF DispatchEnd, mpool_return_obj
<1>2. /\ ids_arr \in [0 .. max_heap_size - 1 -> Nat \cup {Free}]
      /\ \A s \in Slots : /\ heap[s].node_id \in DOMAIN ids_arr
                          /\ ids_arr[heap[s].node_id] = s
  BY DEF ShapeInv, TypeOK, IdsInTable, IdsUnique
<1>3. ~KeepsId(calling)' /\ Slots' = Slots
  BY <1>1 DEF KeepsId, Slots
<1>4. LoopInHeap'
  BY <1>1, <1>3 DEF ShapeInv, LoopInHeap, Settled
<1>5. CASE KeepsId(calling)
  <2>1. id \in DOMAIN ids_arr /\ \A s \in Slots : heap[s].node_id # id
    BY <1>5 DEF ShapeInv, IdsUnique
  <2>2. /\ ids_arr' = [i \in DOMAIN ids_arr |-> IF i = id THEN Free ELSE ids_arr[i]]
        /\ ids_min_free' = IF id < ids_min_free /\ id <= ids_last
                           THEN id ELSE ids_min_free
    BY <1>1, <1>5 DEF release_kept_timer_id, release_node_id, PutId
  <2>3. ids_arr' \in [DOMAIN ids_arr -> Nat \cup {Free}]
    BY <1>2, <2>2
  <2> HIDE DEF id
  <2>4. CursorSound' /\ ids_min_free' \in Nat
    BY <1>1, <2>1, <2>2, <2>3, ReleasedCursor
  <2>5. TypeOK'
    BY <1>1, <1>2, <1>3, <2>3, <2>4 DEF ShapeInv, TypeOK
  <2>6. IdsInTable' /\ IdsUnique' /\ NodesDistinct' /\ KeptIdBusy'
    BY <1>1, <1>2, <1>3, <2>1, <2>2
    DEF ShapeInv, IdsInTable, IdsUnique, NodesDistinct, KeptIdBusy
  <2>7. NoIdLost'
    <3>1. ASSUME NEW j \in DOMAIN ids_arr, ids_arr'[j] # Free
          PROVE  \E s \in Slots : heap[s].node_id = j
      <4>1. j # id /\ ids_arr[j] # Free BY <2>2, <3>1
      <4>2. QED BY <4>1 DEF ShapeInv, NoIdLost, id
    <3>2. QED BY <1>1, <1>3, <2>2, <3>1 DEF NoIdLost
  <2>8. QED BY <1>4, <2>4, <2>5, <2>6, <2>7 DEF ShapeInv
<1>6. CASE ~KeepsId(calling)
  <2>1. UNCHANGED <<ids_arr, ids_min_free>>
    BY <1>1, <1>6 DEF release_kept_timer_id
  <2>2. TypeOK'
    BY <1>1, <1>3, <2>1 DEF ShapeInv, TypeOK
  <2>3. QED
    BY <1>1, <1>3, <1>4, <1>6, <2>1, <2>2
    DEF ShapeInv, IdsInTable, IdsUnique, NoIdLost, NodesDistinct, CursorSound,
        KeptIdBusy
<1>7. QED BY <1>5, <1>6

\* Time passing does not touch the queue.
LEMMA TickShape == ShapeInv /\ Tick => ShapeInv'
<1> SUFFICES ASSUME ShapeInv, Tick PROVE ShapeInv'
  OBVIOUS
<1>1. /\ now' \in Nat
      /\ UNCHANGED <<heapVars, hnodes_out, next_timer, calling>>
  BY DEF Tick, ShapeInv, TypeOK
<1>2. Slots' = Slots /\ (KeepsId(calling)' <=> KeepsId(calling))
      /\ (Settled' <=> Settled)
  BY <1>1 DEF heapVars, Slots, KeepsId, Settled
<1>3. QED
  BY <1>1, <1>2
  DEF heapVars, ShapeInv, TypeOK, IdsInTable, IdsUnique, NoIdLost,
      NodesDistinct, CursorSound, LoopInHeap, KeptIdBusy

\* Neither does a stuttering step.
LEMMA StutterShape == ShapeInv /\ UNCHANGED vars => ShapeInv'
<1> SUFFICES ASSUME ShapeInv, UNCHANGED vars PROVE ShapeInv'
  OBVIOUS
<1>1. Slots' = Slots /\ (KeepsId(calling)' <=> KeepsId(calling))
      /\ (Settled' <=> Settled)
  BY DEF vars, heapVars, Slots, KeepsId, Settled
<1>2. QED
  BY <1>1
  DEF vars, heapVars, ShapeInv, TypeOK, IdsInTable, IdsUnique, NoIdLost,
      NodesDistinct, CursorSound, LoopInHeap, KeptIdBusy

\* With room for every timer heap_push never refuses a new one.
LEMMA NoFailure ==
  ASSUME HasRoom, ShapeInv, NEW t \in Timers, MaySchedule(t)
  PROVE  ~PushFails
<1>1. curr_heap_size < max_heap_size
  BY RoomForOne DEF MaySchedule, Queued
<1>2. QED BY <1>1 DEF PushFails, ShapeInv, TypeOK

\* While the queue has room for every timer, ShapeInv is inductive.
THEOREM ShapeInductive == HasRoom /\ ShapeInv /\ [Next]_vars => ShapeInv'
<1> SUFFICES ASSUME HasRoom, ShapeInv, [Next]_vars PROVE ShapeInv'
  OBVIOUS
<1>1. CASE filter_up BY <1>1, FilterUpShape
<1>2. CASE filter_down BY <1>2, FilterDownShape
<1>3. ASSUME NEW t \in Timers, NEW when \in now .. MaxTime,
             tq_schedule_timer(t, when)
      PROVE  ShapeInv'
  <2>1. when \in Nat
    BY SizesAssumption DEF ShapeInv, TypeOK
  <2>2. QED BY <1>3, <2>1, ScheduleShape
<1>4. ASSUME NEW t \in Timers, NEW when \in now .. MaxTime,
             tq_schedule_timer_fails(t, when)
      PROVE  ShapeInv'
  BY <1>4, NoFailure DEF tq_schedule_timer_fails
<1>5. ASSUME NEW id \in DOMAIN ids_arr, tq_cancel_timer(id) PROVE ShapeInv'
  BY <1>5, CancelShape
<1>6. CASE DispatchBegin BY <1>6, BeginShape
<1>7. CASE DispatchReschedule BY <1>7, RescheduleShape
<1>8. CASE DispatchEnd BY <1>8, EndShape
<1>9. CASE Tick BY <1>9, TickShape
<1>10. CASE UNCHANGED vars BY <1>10, StutterShape
<1>11. QED
  BY <1>1, <1>2, <1>3, <1>4, <1>5, <1>6, <1>7, <1>8, <1>9, <1>10 DEF Next

\* In a queue with a slot for every timer the node table keeps its shape.
THEOREM ShapeAlways == ASSUME HasRoom PROVE Spec => []ShapeInv
<1>1. Init => ShapeInv
  BY InitShape
<1>2. ShapeInv /\ [Next]_vars => ShapeInv'
  BY ShapeInductive
<1>3. QED BY <1>1, <1>2, PTL DEF Spec

\* Every variable keeps its type.
THEOREM TypeCorrect == ASSUME HasRoom PROVE Spec => []TypeOK
<1>1. ShapeInv => TypeOK BY DEF ShapeInv
<1>2. QED BY <1>1, ShapeAlways, PTL

\* heap_push never writes outside the id table.
THEOREM IdsStayInTable == ASSUME HasRoom PROVE Spec => []IdsInTable
<1>1. ShapeInv => IdsInTable BY DEF ShapeInv
<1>2. QED BY <1>1, ShapeAlways, PTL

\* No two timers ever share an id, queued or kept during a handler.
THEOREM IdsStayUnique == ASSUME HasRoom PROVE Spec => []IdsUnique
<1>1. ShapeInv => IdsUnique BY DEF ShapeInv
<1>2. QED BY <1>1, ShapeAlways, PTL

\* No id leaks out of the table.
THEOREM NoIdEverLost == ASSUME HasRoom PROVE Spec => []NoIdLost
<1>1. ShapeInv => NoIdLost BY DEF ShapeInv
<1>2. QED BY <1>1, ShapeAlways, PTL

(***************************************************************************)
(* The hnodes outside the pool.                                            *)
(***************************************************************************)

\* Every step keeps the hnodes outside the pool counted.
LEMMA HnodesStep ==
  ASSUME HasRoom, ShapeInv, HnodesAccounted, [Next]_vars
  PROVE  HnodesAccounted'
<1>1. hnodes_out \in Int /\ curr_heap_size \in Nat /\ heap \in [Slots -> Hnode]
  BY DEF ShapeInv, TypeOK
<1>2. CASE filter_up \/ filter_down \/ Tick \/ UNCHANGED vars
  <2>1. UNCHANGED <<hnodes_out, curr_heap_size, calling>>
    BY <1>2 DEF filter_up, filter_down, Tick, vars, heapVars, loopVars
  <2>2. QED BY <2>1 DEF HnodesAccounted, Dispatching
<1>3. ASSUME NEW t \in Timers, NEW when, tq_schedule_timer(t, when)
      PROVE  HnodesAccounted'
  <2>1. /\ hnodes_out' = hnodes_out + 1
        /\ curr_heap_size' = curr_heap_size + 1
        /\ UNCHANGED calling
    BY <1>3 DEF tq_schedule_timer, heap_push_new, PlaceAtEnd
  <2>2. QED BY <1>1, <2>1 DEF HnodesAccounted, Dispatching
<1>4. ASSUME NEW t \in Timers, NEW when, tq_schedule_timer_fails(t, when)
      PROVE  FALSE
  BY <1>4, NoFailure DEF tq_schedule_timer_fails
<1>5. ASSUME NEW id \in DOMAIN ids_arr, tq_cancel_timer(id)
      PROVE  HnodesAccounted'
  <2>1. /\ hnodes_out' = hnodes_out - 1
        /\ curr_heap_size' = curr_heap_size - 1
        /\ UNCHANGED calling
    BY <1>5 DEF tq_cancel_timer, mpool_return_obj, heap_remove_node
  <2>2. QED BY <1>1, <2>1 DEF HnodesAccounted, Dispatching
<1>6. CASE DispatchBegin
  <2>1. /\ UNCHANGED hnodes_out
        /\ curr_heap_size' = curr_heap_size - 1
        /\ calling' = heap[0]
        /\ ~Dispatching
    BY <1>6 DEF DispatchBegin, heap_remove_node
  <2>2. heap[0] # NoNode
    <3>1. heap[0] \in Hnode BY <1>1, <1>6 DEF DispatchBegin, Slots
    <3>2. QED BY <3>1, TimersAssumption DEF Hnode, NoNode
  <2>3. QED BY <1>1, <2>1, <2>2 DEF HnodesAccounted, Dispatching
<1>7. CASE DispatchReschedule
  <2>1. /\ UNCHANGED hnodes_out
        /\ curr_heap_size' = curr_heap_size + 1
        /\ Dispatching /\ ~Dispatching'
    BY <1>7 DEF DispatchReschedule, heap_push_kept, PlaceAtEnd, Dispatching,
                KeepsId
  <2>2. QED BY <1>1, <2>1 DEF HnodesAccounted
<1>8. CASE DispatchEnd
  <2>1. /\ hnodes_out' = hnodes_out - 1
        /\ UNCHANGED curr_heap_size
        /\ Dispatching /\ ~Dispatching'
    BY <1>8 DEF DispatchEnd, mpool_return_obj, Dispatching
  <2>2. QED BY <1>1, <2>1 DEF HnodesAccounted
<1>9. QED
  BY <1>2, <1>3, <1>4, <1>5, <1>6, <1>7, <1>8 DEF Next

\* mpool_free finds all the hnodes returned once the queue is empty: a queue
\* with a slot for every timer refuses none, so no hnode is left behind.
THEOREM HnodesStayAccounted == ASSUME HasRoom PROVE Spec => []HnodesAccounted
<1>1. Init => HnodesAccounted
  BY DEF Init, HnodesAccounted, Dispatching
<1>2. ShapeInv /\ HnodesAccounted /\ [Next]_vars => HnodesAccounted'
  BY HnodesStep
<1>3. QED BY <1>1, <1>2, ShapeAlways, PTL DEF Spec
=============================================================================
