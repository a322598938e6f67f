--------------------------- MODULE TimerQueueOrder ---------------------------
(***************************************************************************)
(* Theorems about TimerQueue: the heap order, and with it the refinement   *)
(* of TimerService.  The argument about the order is made for the array of *)
(* expiration times alone, then carried over to the heap.                  *)
(***************************************************************************)
EXTENDS TimerQueueProofs

\* The parent of a slot is a slot.
LEMMA ParentInside ==
  ASSUME NEW n \in Nat, NEW s \in 0 .. n - 1
  PROVE  /\ HEAP_PARENT(s) \in 0 .. n - 1
         /\ HEAP_PARENT(s) <= s
         /\ s # 0 => HEAP_PARENT(s) < s
         /\ s = 0 => HEAP_PARENT(s) = 0
  BY DEF HEAP_PARENT

\* An exchange with the parent moves the broken place up.
LEMMA UpStep ==
  ASSUME NEW n \in Nat, NEW S, S = 0 .. n - 1, NEW K \in [S -> Nat],
         NEW pos \in S, pos # 0, UpInv(K, S, pos),
         NEW up, up = HEAP_PARENT(pos), K[pos] <= K[up],
         NEW L, L = [K EXCEPT ![pos] = K[up], ![up] = K[pos]]
  PROVE  UpInv(L, S, up)
<1>1. up \in S /\ up # pos /\ S \subseteq Nat
  BY ParentInside
<1>2. /\ L[pos] = K[up] /\ L[up] = K[pos]
      /\ \A s \in S : s # pos /\ s # up => L[s] = K[s]
      /\ L \in [S -> Nat]
  BY <1>1
<1>3. ASSUME NEW s \in S, s # up PROVE InOrder(L, s)
  <2>1. HEAP_PARENT(s) \in S BY ParentInside
  <2>2. CASE s = pos BY <1>2, <2>2 DEF InOrder
  <2>3. CASE s # pos /\ HEAP_PARENT(s) = pos
    <3>1. K[up] <= K[s] BY <2>3 DEF UpInv, BelowParentOf
    <3>2. QED BY <1>2, <1>3, <2>3, <3>1 DEF InOrder
  <2>4. CASE s # pos /\ HEAP_PARENT(s) = up
    <3>1. K[up] <= K[s] BY <2>4 DEF UpInv, BelowParentOf, InOrder
    <3>2. K[pos] <= K[s] BY <1>1, <3>1
    <3>3. QED BY <1>2, <1>3, <2>4, <3>2 DEF InOrder
  <2>5. CASE s # pos /\ HEAP_PARENT(s) # pos /\ HEAP_PARENT(s) # up
    BY <1>2, <1>3, <2>1, <2>5 DEF UpInv, BelowParentOf, InOrder
  <2>6. QED BY <2>2, <2>3, <2>4, <2>5
<1>4. ASSUME up # 0, NEW s \in S, HEAP_PARENT(s) = up
      PROVE  L[HEAP_PARENT(up)] <= L[s]
  <2>1. HEAP_PARENT(up) \in S /\ HEAP_PARENT(up) < up /\ up < pos
    BY <1>1, <1>4, ParentInside
  <2>2. L[HEAP_PARENT(up)] = K[HEAP_PARENT(up)]
    BY <1>1, <1>2, <2>1
  <2>3. K[HEAP_PARENT(up)] <= K[up]
    BY <1>1 DEF UpInv, BelowParentOf, InOrder
  <2>4. CASE s = pos BY <1>2, <2>2, <2>3, <2>4
  <2>5. CASE s # pos
    <3>1. K[up] <= K[s] BY <1>4, <2>5 DEF UpInv, BelowParentOf, InOrder
    <3>2. s # up
      <4>1. HEAP_PARENT(up) # up BY <1>1, <2>1
      <4>2. QED BY <1>4, <4>1
    <3>3. L[s] = K[s] BY <1>2, <2>5, <3>2
    <3>4. QED BY <1>1, <2>1, <2>2, <2>3, <3>1, <3>3
  <2>6. QED BY <2>4, <2>5
<1>5. QED BY <1>3, <1>4 DEF UpInv, BelowParentOf

\* filter_up ends with the heap in order.
LEMMA UpEnds ==
  ASSUME NEW n \in Nat, NEW S, S = 0 .. n - 1, NEW K \in [S -> Nat],
         NEW pos \in S, UpInv(K, S, pos),
         pos = 0 \/ K[HEAP_PARENT(pos)] < K[pos]
  PROVE  \A s \in S : InOrder(K, s)
<1>1. HEAP_PARENT(pos) \in S /\ (pos = 0 => HEAP_PARENT(pos) = 0)
  BY ParentInside
<1>2. K[HEAP_PARENT(pos)] \in Nat /\ K[pos] \in Nat
  BY <1>1
<1>3. InOrder(K, pos) BY <1>1, <1>2 DEF InOrder
<1>4. QED BY <1>3 DEF UpInv, BelowParentOf

\* An exchange with the earlier child moves the broken place down.
LEMMA DownStep ==
  ASSUME NEW n \in Nat, NEW S, S = 0 .. n - 1, NEW K \in [S -> Nat],
         NEW pos \in S, DownInv(K, S, pos),
         NEW child \in S, child # 0, HEAP_PARENT(child) = pos,
         K[child] <= K[pos],
         \A s \in S : s # 0 /\ HEAP_PARENT(s) = pos => K[child] <= K[s],
         NEW L, L = [K EXCEPT ![pos] = K[child], ![child] = K[pos]]
  PROVE  DownInv(L, S, child)
<1>1. child # pos /\ S \subseteq Nat
  BY ParentInside
<1>2. /\ L[pos] = K[child] /\ L[child] = K[pos]
      /\ \A s \in S : s # pos /\ s # child => L[s] = K[s]
      /\ L \in [S -> Nat]
  BY <1>1
<1>3. ASSUME NEW s \in S, HEAP_PARENT(s) # child PROVE InOrder(L, s)
  <2>1. HEAP_PARENT(s) \in S BY ParentInside
  <2>2. CASE s = child BY <1>2, <2>2 DEF InOrder
  <2>3. CASE s # child /\ s # pos /\ HEAP_PARENT(s) = pos
    <3>1. s # 0
      <4>1. s = 0 => HEAP_PARENT(s) = s BY DEF HEAP_PARENT
      <4>2. QED BY <2>3, <4>1
    <3>2. QED BY <1>2, <2>3, <3>1 DEF InOrder
  <2>4. CASE s = pos
    <3>1. CASE pos = 0
      <4>1. HEAP_PARENT(s) = s BY <2>4, <3>1 DEF HEAP_PARENT
      <4>2. L[s] \in Nat BY <1>2
      <4>3. QED BY <4>1, <4>2 DEF InOrder
    <3>2. CASE pos # 0
      <4>1. HEAP_PARENT(pos) # pos BY <1>1, <3>2, ParentInside
      <4>2. K[HEAP_PARENT(pos)] <= K[child] BY <3>2 DEF DownInv, BelowParentOf
      <4>3. L[HEAP_PARENT(pos)] = K[HEAP_PARENT(pos)]
        BY <1>2, <1>3, <2>1, <2>4, <4>1
      <4>4. QED BY <1>2, <2>4, <4>2, <4>3 DEF InOrder
    <3>3. QED BY <3>1, <3>2
  <2>5. CASE s # child /\ s # pos /\ HEAP_PARENT(s) # pos
    BY <1>2, <1>3, <2>1, <2>5 DEF DownInv, BelowParentOf, InOrder
  <2>6. QED BY <2>2, <2>3, <2>4, <2>5
<1>4. ASSUME NEW s \in S, HEAP_PARENT(s) = child
      PROVE  L[HEAP_PARENT(child)] <= L[s]
  <2>1. s # child /\ s # pos
    <3>1. HEAP_PARENT(s) <= s /\ pos < child BY <1>1, ParentInside
    <3>2. s # pos BY <1>1, <1>4, <3>1
    <3>3. s # child BY <1>1, <1>4
    <3>4. QED BY <3>2, <3>3
  <2>2. K[child] <= K[s] BY <1>1, <1>4 DEF DownInv, BelowParentOf, InOrder
  <2>3. QED BY <1>2, <2>1, <2>2
<1>5. QED BY <1>3, <1>4 DEF DownInv, BelowParentOf

\* filter_down ends with the heap in order.
LEMMA DownEnds ==
  ASSUME NEW n \in Nat, NEW S, S = 0 .. n - 1, NEW K \in [S -> Nat],
         NEW pos \in S, DownInv(K, S, pos),
         \A s \in S : s # 0 /\ HEAP_PARENT(s) = pos => K[pos] <= K[s]
  PROVE  \A s \in S : InOrder(K, s)
<1>1. ASSUME NEW s \in S, HEAP_PARENT(s) = pos PROVE InOrder(K, s)
  <2>1. CASE s = 0
    <3>1. HEAP_PARENT(s) = s /\ K[s] \in Nat BY <2>1 DEF HEAP_PARENT
    <3>2. QED BY <3>1 DEF InOrder
  <2>2. CASE s # 0 BY <1>1, <2>2 DEF InOrder
  <2>3. QED BY <2>1, <2>2
<1>2. QED BY <1>1 DEF DownInv, BelowParentOf
-----------------------------------------------------------------------------
(***************************************************************************)
(* The heap and its keys.                                                  *)
(***************************************************************************)

\* The expiration times along the heap are natural numbers.
LEMMA KeysType ==
  ASSUME ShapeInv
  PROVE  /\ Keys \in [Slots -> Nat]
         /\ Slots = 0 .. curr_heap_size - 1 /\ curr_heap_size \in Nat
         /\ Slots \subseteq Nat
         /\ \A a, b \in Slots : Before(heap[a], heap[b]) <=> Keys[a] < Keys[b]
<1>1. heap \in [Slots -> Hnode] /\ next_timer \in [Timers -> Nat]
      /\ curr_heap_size \in Nat
  BY DEF ShapeInv, TypeOK
<1>2. Keys \in [Slots -> Nat]
  BY <1>1 DEF Keys, Hnode
<1>3. \A s \in Slots : Keys[s] = next_timer[heap[s].ctx]
  BY DEF Keys
<1>4. \A a, b \in Slots : Before(heap[a], heap[b]) <=> Keys[a] < Keys[b]
  BY <1>3 DEF Before
<1>5. QED BY <1>1, <1>2, <1>4 DEF Slots

\* An order kept by every slot is HeapOrdered.
LEMMA OrderIsHeapOrdered == ShapeInv /\ OrderInv => HeapOrdered
<1> SUFFICES ASSUME ShapeInv, OrderInv, Settled, NEW s \in Slots
             PROVE  ~Before(heap[s], heap[HEAP_PARENT(s)])
  BY DEF HeapOrdered
<1>1. HEAP_PARENT(s) \in Slots
  BY KeysType, ParentInside
<1>2. Keys[HEAP_PARENT(s)] <= Keys[s]
  BY DEF OrderInv, InOrder
<1>3. QED BY <1>1, <1>2, KeysType

\* An exchange of two nodes exchanges their keys.
LEMMA ExchangeKeys ==
  ASSUME ShapeInv, NEW a \in Slots, NEW b \in Slots, a # b, Exchange(a, b),
         UNCHANGED loopVars
  PROVE  Slots' = Slots /\ Keys' = [Keys EXCEPT ![a] = Keys[b], ![b] = Keys[a]]
<1>1. heap \in [Slots -> Hnode] BY DEF ShapeInv, TypeOK
<1>2. Slots' = Slots /\ next_timer' = next_timer
  BY DEF loopVars, Slots
<1>3. heap' = [heap EXCEPT ![a] = heap[b], ![b] = heap[a]]
  BY DEF Exchange
<1>4. QED BY <1>1, <1>2, <1>3 DEF Keys

\* Where a loop of the heap stops, the order is whole again.
LEMMA SettleOrder ==
  ASSUME \A s \in Slots : InOrder(Keys, s), sift' = NoSift,
         UNCHANGED <<heap, ids_arr, loopVars>>
  PROVE  OrderInv'
<1>1. Slots' = Slots /\ Keys' = Keys
  BY DEF loopVars, Slots, Keys
<1>2. QED BY <1>1 DEF OrderInv, NoSift

\* filter_up moves the only place where the order may be broken to the parent,
\* or mends it.
LEMMA FilterUpOrder == ShapeInv /\ OrderInv /\ filter_up => OrderInv'
<1> SUFFICES ASSUME ShapeInv, OrderInv, filter_up PROVE OrderInv'
  OBVIOUS
<1> DEFINE pos == sift.pos
           up  == HEAP_PARENT(pos)
<1>1. pos \in Slots /\ up \in Slots /\ UpInv(Keys, Slots, pos)
      /\ (pos # 0 => pos # up)
  <2>1. pos \in Slots
    BY DEF filter_up, ShapeInv, LoopInHeap, Settled
  <2>2. UpInv(Keys, Slots, pos) BY DEF filter_up, OrderInv
  <2> HIDE DEF pos
  <2>3. QED BY <2>1, <2>2, KeysType, ParentInside
<1>2. CASE pos = 0 \/ Before(heap[up], heap[pos])
  <2>1. sift' = NoSift /\ UNCHANGED <<heap, ids_arr, loopVars>>
    BY <1>2 DEF filter_up
  <2>2. pos = 0 \/ Keys[up] < Keys[pos] BY <1>1, <1>2, KeysType
  <2> HIDE DEF pos
  <2>3. \A s \in Slots : InOrder(Keys, s)
    BY <1>1, <2>2, KeysType, UpEnds
  <2>4. QED BY <2>1, <2>3, SettleOrder
<1>3. CASE ~(pos = 0 \/ Before(heap[up], heap[pos]))
  <2>1. /\ Exchange(pos, up) /\ UNCHANGED loopVars
        /\ sift' = [dir |-> "up", pos |-> up]
    BY <1>3 DEF filter_up
  <2> HIDE DEF pos, up
  <2>2. Slots' = Slots /\ Keys' = [Keys EXCEPT ![pos] = Keys[up], ![up] = Keys[pos]]
    BY <1>1, <1>3, <2>1, ExchangeKeys
  <2>3. Keys[pos] <= Keys[up] /\ pos # 0
    BY <1>1, <1>3, KeysType
  <2>4. UpInv(Keys', Slots, up)
    BY <1>1, <2>2, <2>3, KeysType, UpStep DEF up
  <2>5. QED BY <2>1, <2>2, <2>4 DEF OrderInv, Settled
<1>4. QED BY <1>2, <1>3

\* filter_down moves the only place below which the order may be broken to the
\* earlier child, or mends it.
LEMMA FilterDownOrder == ShapeInv /\ OrderInv /\ filter_down => OrderInv'
<1> SUFFICES ASSUME ShapeInv, OrderInv, filter_down PROVE OrderInv'
  OBVIOUS
<1> DEFINE pos   == sift.pos
           left  == HEAP_LCHILD(pos)
           child == EarlierChild(pos)
<1>1. pos \in Slots /\ pos \in Nat /\ DownInv(Keys, Slots, pos)
  <2>1. pos \in Slots
    BY DEF filter_down, ShapeInv, LoopInHeap, Settled
  <2>2. DownInv(Keys, Slots, pos) BY DEF filter_down, OrderInv
  <2>3. QED BY <2>1, <2>2, KeysType
<1>2. /\ left \in Nat /\ left > pos
      /\ \A r \in Nat \ {0} : HEAP_PARENT(r) = pos <=> r = left \/ r = left + 1
  <2> HIDE DEF pos
  <2>1. QED BY <1>1, ParentChild
<1>3. CASE left \notin Slots
  <2>1. sift' = NoSift /\ UNCHANGED <<heap, ids_arr, loopVars>>
    BY <1>3 DEF filter_down
  <2> HIDE DEF pos, left
  <2>2. left + 1 \notin Slots BY <1>2, <1>3, KeysType
  <2>3. \A s \in Slots : s # 0 => HEAP_PARENT(s) # pos
    BY <1>2, <1>3, <2>2, KeysType
  <2>4. \A s \in Slots : InOrder(Keys, s)
    BY <1>1, <2>3, KeysType, DownEnds
  <2>5. QED BY <2>1, <2>4, SettleOrder
<1>4. CASE left \in Slots
  <2>1. /\ child \in Slots /\ child # 0 /\ child # pos
        /\ HEAP_PARENT(child) = pos
        /\ \A s \in Slots : s # 0 /\ HEAP_PARENT(s) = pos => Keys[child] <= Keys[s]
    <3>1. child = IF left + 1 \in Slots /\ Before(heap[left + 1], heap[left])
                  THEN left + 1 ELSE left
      BY DEF EarlierChild
    <3> HIDE DEF pos, left, child
    <3>2. child \in Slots /\ child # 0 /\ child # pos /\ HEAP_PARENT(child) = pos
      BY <1>1, <1>2, <1>4, <3>1
    <3>3. Keys[child] <= Keys[left]
      BY <1>4, <3>1, KeysType
    <3>4. left + 1 \in Slots => Keys[child] <= Keys[left + 1]
      BY <1>4, <3>1, KeysType
    <3>5. QED BY <1>2, <3>2, <3>3, <3>4, KeysType
  <2>2. CASE Before(heap[pos], heap[child])
    <3>1. sift' = NoSift /\ UNCHANGED <<heap, ids_arr, loopVars>>
      BY <2>2 DEF filter_down
    <3> HIDE DEF pos, left, child
    <3>2. Keys[pos] < Keys[child] BY <1>1, <2>1, <2>2, KeysType
    <3>3. \A s \in Slots : s # 0 /\ HEAP_PARENT(s) = pos => Keys[pos] <= Keys[s]
      BY <1>1, <2>1, <3>2, KeysType
    <3>4. \A s \in Slots : InOrder(Keys, s)
      BY <1>1, <3>3, KeysType, DownEnds
    <3>5. QED BY <3>1, <3>4, SettleOrder
  <2>3. CASE ~Before(heap[pos], heap[child])
    <3>1. /\ Exchange(pos, child) /\ UNCHANGED loopVars
          /\ sift' = [dir |-> "down", pos |-> child]
      BY <1>4, <2>3 DEF filter_down
    <3> HIDE DEF pos, left, child
    <3>2. /\ Slots' = Slots
          /\ Keys' = [Keys EXCEPT ![pos] = Keys[child], ![child] = Keys[pos]]
      BY <1>1, <2>1, <3>1, ExchangeKeys
    <3>3. Keys[child] <= Keys[pos] BY <1>1, <2>1, <2>3, KeysType
    <3>4. DownInv(Keys', Slots, child)
      BY <1>1, <2>1, <3>2, <3>3, KeysType, DownStep
    <3>5. QED BY <3>1, <3>2, <3>4 DEF OrderInv, Settled
  <2>4. QED BY <2>2, <2>3
<1>5. QED BY <1>3, <1>4

\* A node placed at the end can be out of order only there.
LEMMA PlaceOrder ==
  ASSUME ShapeInv, OrderInv, Settled, NEW nd \in Hnode, PlaceAtEnd(nd),
         curr_heap_size < max_heap_size,
         \A s \in Slots : next_timer'[heap[s].ctx] = next_timer[heap[s].ctx]
  PROVE  OrderInv'
<1> DEFINE n == curr_heap_size
<1>1. /\ Slots' = Slots \cup {n} /\ n \notin Slots /\ n \in Nat
      /\ \A s \in Slots : heap'[s] = heap[s]
      /\ sift' = [dir |-> "up", pos |-> n]
  BY PlaceEffect, KeysType
<1>2. Slots = 0 .. n - 1
  BY DEF Slots
<1>3. \A s \in Slots : Keys'[s] = Keys[s]
  BY <1>1 DEF Keys
<1>4. ASSUME NEW s \in Slots', s # n PROVE InOrder(Keys', s)
  <2>1. s \in Slots BY <1>1, <1>4
  <2>2. HEAP_PARENT(s) \in Slots BY <1>1, <1>2, <2>1, ParentInside
  <2>3. InOrder(Keys, s) BY <2>1 DEF OrderInv
  <2>4. QED BY <1>3, <2>1, <2>2, <2>3 DEF InOrder
<1>5. ASSUME n # 0, NEW s \in Slots', HEAP_PARENT(s) = n PROVE FALSE
  <2>1. s \in 0 .. n BY <1>1, <1>2
  <2>2. HEAP_PARENT(s) <= s /\ (s # 0 => HEAP_PARENT(s) < s) /\ (s = 0 => HEAP_PARENT(s) = 0)
    BY <1>1, <2>1 DEF HEAP_PARENT
  <2> HIDE DEF n
  <2>3. QED BY <1>1, <1>5, <2>1, <2>2
<1> HIDE DEF n
<1>6. UpInv(Keys', Slots', n)
  BY <1>4, <1>5 DEF UpInv, BelowParentOf
<1>7. QED BY <1>1, <1>6 DEF OrderInv, Settled

\* The node moved into a vacated slot can be out of order only around it.
LEMMA RemoveOrder ==
  ASSUME ShapeInv, OrderInv, Settled, NEW slot \in Slots, NEW reserve \in BOOLEAN,
         heap_remove_node(slot, reserve), UNCHANGED next_timer
  PROVE  OrderInv'
<1> DEFINE last == curr_heap_size - 1
           par  == HEAP_PARENT(slot)
<1>1. /\ last \in Slots /\ last \in Nat /\ slot \in Nat /\ slot <= last
      /\ Slots = 0 .. last /\ Slots' = 0 .. last - 1
  <2>1. curr_heap_size' = last BY DEF heap_remove_node
  <2>2. Slots = 0 .. last /\ Slots' = 0 .. last - 1 BY <2>1 DEF Slots
  <2>3. QED BY <2>2, KeysType
<1>2. heap' = [s \in 0 .. last - 1 |-> IF s = slot THEN heap[last] ELSE heap[s]]
  BY DEF heap_remove_node
<1>3. Keys' = [s \in Slots' |-> IF s = slot THEN Keys[last] ELSE Keys[s]]
  <2>1. ASSUME NEW s \in Slots'
        PROVE  next_timer[heap'[s].ctx] = IF s = slot THEN Keys[last] ELSE Keys[s]
    BY <1>1, <1>2 DEF Keys
  <2>2. Keys' = [s \in Slots' |-> next_timer[heap'[s].ctx]] BY DEF Keys
  <2> HIDE DEF last
  <2>3. QED BY <2>1, <2>2
<1>4. /\ Keys \in [Slots -> Nat]
      /\ \A s \in Slots : InOrder(Keys, s)
      /\ \A s \in Slots : HEAP_PARENT(s) \in Slots
  BY <1>1, KeysType, ParentInside DEF OrderInv
<1>5. \A s \in Slots' : /\ HEAP_PARENT(s) \in Slots' /\ s \in Slots
                        /\ s # 0 => HEAP_PARENT(s) < s
  BY <1>1, ParentInside
<1>6. CASE ~(slot < last)
  <2>1. sift' = NoSift BY <1>6 DEF heap_remove_node
  <2>2. \A s \in Slots' : s # slot BY <1>1, <1>6
  <2> HIDE DEF last, par
  <2>3. \A s \in Slots' : InOrder(Keys', s)
    BY <1>3, <1>4, <1>5, <2>2 DEF InOrder
  <2>4. QED BY <2>1, <2>3 DEF OrderInv, NoSift
<1>7. CASE slot < last
  <2>1. slot \in Slots' /\ par \in Slots'
    BY <1>1, <1>5, <1>7
  <2>2. sift' = [dir |-> FilterDir(heap[last], heap'[par]), pos |-> slot]
    BY <1>2, <1>7 DEF heap_remove_node
  <2>3. Before(heap[last], heap'[par]) <=> Keys[last] < Keys'[par]
    <3>1. Keys[last] = next_timer[heap[last].ctx] BY <1>1 DEF Keys
    <3>2. Keys'[par] = next_timer[heap'[par].ctx] BY <2>1 DEF Keys
    <3>3. QED BY <3>1, <3>2 DEF Before
  <2> HIDE DEF last
  <2>4. ASSUME NEW s \in Slots', s # slot, HEAP_PARENT(s) # slot
        PROVE  InOrder(Keys', s)
    BY <1>3, <1>4, <1>5, <2>4 DEF InOrder
  <2>5. BelowParentOf(Keys', Slots', slot)
    <3>1. SUFFICES ASSUME slot # 0, NEW s \in Slots', HEAP_PARENT(s) = slot
                   PROVE  Keys'[par] <= Keys'[s]
      BY DEF BelowParentOf
    <3>2. par < slot /\ s # slot
      <4>1. par < slot BY <1>5, <2>1, <3>1
      <4>2. QED BY <1>1, <3>1, <4>1
    <3>3. par # slot BY <1>1, <1>4, <3>2
    <3>4. Keys[par] <= Keys[slot] /\ Keys[slot] <= Keys[s]
      BY <1>4, <1>5, <3>1 DEF InOrder
    <3>5. Keys'[par] = Keys[par] /\ Keys'[s] = Keys[s]
      BY <1>3, <2>1, <3>2, <3>3
    <3> HIDE DEF par
    <3>6. Keys[par] \in Nat /\ Keys[slot] \in Nat /\ Keys[s] \in Nat
      BY <1>4, <1>5, <2>1
    <3>7. QED BY <3>4, <3>5, <3>6
  <2>6. CASE Keys[last] < Keys'[par]
    <3>1. sift' = [dir |-> "up", pos |-> slot]
      BY <2>2, <2>3, <2>6 DEF FilterDir
    <3>2. slot # 0
      <4>1. slot = 0 => par = slot BY DEF HEAP_PARENT
      <4>2. slot = 0 => Keys'[par] = Keys[last] BY <1>3, <2>1, <4>1
      <4>3. QED BY <1>1, <1>4, <2>6, <4>2
    <3>3. ASSUME NEW s \in Slots', s # slot PROVE InOrder(Keys', s)
      <4>1. CASE HEAP_PARENT(s) = slot
        <5>1. Keys'[par] <= Keys'[s]
          BY <2>5, <3>2, <4>1 DEF BelowParentOf
        <5>2. Keys'[slot] = Keys[last] /\ Keys'[s] = Keys[s] BY <1>3, <2>1, <3>3
        <5>3. Keys[last] \in Nat /\ Keys[s] \in Nat /\ Keys'[par] \in Nat
          BY <1>1, <1>3, <1>4, <1>5, <2>1
        <5> HIDE DEF par
        <5>4. QED BY <2>6, <4>1, <5>1, <5>2, <5>3 DEF InOrder
      <4>2. CASE HEAP_PARENT(s) # slot BY <2>4, <3>3, <4>2
      <4>3. QED BY <4>1, <4>2
    <3>4. UpInv(Keys', Slots', slot) BY <2>5, <3>3 DEF UpInv
    <3>5. QED BY <3>1, <3>4 DEF OrderInv, Settled
  <2>7. CASE ~(Keys[last] < Keys'[par])
    <3>1. sift' = [dir |-> "down", pos |-> slot]
      BY <2>2, <2>3, <2>7 DEF FilterDir
    <3>2. ASSUME NEW s \in Slots', HEAP_PARENT(s) # slot PROVE InOrder(Keys', s)
      <4>1. CASE s = slot
        <5>1. Keys[last] \in Nat /\ Keys'[par] \in Nat
          BY <1>1, <1>3, <1>4, <1>5, <2>1
        <5>2. Keys'[slot] = Keys[last] BY <1>3, <2>1
        <5>3. QED BY <2>7, <4>1, <5>1, <5>2 DEF InOrder
      <4>2. CASE s # slot BY <2>4, <3>2, <4>2
      <4>3. QED BY <4>1, <4>2
    <3>3. DownInv(Keys', Slots', slot) BY <2>5, <3>2 DEF DownInv
    <3>4. QED BY <3>1, <3>3 DEF OrderInv, Settled
  <2>8. QED BY <2>6, <2>7
<1>8. QED BY <1>6, <1>7

\* Every step keeps the order, or breaks it only where the loop will mend it.
LEMMA OrderStep ==
  ASSUME HasRoom, ShapeInv, OrderInv, [Next]_vars
  PROVE  OrderInv'
<1>1. CASE filter_up BY <1>1, FilterUpOrder
<1>2. CASE filter_down BY <1>2, FilterDownOrder
<1>3. ASSUME NEW t \in Timers, NEW when \in now .. MaxTime,
             tq_schedule_timer(t, when)
      PROVE  OrderInv'
  <2> DEFINE id == heap_get_node_id(IdsForPush, SizeForPush)
             nd == [node_id |-> id, ctx |-> t]
  <2>1. /\ Settled /\ PlaceAtEnd(nd)
        /\ \A s \in Slots : heap[s].ctx # t
        /\ ~(KeepsId(calling) /\ calling.ctx = t)
        /\ next_timer' = [next_timer EXCEPT ![t] = when]
    BY <1>3 DEF tq_schedule_timer, MaySchedule, Queued, heap_push_new
  <2>2. curr_heap_size < max_heap_size BY <2>1, RoomForOne
  <2>3. nd \in Hnode
    <3>1. SizeForPush = max_heap_size /\ IdsForPush = ids_arr
      BY <2>2 DEF SizeForPush, IdsForPush, ShapeInv, TypeOK
    <3>2. PICK free \in DOMAIN ids_arr : ids_arr[free] = Free
      BY <2>1, FreeIdExists
    <3>3. id \in DOMAIN ids_arr BY <3>1, <3>2, FreshId
    <3> HIDE DEF id
    <3>4. QED BY <3>3 DEF Hnode, ShapeInv, TypeOK
  <2> HIDE DEF nd, id
  <2>4. \A s \in Slots : next_timer'[heap[s].ctx] = next_timer[heap[s].ctx]
    BY <2>1 DEF ShapeInv, TypeOK, Hnode
  <2>5. QED BY <2>1, <2>2, <2>3, <2>4, PlaceOrder
<1>4. ASSUME NEW t \in Timers, NEW when \in now .. MaxTime,
             tq_schedule_timer_fails(t, when)
      PROVE  OrderInv'
  BY <1>4, NoFailure DEF tq_schedule_timer_fails
<1>5. ASSUME NEW id \in DOMAIN ids_arr, tq_cancel_timer(id) PROVE OrderInv'
  BY <1>5, RemoveOrder DEF tq_cancel_timer
<1>6. CASE DispatchBegin
  <2>1. 0 \in Slots BY <1>6, KeysType DEF DispatchBegin
  <2>2. ReservesId(heap[0]) \in BOOLEAN BY DEF ReservesId
  <2>3. QED BY <1>6, <2>1, <2>2, RemoveOrder DEF DispatchBegin
<1>7. CASE DispatchReschedule
  <2>1. /\ Settled /\ PlaceAtEnd(calling) /\ KeepsId(calling)
        /\ \E w : next_timer' = [next_timer EXCEPT ![calling.ctx] = w]
    BY <1>7 DEF DispatchReschedule, heap_push_kept
  <2>2. calling \in Hnode /\ calling.ctx \in Timers
    BY <2>1 DEF ShapeInv, TypeOK, KeepsId, Hnode
  <2>3. \A s \in Slots : heap[s].ctx # calling.ctx
    BY <2>1 DEF ShapeInv, NodesDistinct
  <2>4. curr_heap_size < max_heap_size BY <2>2, <2>3, RoomForOne
  <2>5. \A s \in Slots : next_timer'[heap[s].ctx] = next_timer[heap[s].ctx]
    BY <2>1, <2>3 DEF ShapeInv, TypeOK, Hnode
  <2>6. QED BY <2>1, <2>2, <2>4, <2>5, PlaceOrder
<1>8. CASE DispatchEnd \/ Tick \/ UNCHANGED vars
  <2>1. UNCHANGED <<heap, curr_heap_size, sift, next_timer>>
    BY <1>8 DEF DispatchEnd, Tick, vars, heapVars
  <2>2. Slots' = Slots /\ Keys' = Keys BY <2>1 DEF Slots, Keys
  <2>3. QED BY <2>1, <2>2 DEF OrderInv, Settled
<1>9. QED
  BY <1>1, <1>2, <1>3, <1>4, <1>5, <1>6, <1>7, <1>8 DEF Next

\* heap.c: the heap is ordered except at the slot a loop works on.
THEOREM OrderAlways == ASSUME HasRoom PROVE Spec => []OrderInv
<1>1. Init => OrderInv
  BY DEF Init, OrderInv, Slots, NoSift
<1>2. ShapeInv /\ OrderInv /\ [Next]_vars => OrderInv'
  BY OrderStep
<1>3. QED BY <1>1, <1>2, ShapeAlways, PTL DEF Spec

\* Between operations the heap is in order: the node that
\* tq_time_to_nearest_timer looks at expires no later than its children, and
\* so on down, also after a removal that moved a node from another subtree.
THEOREM HeapStaysOrdered == ASSUME HasRoom PROVE Spec => []HeapOrdered
<1>1. ShapeInv /\ OrderInv => HeapOrdered BY OrderIsHeapOrdered
<1>2. QED BY <1>1, ShapeAlways, OrderAlways, PTL
-----------------------------------------------------------------------------
(***************************************************************************)
(* The queue implements the timer service.                                 *)
(***************************************************************************)

\* The top of a heap in order is a nearest timer: an earlier one in the
\* lowest slot would have an earlier parent in a lower slot.
LEMMA TopIsNearest ==
  ASSUME NEW n \in Nat, NEW K \in [0 .. n - 1 -> Nat],
         \A s \in 0 .. n - 1 : InOrder(K, s), NEW s \in 0 .. n - 1
  PROVE  K[0] <= K[s]
<1> DEFINE S       == 0 .. n - 1
           Earlier == {r \in S : K[r] < K[0]}
<1>1. 0 \in S /\ S \subseteq Nat OBVIOUS
<1>2. SUFFICES ASSUME Earlier # {} PROVE FALSE
  <2>1. K[0] \in Nat /\ K[s] \in Nat BY <1>1
  <2>2. ~(K[s] < K[0]) => K[0] <= K[s] BY <2>1
  <2>3. QED BY <2>2
<1>3. PICK m \in Earlier : \A j \in Earlier : m <= j
  <2>1. Earlier \in SUBSET Nat BY <1>1
  <2>2. QED BY <1>2, <2>1, SmallestOfNats
<1>4. m \in S /\ m # 0 /\ K[m] < K[0]
  <2>1. K[0] \in Nat BY <1>1
  <2>2. QED BY <1>3, <2>1
<1>5. HEAP_PARENT(m) \in S /\ HEAP_PARENT(m) < m
  BY <1>4, ParentInside
<1>6. K[HEAP_PARENT(m)] <= K[m]
  BY <1>4 DEF InOrder
<1>7. HEAP_PARENT(m) \in Earlier
  <2>1. K[HEAP_PARENT(m)] \in Nat /\ K[m] \in Nat /\ K[0] \in Nat
    BY <1>1, <1>4, <1>5
  <2>2. QED BY <1>4, <1>5, <1>6, <2>1
<1>8. m <= HEAP_PARENT(m) BY <1>3, <1>7
<1>9. m \in Nat /\ HEAP_PARENT(m) \in Nat BY <1>1, <1>4, <1>5
<1>10. QED BY <1>5, <1>8, <1>9

\* An exchange of nodes is invisible.
LEMMA ExchangeHidden ==
  ASSUME ShapeInv, NEW a \in Slots, NEW b \in Slots, a # b, Exchange(a, b),
         UNCHANGED loopVars
  PROVE  UNCHANGED Service!vars
<1>1. heap' = [heap EXCEPT ![a] = heap[b], ![b] = heap[a]] /\ heap \in [Slots -> Hnode]
  BY ExchangeEffect DEF ShapeInv, TypeOK
<1>2. Slots' = Slots BY DEF loopVars, Slots
<1>3. Pending' = Pending BY <1>1, <1>2 DEF Pending
<1>4. QED BY <1>3 DEF Service!vars, loopVars

\* The loops of the heap exchange nodes and leave the pending timers the same.
LEMMA LoopHidden ==
  ASSUME ShapeInv, filter_up \/ filter_down
  PROVE  UNCHANGED Service!vars
<1> DEFINE pos == sift.pos
<1>1. pos \in Slots /\ pos \in Nat
  BY KeysType DEF filter_up, filter_down, ShapeInv, LoopInHeap, Settled
<1>2. CASE UNCHANGED <<heap, ids_arr, loopVars>>
  <2>1. Slots' = Slots BY <1>2 DEF loopVars, Slots
  <2>2. QED BY <1>2, <2>1 DEF Service!vars, loopVars, Pending
<1>3. CASE filter_up /\ Exchange(pos, HEAP_PARENT(pos)) /\ pos # 0
  <2>1. HEAP_PARENT(pos) \in Slots /\ HEAP_PARENT(pos) # pos
    BY <1>1, <1>3, KeysType, ParentInside
  <2>2. UNCHANGED loopVars BY <1>3 DEF filter_up
  <2> HIDE DEF pos
  <2>3. QED BY <1>1, <1>3, <2>1, <2>2, ExchangeHidden
<1>4. CASE filter_down /\ Exchange(pos, EarlierChild(pos)) /\ HEAP_LCHILD(pos) \in Slots
  <2>1. EarlierChild(pos) \in Slots /\ EarlierChild(pos) # pos
    <3>1. HEAP_LCHILD(pos) > pos /\ HEAP_LCHILD(pos) \in Nat BY <1>1, ParentChild
    <3> HIDE DEF pos
    <3>2. QED BY <1>1, <1>4, <3>1 DEF EarlierChild
  <2>2. UNCHANGED loopVars BY <1>4 DEF filter_down
  <2> HIDE DEF pos
  <2>3. QED BY <1>1, <1>4, <2>1, <2>2, ExchangeHidden
<1>5. QED BY <1>2, <1>3, <1>4 DEF filter_up, filter_down

\* The nodes that hold an id, here and in the service.
LEMMA HeldNodes ==
  \A nd : nd \in Service!Held <=> nd \in Pending \/ (KeepsId(calling) /\ nd = calling)
BY DEF Service!Held, Service!Kept, Service!NoNode, KeepsId, NoNode, Free

\* tq_schedule_timer adds one pending timer, under an id not in use.
LEMMA ScheduleImplements ==
  ASSUME HasRoom, ShapeInv, NEW t \in Timers, NEW when \in now .. MaxTime,
         tq_schedule_timer(t, when)
  PROVE  Service!Schedule(t, when)
<1> DEFINE id == heap_get_node_id(IdsForPush, SizeForPush)
           nd == [node_id |-> id, ctx |-> t]
<1>1. /\ PlaceAtEnd(nd)
      /\ \A s \in Slots : heap[s].ctx # t
      /\ ~(KeepsId(calling) /\ calling.ctx = t)
      /\ next_timer' = [next_timer EXCEPT ![t] = when]
      /\ UNCHANGED <<now, calling>>
  BY DEF tq_schedule_timer, MaySchedule, Queued, heap_push_new
<1>2. curr_heap_size < max_heap_size BY <1>1, RoomForOne
<1>3. id \in DOMAIN ids_arr /\ ids_arr[id] = Free
  <2>1. SizeForPush = max_heap_size /\ IdsForPush = ids_arr
    BY <1>2 DEF SizeForPush, IdsForPush, ShapeInv, TypeOK
  <2>2. PICK free \in DOMAIN ids_arr : ids_arr[free] = Free
    BY <1>1, FreeIdExists
  <2>3. QED BY <2>1, <2>2, FreshId
<1> HIDE DEF id
<1>4. nd \in Hnode /\ nd.node_id = id /\ nd.ctx = t
  BY <1>3 DEF Hnode, ShapeInv, TypeOK
<1>5. \A s \in Slots : heap[s].node_id # id
  BY <1>3, KeysType DEF ShapeInv, IdsUnique, Free
<1>6. KeepsId(calling) => calling.node_id # id
  BY <1>3 DEF ShapeInv, KeptIdBusy
<1> HIDE DEF nd
<1>7. Pending' = Pending \cup {nd}
  <2>1. /\ Slots' = Slots \cup {curr_heap_size}
        /\ \A s \in Slots : heap'[s] = heap[s]
        /\ heap'[curr_heap_size] = nd
    BY <1>1, <1>2, <1>4, PlaceEffect
  <2>2. QED BY <2>1 DEF Pending
<1>8. \A h \in Service!Held : h.ctx # t /\ h.node_id # nd.node_id
  BY <1>1, <1>4, <1>5, <1>6, HeldNodes DEF Pending
<1>9. id \in Nat BY <1>4 DEF Hnode
<1>10. QED BY <1>1, <1>4, <1>7, <1>8, <1>9 DEF Service!Schedule

\* What heap_remove_node takes from the pending timers.
LEMMA RemoveFromPending ==
  ASSUME ShapeInv, NEW slot \in Slots, NEW reserve \in BOOLEAN,
         heap_remove_node(slot, reserve)
  PROVE  Pending' = Pending \ {heap[slot]} /\ heap[slot] \in Pending
BY RemoveEffect DEF Pending

\* A dispatch takes a nearest timer from the pending ones.
LEMMA BeginImplements ==
  ASSUME ShapeInv, OrderInv, DispatchBegin
  PROVE  Service!Expire(heap[0]) /\ heap[0] \in Pending
<1>1. /\ 0 \in Slots /\ calling = NoNode /\ calling' = heap[0]
      /\ next_timer[heap[0].ctx] <= now
      /\ Settled
      /\ UNCHANGED <<next_timer, now>>
  BY KeysType DEF DispatchBegin, Dispatching
<1>2. Pending' = Pending \ {heap[0]} /\ heap[0] \in Pending
  <2>1. heap_remove_node(0, ReservesId(heap[0])) /\ ReservesId(heap[0]) \in BOOLEAN
    BY DEF DispatchBegin, ReservesId
  <2>2. QED BY <1>1, <2>1, RemoveFromPending
<1>3. \A s \in Slots : next_timer[heap[0].ctx] <= next_timer[heap[s].ctx]
  <2>1. \A s \in Slots : InOrder(Keys, s) BY <1>1 DEF OrderInv
  <2>2. \A s \in Slots : Keys[0] <= Keys[s]
    BY <2>1, KeysType, TopIsNearest
  <2>3. \A s \in Slots : Keys[s] = next_timer[heap[s].ctx] BY DEF Keys
  <2>4. QED BY <1>1, <2>2, <2>3
<1>4. \A other \in Pending : next_timer[heap[0].ctx] <= next_timer[other.ctx]
  BY <1>3 DEF Pending
<1>5. QED BY <1>1, <1>2, <1>4 DEF Service!Expire, Service!NoNode, NoNode, Free

\* A periodic timer comes back under its id, one period later.
LEMMA RescheduleImplements ==
  ASSUME HasRoom, ShapeInv, DispatchReschedule
  PROVE  Service!Rearm
<1>1. /\ PlaceAtEnd(calling) /\ KeepsId(calling)
      /\ next_timer' = [next_timer EXCEPT ![calling.ctx] = now + Period[calling.ctx]]
      /\ calling' = NoNode /\ UNCHANGED now
  BY DEF DispatchReschedule, heap_push_kept
<1>2. calling \in Hnode /\ calling.ctx \in Timers
  BY <1>1 DEF ShapeInv, TypeOK, KeepsId, Hnode
<1>3. curr_heap_size < max_heap_size
  <2>1. \A s \in Slots : heap[s].ctx # calling.ctx
    BY <1>1 DEF ShapeInv, NodesDistinct
  <2>2. QED BY <1>2, <2>1, RoomForOne
<1>4. Pending' = Pending \cup {calling}
  <2>1. /\ Slots' = Slots \cup {curr_heap_size}
        /\ \A s \in Slots : heap'[s] = heap[s]
        /\ heap'[curr_heap_size] = calling
    BY <1>1, <1>2, <1>3, PlaceEffect
  <2>2. QED BY <2>1 DEF Pending
<1>5. Service!Kept # {}
  BY <1>1 DEF Service!Kept, Service!NoNode, KeepsId, NoNode, Free
<1>6. QED
  BY <1>1, <1>4, <1>5 DEF Service!Rearm, Service!NoNode, NoNode, Free

\* Every step of the queue is a step of the service or is hidden from it.
LEMMA StepImplements ==
  ASSUME HasRoom, ShapeInv, OrderInv, [Next]_vars
  PROVE  [Service!Next]_(Service!vars)
<1>1. CASE filter_up \/ filter_down BY <1>1, LoopHidden
<1>2. ASSUME NEW t \in Timers, NEW when \in now .. MaxTime,
             tq_schedule_timer(t, when)
      PROVE  Service!Next
  BY <1>2, ScheduleImplements DEF Service!Next
<1>3. ASSUME NEW t \in Timers, NEW when \in now .. MaxTime,
             tq_schedule_timer_fails(t, when)
      PROVE  FALSE
  BY <1>3, NoFailure DEF tq_schedule_timer_fails
<1>4. ASSUME NEW id \in DOMAIN ids_arr, tq_cancel_timer(id)
      PROVE  Service!Next
  <2>1. /\ ids_arr[id] \in Slots
        /\ heap_remove_node(ids_arr[id], FALSE)
        /\ UNCHANGED <<next_timer, now, calling>>
    BY <1>4 DEF tq_cancel_timer
  <2>2. Service!Cancel(heap[ids_arr[id]]) /\ heap[ids_arr[id]] \in Pending
    BY <2>1, RemoveFromPending DEF Service!Cancel
  <2>3. QED BY <2>2 DEF Service!Next
<1>5. CASE DispatchBegin BY <1>5, BeginImplements DEF Service!Next
<1>6. CASE DispatchReschedule BY <1>6, RescheduleImplements DEF Service!Next
<1>7. CASE DispatchEnd
  <2>1. Pending' = Pending
    BY <1>7 DEF DispatchEnd, Pending, Slots
  <2>2. Service!Finish
    BY <1>7, <2>1 DEF DispatchEnd, Dispatching, Service!Finish, Service!NoNode,
                      NoNode, Free
  <2>3. QED BY <2>2 DEF Service!Next
<1>8. CASE Tick
  <2>1. Pending' = Pending
    BY <1>8 DEF Tick, heapVars, Pending, Slots
  <2>2. Service!Tick
    BY <1>8, <2>1 DEF Tick, Dispatching, Service!Tick, Service!NoNode, NoNode, Free
  <2>3. QED BY <2>2 DEF Service!Next
<1>9. CASE UNCHANGED vars
  BY <1>9 DEF vars, heapVars, Service!vars, Pending, Slots
<1>10. QED
  BY <1>1, <1>2, <1>3, <1>4, <1>5, <1>6, <1>7, <1>8, <1>9 DEF Next

\* The queue, with its heap and id table hidden, is a timer service.
THEOREM QueueImplementsService == ASSUME HasRoom PROVE Spec => ServiceSpec
<1>1. Init => Service!Init
  BY DEF Init, Pending, Slots, Service!Init, Service!NoNode, NoNode, Free
<1>2. ShapeInv /\ OrderInv /\ [Next]_vars => [Service!Next]_(Service!vars)
  BY StepImplements
<1>3. QED
  BY <1>1, <1>2, ShapeAlways, OrderAlways, PTL DEF Spec, ServiceSpec, Service!Spec
=============================================================================
