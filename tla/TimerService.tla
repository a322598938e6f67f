---------------------------- MODULE TimerService ----------------------------
(***************************************************************************)
(* What timer_queue.h promises its callers, without the heap: a set of     *)
(* pending timers, each with an id its caller may cancel it by.  A timer   *)
(* node is pending at most once, an id in use is given to nobody else, and *)
(* the timer dispatched is one of the nearest.                             *)
(***************************************************************************)
EXTENDS Integers

CONSTANTS Timers, NoTimer, Period, MaxTime

VARIABLES
  pending,     \* nodes [node_id, ctx] of the pending timers
  next_timer,  \* the expiration time in each timer node
  now,
  calling      \* the node whose handler runs, NoNode if none

vars == <<pending, next_timer, now, calling>>

NoNode == [node_id |-> -1, ctx |-> NoTimer]

\* The node of a periodic timer whose handler runs keeps its id.
Kept == {nd \in {calling} \ {NoNode} : Period[nd.ctx] > 0}
Held == pending \cup Kept

Init ==
  /\ pending = {}
  /\ next_timer = [t \in Timers |-> 0]
  /\ now = 0
  /\ calling = NoNode

\* A timer that is not held becomes pending, under an id that is not held.
Schedule(t, when) ==
  /\ \A nd \in Held : nd.ctx # t
  /\ \E new \in pending' : /\ new.ctx = t
                           /\ new.node_id \in Nat
                           /\ \A nd \in Held : nd.node_id # new.node_id
                           /\ pending' = pending \cup {new}
  /\ next_timer' = [next_timer EXCEPT ![t] = when]
  /\ UNCHANGED <<now, calling>>

\* The timer with the id of nd, and no other, is pending no more.
Cancel(nd) ==
  /\ nd \in pending
  /\ pending' = pending \ {nd}
  /\ UNCHANGED <<next_timer, now, calling>>

\* The handler of an expired timer is called; no pending timer is nearer.
Expire(nd) ==
  /\ calling = NoNode
  /\ nd \in pending
  /\ next_timer[nd.ctx] <= now
  /\ \A other \in pending : next_timer[nd.ctx] <= next_timer[other.ctx]
  /\ pending' = pending \ {nd}
  /\ calling' = nd
  /\ UNCHANGED <<next_timer, now>>

\* A periodic timer is pending again, under its own id, a period from now.
Rearm ==
  /\ Kept # {}
  /\ pending' = pending \cup {calling}
  /\ next_timer' = [next_timer EXCEPT ![calling.ctx] = now + Period[calling.ctx]]
  /\ calling' = NoNode
  /\ UNCHANGED now

\* The handler returns and its timer is done.
Finish ==
  /\ calling # NoNode
  /\ calling' = NoNode
  /\ UNCHANGED <<pending, next_timer, now>>

Tick ==
  /\ calling = NoNode
  /\ now < MaxTime
  /\ now' = now + 1
  /\ UNCHANGED <<pending, next_timer, calling>>

Next ==
  \/ \E t \in Timers, when \in now .. MaxTime : Schedule(t, when)
  \/ \E nd \in pending : Cancel(nd) \/ Expire(nd)
  \/ Rearm
  \/ Finish
  \/ Tick

Spec == Init /\ [][Next]_vars
=============================================================================
