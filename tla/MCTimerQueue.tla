---------------------------- MODULE MCTimerQueue ----------------------------
(***************************************************************************)
(* Instances of TimerQueue for TLC: a queue with room for its client       *)
(* timers, which are one-shot, and for a periodic one; and a deep queue    *)
(* whose client timers are numbers.                                        *)
(***************************************************************************)
EXTENDS TimerQueue, TLC

CONSTANTS c1, c2, c3, rate

\* Three clients and a periodic timer, in a queue that has room for them.
ClientTimers == {c1, c2, c3}
RoomyTimers == ClientTimers \cup {rate}

RoomyPeriod == [t \in RoomyTimers |-> IF t \in ClientTimers THEN 0 ELSE 1]

\* Client timers are interchangeable.
Clients == Permutations(ClientTimers)

\* Enough clients for a removed node to be replaced from another subtree,
\* and one more than the queue has slots for.  They are scheduled in the
\* order of their ids (1, 2, .., 5, 0), and nothing is scheduled any more once
\* a timer has left the queue, until it is empty.
DeepTimers == 0 .. 6
DeepPeriod == [t \in DeepTimers |-> 0]

FillFirst ==
  curr_heap_size' > curr_heap_size =>
    /\ ids_last = curr_heap_size
    /\ heap'[curr_heap_size].ctx = ids_last'
=============================================================================
