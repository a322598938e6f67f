----------------------------- MODULE ObjectPool -----------------------------
(***************************************************************************)
(* What mpool.h promises the users of a memory pool, without lists and     *)
(* blocks: an object taken is in nobody else's hands, an object returned   *)
(* may be taken again, and the pool gives its memory back only when every  *)
(* object has been returned.                                               *)
(***************************************************************************)
EXTENDS Integers

CONSTANTS Objects

VARIABLES
  owned,    \* objects the pool has got from the system
  out,      \* objects in the hands of users
  got       \* the object of the latest request, 0 if it was refused

vars == <<owned, out, got>>

Init == owned = {} /\ out = {} /\ got = 0

\* The pool gets objects from the system.
Grow ==
  /\ owned \subseteq owned'
  /\ owned' \subseteq Objects
  /\ UNCHANGED <<out, got>>

\* A user takes an object that nobody has; the pool may have grown for it.
Take(o) ==
  /\ owned \subseteq owned'
  /\ owned' \subseteq Objects
  /\ o \in owned' \ out
  /\ out' = out \cup {o}
  /\ got' = o

\* A request is refused, at most if no object is left to give.
Refuse ==
  /\ owned = out
  /\ got' = 0
  /\ UNCHANGED <<owned, out>>

Return(o) ==
  /\ o \in out
  /\ out' = out \ {o}
  /\ UNCHANGED <<owned, got>>

\* Memory goes back, with no object in use.
Release ==
  /\ out = {}
  /\ owned' \subseteq owned
  /\ UNCHANGED <<out, got>>

Next ==
  \/ Grow
  \/ \E o \in Objects : Take(o) \/ Return(o)
  \/ Refuse
  \/ Release

Spec == Init /\ [][Next]_vars
=============================================================================
