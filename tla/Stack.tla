-------------------------------- MODULE Stack --------------------------------
(***************************************************************************)
(* What the interlocked singly linked lists promise: a stack of entries    *)
(* whose operations take effect at one moment each, with an exact depth.   *)
(* An entry is on the stack or in the hands of one thread.                 *)
(***************************************************************************)
EXTENDS Integers, Sequences

CONSTANTS Thread, Entry, NoThread

VARIABLES
  items,    \* the stack, top first
  depth,    \* what a query of the depth returns
  owner     \* who has each entry, NoThread for those on the stack

vars == <<items, depth, owner>>

Init ==
  /\ items = <<>> /\ depth = 0
  /\ owner \in [Entry -> Thread]

Push(t, e) ==
  /\ owner[e] = t
  /\ items' = <<e>> \o items
  /\ depth' = depth + 1
  /\ owner' = [owner EXCEPT ![e] = NoThread]

Pop(t) ==
  /\ items # <<>>
  /\ items' = Tail(items)
  /\ depth' = depth - 1
  /\ owner' = [owner EXCEPT ![Head(items)] = t]

\* The whole stack goes to one thread.
Flush(t) ==
  /\ items' = <<>> /\ depth' = 0
  /\ owner' = [e \in Entry |-> IF \E i \in DOMAIN items : items[i] = e THEN t ELSE owner[e]]

Next == \E t \in Thread : Pop(t) \/ Flush(t) \/ \E e \in Entry : Push(t, e)

Spec == Init /\ [][Next]_vars
===============================================================================
