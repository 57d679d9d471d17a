---------------------------- MODULE BoundedQueue ----------------------------
(***************************************************************************)
(* What the client's Ring promises: a first-in first-out queue of at most  *)
(* Capacity items, from which every item is taken once, by one consumer.   *)
(***************************************************************************)
EXTENDS Naturals, Sequences

CONSTANTS Items, Consumers, Capacity, NoItem

VARIABLES
  queue,   \* the items that were put and not taken
  taken    \* the item that a consumer has taken and not yet returned

vars == <<queue, taken>>

Init == queue = <<>> /\ taken = [c \in Consumers |-> NoItem]

Put(x) ==
  /\ Len(queue) < Capacity
  /\ queue' = Append(queue, x)
  /\ UNCHANGED taken

Take(c) ==
  /\ queue # <<>> /\ taken[c] = NoItem
  /\ taken' = [taken EXCEPT ![c] = Head(queue)]
  /\ queue' = Tail(queue)

Return(c) ==
  /\ taken[c] # NoItem
  /\ taken' = [taken EXCEPT ![c] = NoItem]
  /\ UNCHANGED queue

Next == (\E x \in Items : Put(x)) \/ (\E c \in Consumers : Take(c) \/ Return(c))

Spec == Init /\ [][Next]_vars
=============================================================================
