-------------------------------- MODULE Ring --------------------------------
(***************************************************************************)
(* The lock-free ring that hands the client's requests to its sender       *)
(* threads (clients/common/ring.cpp).  Producers and consumers claim a     *)
(* slot by moving a head index with a compare-and-swap, use the slot, and  *)
(* move the tail index when every earlier claim has moved it.  With one    *)
(* producer or one consumer that side needs neither.                       *)
(*                                                                         *)
(* Every load, compare-and-swap and store is a step of its own; memory is  *)
(* sequentially consistent.  Indices are unsigned and wrap around.         *)
(***************************************************************************)
EXTENDS Integers, Sequences, FiniteSets

CONSTANTS
  Producers, Consumers,
  Types,     \* the ring types that are tried
  Size,      \* slots, a power of two
  Wrap,      \* an index wraps around here: 2^32 in the code
  Start,     \* the value of the indices to begin with
  MaxPuts    \* bound: items that are enqueued

NoItem   == 0
Capacity == Size - 1
Plus(a, b)  == (a + b) % Wrap
Minus(a, b) == (a - b) % Wrap

VARIABLES
  type,                \* RingType
  prodHead, prodTail,  \* claimed and published by producers
  consHead, consTail,  \* claimed and released by consumers
  slots,
  pc, at, item,        \* of a thread: where it is, its claimed index, its item
  puts                 \* items that producers have begun to enqueue: item n is the n-th

indices == <<prodHead, prodTail, consHead, consTail>>
vars    == <<type, indices, slots, pc, at, item, puts>>
Threads == Producers \cup Consumers

SingleProducer == type \in {"SP_SC", "SP_MC"}
SingleConsumer == type \in {"SP_SC", "MP_SC"}

(* Who uses the ring: one thread on a side that is declared single. *)
ActiveProducers == IF SingleProducer THEN {CHOOSE p \in Producers : TRUE} ELSE Producers
ActiveConsumers == IF SingleConsumer THEN {CHOOSE c \in Consumers : TRUE} ELSE Consumers

Init ==
  /\ type \in Types
  /\ prodHead = Start /\ prodTail = Start /\ consHead = Start /\ consTail = Start
  /\ slots = [i \in 0..(Size - 1) |-> NoItem]
  /\ pc = [t \in Threads |-> "idle"]
  /\ at = [t \in Threads |-> Start]
  /\ item = [t \in Threads |-> NoItem]
  /\ puts = 0

Goto(t, l) == pc' = [pc EXCEPT ![t] = l]

(* The call returns: its local variables are gone. *)
Return(t) ==
  /\ Goto(t, "idle")
  /\ at' = [at EXCEPT ![t] = Start]
  /\ item' = [item EXCEPT ![t] = NoItem]

-----------------------------------------------------------------------------
(* Ring::Enqueue.                                                          *)

EnqueueCalled(p) ==
  /\ pc[p] = "idle" /\ puts < MaxPuts
  /\ puts' = puts + 1
  /\ item' = [item EXCEPT ![p] = puts + 1]
  /\ Goto(p, "load")
  /\ UNCHANGED <<type, indices, slots, at>>

LoadProdHead(p) ==
  /\ pc[p] = "load"
  /\ at' = [at EXCEPT ![p] = prodHead]
  /\ Goto(p, "space")
  /\ UNCHANGED <<type, indices, slots, item, puts>>

(* Mutant: a slot counts as free when a consumer has claimed it. *)
CheckSpaceClaimed(p) ==
  /\ pc[p] = "space"
  /\ Goto(p, IF Minus(Plus(Capacity, consHead), at[p]) = 0 THEN "load" ELSE "claim")
  /\ UNCHANGED <<type, indices, slots, at, item, puts>>

(* capacity_ + cons_tail - prod_head <= 0, unsigned.  When the ring is     *)
(* full the callers try again, with the same item.                         *)
CheckSpace(p) ==
  /\ pc[p] = "space"
  /\ Goto(p, IF Minus(Plus(Capacity, consTail), at[p]) = 0 THEN "load" ELSE "claim")
  /\ UNCHANGED <<type, indices, slots, at, item, puts>>

ClaimPut(p) ==
  /\ pc[p] = "claim"
  /\ IF SingleProducer \/ prodHead = at[p]
     THEN prodHead' = Plus(at[p], 1) /\ Goto(p, "write")
     ELSE Goto(p, "load") /\ UNCHANGED prodHead
  /\ UNCHANGED <<type, prodTail, consHead, consTail, slots, at, item, puts>>

WriteSlot(p) ==
  /\ pc[p] = "write"
  /\ slots' = [slots EXCEPT ![at[p] % Size] = item[p]]
  /\ Goto(p, "publish")
  /\ UNCHANGED <<type, indices, at, item, puts>>

(* Several producers publish in the order of their claims. *)
Publish(p) ==
  /\ pc[p] = "publish"
  /\ SingleProducer \/ prodTail = at[p]
  /\ prodTail' = Plus(at[p], 1)
  /\ Return(p)
  /\ UNCHANGED <<type, prodHead, consHead, consTail, slots, puts>>

-----------------------------------------------------------------------------
(* Ring::Dequeue.                                                          *)

LoadConsHead(c) ==
  /\ pc[c] = "idle"
  /\ at' = [at EXCEPT ![c] = consHead]
  /\ Goto(c, "items")
  /\ UNCHANGED <<type, indices, slots, item, puts>>

CheckItems(c) ==
  /\ pc[c] = "items"
  /\ IF Minus(prodTail, at[c]) = 0 THEN Return(c) ELSE Goto(c, "claim") /\ UNCHANGED <<at, item>>
  /\ UNCHANGED <<type, indices, slots, puts>>

ClaimTake(c) ==
  /\ pc[c] = "claim"
  /\ IF SingleConsumer \/ consHead = at[c]
     THEN consHead' = Plus(at[c], 1) /\ Goto(c, "read") /\ UNCHANGED <<at, item>>
     ELSE Return(c) /\ UNCHANGED consHead
  /\ UNCHANGED <<type, prodHead, prodTail, consTail, slots, puts>>

ReadSlot(c) ==
  /\ pc[c] = "read"
  /\ item' = [item EXCEPT ![c] = slots[at[c] % Size]]
  /\ Goto(c, "release")
  /\ UNCHANGED <<type, indices, slots, at, puts>>

Release(c) ==
  /\ pc[c] = "release"
  /\ SingleConsumer \/ consTail = at[c]
  /\ consTail' = Plus(at[c], 1)
  /\ Return(c)
  /\ UNCHANGED <<type, prodHead, prodTail, consHead, slots, puts>>

-----------------------------------------------------------------------------
Enqueue(p) ==
  LoadProdHead(p) \/ CheckSpace(p) \/ ClaimPut(p) \/ WriteSlot(p) \/ Publish(p)
Dequeue(c) ==
  LoadConsHead(c) \/ CheckItems(c) \/ ClaimTake(c) \/ ReadSlot(c) \/ Release(c)

Next ==
  \/ \E p \in ActiveProducers : EnqueueCalled(p) \/ Enqueue(p)
  \/ \E c \in ActiveConsumers : Dequeue(c)

(* The threads of either side go on running. *)
Fairness ==
  /\ \A p \in Producers : WF_vars(Enqueue(p))
  /\ \A c \in Consumers : WF_vars(Dequeue(c))

Spec == Init /\ [][Next]_vars /\ Fairness
-----------------------------------------------------------------------------
(* Properties.                                                             *)

(* Every variable has its type. *)
TypeOK ==
  /\ {prodHead, prodTail, consHead, consTail} \subseteq 0..(Wrap - 1)
  /\ \A t \in Threads : pc[t] \in {"idle", "load", "space", "items", "claim", "write", "read", "publish", "release"}
  /\ puts \in 0..MaxPuts /\ \A i \in DOMAIN slots : slots[i] \in 0..puts

(* The published items that no consumer has claimed, in order. *)
Published == [i \in 1..Minus(prodTail, consHead) |-> slots[Plus(consHead, i - 1) % Size]]

(* The item of the slot a consumer has claimed, until it releases it. *)
Claimed(c) == CASE pc[c] = "read"    -> slots[at[c] % Size]
                [] pc[c] = "release" -> item[c]
                [] OTHER             -> NoItem

Queue == INSTANCE BoundedQueue
           WITH Items <- 1..MaxPuts, queue <- Published,
                taken <- [c \in Consumers |-> Claimed(c)]

(* The ring is a bounded queue: nothing is lost, taken twice or            *)
(* overtaken, and no slot is written while a consumer still reads it,      *)
(* whatever the interleaving of producers and consumers and where the      *)
(* indices wrap around.  QueueInit and QueueStep say so of the first state *)
(* and of a step.                                                          *)
QueueInit == Queue!Init
QueueStep == [Queue!Next]_(Queue!vars)

(* An enqueue ends, although it spins for room in the ring and for the     *)
(* producers before it.                                                    *)
EnqueueEnds == []<>(\A p \in Producers : pc[p] = "idle")
=============================================================================
