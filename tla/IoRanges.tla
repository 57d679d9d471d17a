------------------------------ MODULE IoRanges ------------------------------
(***************************************************************************)
(* IoConcurrency of the client library: requests whose ranges overlap must *)
(* not be in flight together.  A request is recorded in the shard of its   *)
(* first byte; one that overlaps waits in a list, whose first request is   *)
(* tried again whenever a request is done.                                 *)
(*                                                                         *)
(* Every caller has a thread of its own.  check() holds the locks of all   *)
(* shards that it looks at, so it is one step; what comes after it is not. *)
(***************************************************************************)
EXTENDS Integers, Sequences, FiniteSets

CONSTANTS
  Reqs,       \* requests
  Off, Len_,  \* first byte and length of a request
  Reads,      \* the requests that read; the others write
  ShardBytes, \* bytes of a shard: 2^IO_SPLIT_SIZE_SHIFT in the code
  Shards      \* IO_SHARD_SIZE: a range beyond the last shard starts again at shard 0

VARIABLES
  at,      \* of a request: "new", "queueing", "pending", "sent", "removed", "done", "stuck" or "hung"
  doing,   \* IoShard::doingMap_: the requests recorded in a shard
  pending, \* pendingList_
  size,    \* pendingSize_
  mishap   \* what went wrong outside the code's assumptions (history)

vars == <<at, doing, pending, size, mishap>>

End(r)   == Off[r] + Len_[r]
First(r) == (Off[r] \div ShardBytes) % Shards
Last(r)  == ((End(r) - 1) \div ShardBytes) % Shards
Overlap(r, q) == Off[r] < End(q) /\ Off[q] < End(r)

(* The shards that check() locks, from the first to the last, around the   *)
(* end of the array.                                                       *)
Locked(r) == {s \in 0..(Shards - 1) :
                IF First(r) <= Last(r) THEN First(r) <= s /\ s <= Last(r)
                                       ELSE s >= First(r) \/ s <= Last(r)}

Init ==
  /\ at = [r \in Reqs |-> "new"]
  /\ doing = [s \in 0..(Shards - 1) |-> {}]
  /\ pending = <<>>
  /\ size = 0
  /\ mishap = {}

-----------------------------------------------------------------------------
(* Mutant: the neighbour on the left is not looked at. *)
CheckRight(s, r) ==
  \A q \in doing[s] :
    Off[q] >= Off[r] /\ (\A p \in doing[s] : Off[p] >= Off[r] => Off[p] >= Off[q]) => Off[q] >= End(r)

(* IoShard::Check looks at two neighbours: the first range that does not   *)
(* begin before the request, and the range before that.                    *)
Check(s, r) ==
  LET right == {q \in doing[s] : Off[q] >= Off[r]}
      left  == {q \in doing[s] : Off[q] < Off[r]}
  IN  /\ \A q \in right : (\A p \in right : Off[p] >= Off[q]) => Off[q] >= End(r)
      /\ \A q \in left : (\A p \in left : Off[p] <= Off[q]) => End(q) <= Off[r]

(* IoConcurrency::check: every shard of the range is looked at.            *)
check(r) == \A s \in Locked(r) : Check(s, r)

(* The loop over the shards runs downwards to the first one.  When the     *)
(* first is the last of the array and the range goes on in shard 0, the    *)
(* loop steps over it, and ends only at a shard with an overlap.           *)
Endless(r) == First(r) = Shards - 1 /\ Last(r) < First(r)

(* A thread that loops for ever keeps its locks, also the lock of the list *)
(* when it tried a waiting request.                                        *)
Unlocked(r) == \A q \in Reqs : at[q] \in {"stuck", "hung"} => Locked(q) \cap Locked(r) = {}
ListFree    == \A q \in Reqs : at[q] # "hung"

Insert(r) == doing' = [doing EXCEPT ![First(r)] = @ \cup {r}]

(* The earlier of two requests reaches into the shard where the later one  *)
(* starts: there it is not recorded.                                       *)
Unseen(r) == \E q \in Reqs : /\ at[q] = "sent" /\ Overlap(q, r) /\ First(q) # First(r)
                             /\ \A s \in Locked(r) : q \notin doing[s]

(* The request is recorded, unless its thread loops for ever. *)
Start(r) ==
  /\ IF Endless(r) THEN UNCHANGED doing ELSE Insert(r)
  /\ mishap' = mishap \cup (IF Unseen(r) THEN {"unseen"} ELSE {})

SendRequest(r) ==
  /\ at[r] = "new" /\ Unlocked(r)
  /\ IF check(r)
     THEN at' = [at EXCEPT ![r] = IF Endless(r) THEN "stuck" ELSE "sent"] /\ Start(r)
     ELSE at' = [at EXCEPT ![r] = "queueing"] /\ UNCHANGED <<doing, mishap>>
  /\ UNCHANGED <<pending, size>>

SendReadRequest(r)  == r \in Reads /\ SendRequest(r)
SendWriteRequest(r) == r \notin Reads /\ SendRequest(r)

(* Into the list, after the locks of the shards were given back: what the  *)
(* request overlaps with may be done by now.                               *)
Enqueue(r) ==
  /\ at[r] = "queueing" /\ ListFree
  /\ size' = size + 1
  /\ pending' = Append(pending, r)
  /\ at' = [at EXCEPT ![r] = "pending"]
  /\ mishap' = mishap \cup (IF \A q \in Reqs : at[q] \notin {"sent", "removed"}
                            THEN {"missed"} ELSE {})
  /\ UNCHANGED doing

(* A request is done: its range is erased ... *)
remove(r) ==
  /\ at[r] = "sent" /\ Unlocked(r)
  /\ doing' = [doing EXCEPT ![First(r)] = @ \ {r}]
  /\ at' = [at EXCEPT ![r] = "removed"]
  /\ UNCHANGED <<pending, size, mishap>>

OnReadDone(r)  == r \in Reads /\ remove(r)
OnWriteDone(r) == r \notin Reads /\ remove(r)

(* ... and the first of the waiting requests is tried, no other one.       *)
schedulePending(r) ==
  /\ at[r] = "removed" /\ ListFree
  /\ IF size = 0 \/ pending = <<>>
     THEN at' = [at EXCEPT ![r] = "done"] /\ UNCHANGED <<doing, pending, size, mishap>>
     ELSE LET q == Head(pending)
          IN  /\ Unlocked(q)
              /\ IF check(q)
                 THEN /\ at' = IF Endless(q) THEN [at EXCEPT ![q] = "hung"]
                              ELSE [at EXCEPT ![r] = "done", ![q] = "sent"]
                      /\ Start(q)
                      /\ pending' = Tail(pending)
                      /\ size' = size - 1
                 ELSE at' = [at EXCEPT ![r] = "done"] /\ UNCHANGED <<doing, pending, size, mishap>>

-----------------------------------------------------------------------------
Work(r) == Enqueue(r) \/ OnReadDone(r) \/ OnWriteDone(r) \/ schedulePending(r)
Next == \E r \in Reqs : SendReadRequest(r) \/ SendWriteRequest(r) \/ Work(r)

(* Requests that were sent come back, and threads go on. *)
Fairness == WF_vars(\E r \in Reqs : Work(r))
Spec == Init /\ [][Next]_vars /\ Fairness
-----------------------------------------------------------------------------
(* Properties.                                                             *)

(* Every variable has its type. *)
TypeOK ==
  /\ \A r \in Reqs : at[r] \in {"new", "queueing", "pending", "sent", "removed", "done", "stuck", "hung"}
  /\ size \in 0..Cardinality(Reqs)
  /\ \A s \in DOMAIN doing : doing[s] \subseteq Reqs

(* Requests that overlap are not in flight together, whoever sent them and *)
(* whether they waited or not, unless the earlier one reaches over a shard *)
(* boundary into the shard where the later one starts.                     *)
NoOverlap ==
  "unseen" \notin mishap =>
    \A r, q \in Reqs : r # q /\ at[r] = "sent" /\ at[q] = "sent" => ~ Overlap(r, q)

(* A request that waits is sent in the end, unless the request in its way  *)
(* was done between the check and the queueing, or a thread loops for ever *)
(* with the locks of a shard.                                              *)
WaitersSent ==
  []<>(\/ \A r \in Reqs : at[r] # "pending"
       \/ "missed" \in mishap
       \/ \E q \in Reqs : at[q] \in {"stuck", "hung"})
=============================================================================
