------------------------------ MODULE ExtentIO ------------------------------
(***************************************************************************)
(* The I/O path of one extent server, from the RPC to the device and back: *)
(* ExtentIOServiceImpl, StorageEngine, ReplicateEngine, Request and        *)
(* RequestMgr, BareEngine, SpdkMgr and SpdkWorker.                         *)
(*                                                                         *)
(* A call runs in its own bthread: it takes a Request from the pool,       *)
(* passes the checks, sends a write to the secondaries and hands the       *)
(* Request to the workers' ring.  A worker gives it an IO unit, submits it *)
(* to the device and polls for its completion.  The Request of a write is  *)
(* shared by 1 + Cardinality(Secondaries) references: the local one, which *)
(* goes from the handler to the worker, and one for each replicate RPC.    *)
(* Each ends with SetResult and the user callback; the last one answers.   *)
(*                                                                         *)
(* All writes are to one block, so that disk[n] is the write that node n   *)
(* holds.  ExtentLocation models where the block is.                       *)
(***************************************************************************)
EXTENDS Integers, FiniteSets, Sequences

CONSTANTS
  Writes,       \* Write RPCs
  Reads,        \* Read RPCs
  Others,       \* Delete, Scrub and Replicate RPCs
  Reqs,         \* the Request objects of the pool
  Workers,      \* the SpdkWorkers
  Secondaries,  \* the other replicas of the extent
  Primary,      \* this extent server
  IOUnits,      \* IO units of one worker
  RingSize,     \* spdk_request_ring_size
  BatchNums,    \* kBatchNums
  MaxCopies,    \* bound: copies of one replicate request under way
  None

Calls == Writes \cup Reads \cup Others
Nodes == Secondaries \cup {Primary}
Local == Primary
Refs  == Nodes

ASSUME ConstantsAssumption ==
  /\ Writes \cap Reads = {} /\ Writes \cap Others = {} /\ Reads \cap Others = {}
  /\ Primary \notin Secondaries
  /\ None \notin Calls \cup Reqs \cup Workers \cup Nodes
  /\ IsFiniteSet(Secondaries)
  /\ IOUnits \in Nat \ {0} /\ RingSize \in Nat /\ BatchNums \in Nat \ {0} /\ MaxCopies \in Nat \ {0}

VARIABLES
  answer,   \* answer[c]: the status of c's response, "none" before done runs
  answers,  \* answers[c]: how often c's done closure ran
  ptr,      \* ptr[c]: the Request that the threads working for c point to
  req,      \* the Requests: owner (op_ctx), result_, ref_count_, io_unit_
  at,       \* at[c][a]: where reference a of call c is
  ring,     \* task_queue_
  batch,    \* batch[w]: reqs[i..count) of worker w's loop
  busy,     \* busy[w]: the call whose completion or failure worker w is handling
  units,    \* units[w]: free IO units of worker w
  net,      \* net[c][s]: copies of c's replicate request under way to s
  disk,     \* disk[n]: the last write that reached node n's device
  applied,  \* applied[c]: the nodes that write c reached (history)
  alone,    \* the writes that began when no other write could reach a disk (history)
  last,     \* the write accepted last (history)
  lost      \* the calls of which a failure was overwritten in result_ (history)

vars == <<answer, answers, ptr, req, at, ring, batch, busy, units, net, disk,
          applied, alone, last, lost>>

history == <<applied, alone, last, lost>>

(***************************************************************************)
(* The places of a reference.  SetResult is two steps, result_ being a     *)
(* plain bool that several threads load and store: the load leads to       *)
(* "storeT" or "storeF", the value that the store then writes.             *)
(***************************************************************************)
LocalPlaces == {"new", "run", "failed", "ring", "batch", "device", "ended",
                "errored", "storeT", "storeF", "callback", "attached", "gone"}
RpcPlaces   == {"new", "sent", "storeT", "storeF", "callback", "gone"}

FreeReq == [owner |-> None, result |-> TRUE, ref |-> 1, unit |-> None]

Request == [owner : Calls \cup {None}, result : BOOLEAN, ref : Int,
            unit : Workers \cup {None}]

R(c) == req[ptr[c]]

Init ==
  /\ answer = [c \in Calls |-> "none"]
  /\ answers = [c \in Calls |-> 0]
  /\ ptr = [c \in Calls |-> None]
  /\ req = [r \in Reqs |-> FreeReq]
  /\ at = [c \in Calls |-> [a \in Refs |-> IF a = Local THEN "new" ELSE "gone"]]
  /\ ring = <<>>
  /\ batch = [w \in Workers |-> <<>>]
  /\ busy = [w \in Workers |-> None]
  /\ units = [w \in Workers |-> IOUnits]
  /\ net = [c \in Writes |-> [s \in Secondaries |-> 0]]
  /\ disk = [n \in Nodes |-> None]
  /\ applied = [c \in Writes |-> {}]
  /\ alone = {}
  /\ last = None
  /\ lost = {}

-----------------------------------------------------------------------------
(* Responses and the pools.                                                *)

Answer(c, status) ==
  /\ answer' = [answer EXCEPT ![c] = status]
  /\ answers' = [answers EXCEPT ![c] = @ + 1]

(* done_guard answers by Result(). *)
Respond(c) == Answer(c, IF R(c).result THEN "ok" ELSE "error")

(* Mutant: WriteDone and the others forget the unit. *)
PutIOUnitLeaks(c) == c \in Calls /\ units' = units

PutIOUnit(c) ==
  units' = [w \in Workers |-> units[w] + IF R(c).unit = w THEN 1 ELSE 0]

(* Reset and PutCtxUnit. *)
PutRequest(c) == req' = [req EXCEPT ![ptr[c]] = FreeReq]

(* A worker that ran the callback itself goes back to its loop. *)
WorkerReturns(c) ==
  busy' = [w \in Workers |-> IF busy[w] = c THEN None ELSE busy[w]]

(* A write that is not answered, or of which a copy can still arrive. *)
WriteUnderWay(c) ==
  /\ c \in Writes
  /\ \/ ptr[c] # None /\ answers[c] = 0
     \/ \E s \in Secondaries : net[c][s] > 0

-----------------------------------------------------------------------------
(* The handler: Read, Write, Delete, Replicate and Scrub.                  *)

(* RequestMgr::GetRequest fails: the pool is empty. *)
NoRequest(c) ==
  /\ at[c][Local] = "new"
  /\ \A r \in Reqs : req[r].owner # None
  /\ Answer(c, "error")
  /\ at' = [at EXCEPT ![c][Local] = "gone"]
  /\ UNCHANGED <<ptr, req, ring, batch, busy, units, net, disk, history>>

(* GetRequest, then doSafetyCheck: the router is unknown, the range or the *)
(* checksum is wrong, or this server is not a replica in the right role.   *)
Refuse(c) ==
  /\ at[c][Local] = "new"
  /\ \E r \in {q \in Reqs : req[q].owner = None} :
       /\ req' = [req EXCEPT ![r] = [FreeReq EXCEPT !.owner = c]]
       /\ ptr' = [ptr EXCEPT ![c] = r]
  /\ at' = [at EXCEPT ![c][Local] = "failed"]
  /\ UNCHANGED <<answer, answers, ring, batch, busy, units, net, disk, history>>

(* Mutant: SetRefCount forgets the local reference. *)
RefCountWithoutLocal(c) == IF c \in Writes THEN Cardinality(Secondaries) ELSE 1

(* The checks pass; doReplicate sets the reference count of a write. *)
RefCount(c) == IF c \in Writes THEN 1 + Cardinality(Secondaries) ELSE 1

Accept(c) ==
  /\ at[c][Local] = "new"
  /\ \E r \in {q \in Reqs : req[q].owner = None} :
       /\ req' = [req EXCEPT ![r] = [FreeReq EXCEPT !.owner = c, !.ref = RefCount(c)]]
       /\ ptr' = [ptr EXCEPT ![c] = r]
  /\ at' = [at EXCEPT ![c] = [a \in Refs |->
              IF a = Local THEN "run" ELSE IF c \in Writes THEN "new" ELSE "gone"]]
  /\ last' = IF c \in Writes THEN c ELSE last
  /\ alone' = IF c \in Writes /\ ~ \E d \in Calls \ {c} : WriteUnderWay(d)
              THEN alone \cup {c} ELSE alone
  /\ UNCHANGED <<answer, answers, ring, batch, busy, units, net, disk, applied, lost>>

(* ReplicateEngine::Send, one secondary: sendOneReplicate. *)
SendOne(c, s) ==
  /\ at[c][Local] = "run"
  /\ at[c][s] = "new"
  /\ at' = [at EXCEPT ![c][s] = "sent"]
  /\ net' = [net EXCEPT ![c][s] = 1]
  /\ UNCHANGED <<answer, answers, ptr, req, ring, batch, busy, units, disk, history>>

(* Mutant: the callback of a secondary that is given up is left out. *)
SendFailsKeepsRef(c, s) ==
  /\ at[c][Local] \in {"run", "failed"}
  /\ at[c][s] = "new"
  /\ req' = IF at[c][Local] = "run" THEN [req EXCEPT ![ptr[c]].result = FALSE] ELSE req
  /\ at' = [at EXCEPT ![c][s] = "gone", ![c][Local] = "failed"]
  /\ UNCHANGED <<answer, answers, ptr, ring, batch, busy, units, net, disk, history>>

(* No connection to the secondary: the write has failed, and its reference *)
(* is given up here; so are those of the secondaries after it, which the   *)
(* loop passes over.                                                       *)
SendFails(c, s) ==
  /\ at[c][Local] \in {"run", "failed"}
  /\ at[c][s] = "new"
  /\ req' = IF at[c][Local] = "run" THEN [req EXCEPT ![ptr[c]].result = FALSE, ![ptr[c]].ref = @ - 1]
            ELSE [req EXCEPT ![ptr[c]].ref = @ - 1]
  /\ at' = [at EXCEPT ![c][s] = "gone", ![c][Local] = "failed"]
  /\ UNCHANGED <<answer, answers, ptr, ring, batch, busy, units, net, disk, history>>

SendEnded(c) == \A s \in Secondaries : at[c][s] # "new"

(* QueryLocation succeeds, and the task ring takes the request or is full. *)
Submit(c) ==
  /\ at[c][Local] = "run"
  /\ SendEnded(c)
  /\ IF Len(ring) < RingSize
     THEN ring' = Append(ring, c) /\ at' = [at EXCEPT ![c][Local] = "ring"]
     ELSE ring' = ring /\ at' = [at EXCEPT ![c][Local] = "failed"]
  /\ UNCHANGED <<answer, answers, ptr, req, batch, busy, units, net, disk, history>>

(* QueryLocation fails: no space, no extent, no RocksDB.  A read of an     *)
(* extent without location is answered with zeroes.                        *)
NoLocation(c) ==
  /\ at[c][Local] = "run"
  /\ SendEnded(c)
  /\ at' = [at EXCEPT ![c][Local] = IF c \in Reads THEN "callback" ELSE "failed"]
  /\ UNCHANGED <<answer, answers, ptr, req, ring, batch, busy, units, net, disk, history>>

(* The handler's error path: SetResult(false), then the callback. *)
Fail(c) ==
  /\ at[c][Local] = "failed"
  /\ SendEnded(c)
  /\ req' = [req EXCEPT ![ptr[c]].result = FALSE]
  /\ at' = [at EXCEPT ![c][Local] = "callback"]
  /\ UNCHANGED <<answer, answers, ptr, ring, batch, busy, units, net, disk, history>>

-----------------------------------------------------------------------------
(* The worker's loop.                                                      *)

AtTop(w) == batch[w] = <<>> /\ busy[w] = None

(* DequeueBurst. *)
Dequeue(w) ==
  /\ AtTop(w)
  /\ ring # <<>>
  /\ LET n == IF Len(ring) < BatchNums THEN Len(ring) ELSE BatchNums
     IN  /\ batch' = [batch EXCEPT ![w] = SubSeq(ring, 1, n)]
         /\ ring' = SubSeq(ring, n + 1, Len(ring))
         /\ at' = [c \in Calls |-> IF \E i \in 1..n : ring[i] = c
                                   THEN [at[c] EXCEPT ![Local] = "batch"] ELSE at[c]]
  /\ UNCHANGED <<answer, answers, ptr, req, busy, units, net, disk, history>>

(* GetIOUnitBulk, and the device takes the I/O.  Without a free unit the   *)
(* worker tries again, and does not poll meanwhile: it can not step.       *)
Issue(w) ==
  /\ batch[w] # <<>> /\ busy[w] = None
  /\ units[w] > 0
  /\ LET c == Head(batch[w])
     IN  /\ req' = [req EXCEPT ![ptr[c]].unit = w]
         /\ at' = [at EXCEPT ![c][Local] = "device"]
  /\ units' = [units EXCEPT ![w] = @ - 1]
  /\ batch' = [batch EXCEPT ![w] = Tail(@)]
  /\ UNCHANGED <<answer, answers, ptr, ring, busy, net, disk, history>>

(* spdk_bdev_read/write/write_zeroes returns an error: SetResult(false),   *)
(* and the worker runs the callback itself.                                *)
IssueFails(w) ==
  /\ batch[w] # <<>> /\ busy[w] = None
  /\ units[w] > 0
  /\ LET c == Head(batch[w])
     IN  /\ req' = [req EXCEPT ![ptr[c]].unit = w, ![ptr[c]].result = FALSE]
         /\ at' = [at EXCEPT ![c][Local] = "callback"]
         /\ busy' = [busy EXCEPT ![w] = c]
  /\ units' = [units EXCEPT ![w] = @ - 1]
  /\ batch' = [batch EXCEPT ![w] = Tail(@)]
  /\ UNCHANGED <<answer, answers, ptr, ring, net, disk, history>>

(* The device ends an I/O.  A failed write may have reached it. *)
Reaches(c, n) ==
  IF c \in Writes
  THEN /\ disk' = [disk EXCEPT ![n] = c]
       /\ applied' = [applied EXCEPT ![c] = @ \cup {n}]
  ELSE UNCHANGED <<disk, applied>>

DeviceEnds(c) ==
  /\ at[c][Local] = "device"
  /\ at' = [at EXCEPT ![c][Local] = "ended"]
  /\ Reaches(c, Primary)
  /\ UNCHANGED <<answer, answers, ptr, req, ring, batch, busy, units, net, alone, last, lost>>

DeviceFails(c) ==
  /\ at[c][Local] = "device"
  /\ at' = [at EXCEPT ![c][Local] = "errored"]
  /\ Reaches(c, Primary) \/ UNCHANGED <<disk, applied>>
  /\ UNCHANGED <<answer, answers, ptr, req, ring, batch, busy, units, net, alone, last, lost>>

(* The first half of SetResult: load result_ and add the outcome. *)
SetResult(c, success) == IF R(c).result /\ success THEN "storeT" ELSE "storeF"

(* spdk_thread_poll calls worker_callback, on the worker that issued the   *)
(* I/O, between two batches.                                               *)
Poll(c) ==
  /\ at[c][Local] \in {"ended", "errored"}
  /\ AtTop(R(c).unit)
  /\ at' = [at EXCEPT ![c][Local] = SetResult(c, at[c][Local] = "ended")]
  /\ busy' = [busy EXCEPT ![R(c).unit] = c]
  /\ UNCHANGED <<answer, answers, ptr, req, ring, batch, units, net, disk, history>>

-----------------------------------------------------------------------------
(* The replicate RPCs.                                                     *)

(* Mutant: a request is sent again after its RPC has ended. *)
ResendLate(c, s) ==
  /\ at[c][s] # "new"
  /\ net[c][s] < MaxCopies
  /\ net' = [net EXCEPT ![c][s] = @ + 1]
  /\ UNCHANGED <<answer, answers, ptr, req, at, ring, batch, busy, units, disk, history>>

(* External: brpc sends a request again when the connection breaks. *)
Resend(c, s) ==
  /\ at[c][s] = "sent"
  /\ net[c][s] < MaxCopies
  /\ net' = [net EXCEPT ![c][s] = @ + 1]
  /\ UNCHANGED <<answer, answers, ptr, req, at, ring, batch, busy, units, disk, history>>

(* The Replicate handler of secondary s writes the block. *)
Replicate(c, s) ==
  /\ net[c][s] > 0
  /\ net' = [net EXCEPT ![c][s] = @ - 1]
  /\ Reaches(c, s)
  /\ UNCHANGED <<answer, answers, ptr, req, at, ring, batch, busy, units, alone, last, lost>>

(* The request is lost, or s refuses it. *)
ReplicateFails(c, s) ==
  /\ net[c][s] > 0
  /\ net' = [net EXCEPT ![c][s] = @ - 1]
  /\ UNCHANGED <<answer, answers, ptr, req, at, ring, batch, busy, units, disk, history>>

(* Mutant: cntl->Failed() is not looked at. *)
HandleResponseUnchecked(c, s) ==
  /\ at[c][s] = "sent"
  /\ at' = [at EXCEPT ![c][s] = SetResult(c, TRUE)]
  /\ UNCHANGED <<answer, answers, ptr, req, ring, batch, busy, units, net, disk, history>>

(* The RPC ends: with a good response, which s gives after its write, or   *)
(* with a bad one, a broken connection or the channel's timeout.           *)
HandleResponse(c, s) ==
  /\ at[c][s] = "sent"
  /\ \E success \in BOOLEAN :
       /\ success => s \in applied[c]
       /\ at' = [at EXCEPT ![c][s] = SetResult(c, success)]
  /\ UNCHANGED <<answer, answers, ptr, req, ring, batch, busy, units, net, disk, history>>

(* The second half of SetResult; worker_callback then starts a bthread. *)
StoreResult(c, a) ==
  /\ at[c][a] \in {"storeT", "storeF"}
  /\ req' = [req EXCEPT ![ptr[c]].result = at[c][a] = "storeT"]
  /\ lost' = IF at[c][a] = "storeT" /\ ~ R(c).result THEN lost \cup {c} ELSE lost
  /\ at' = [at EXCEPT ![c][a] = "callback"]
  /\ IF a = Local THEN WorkerReturns(c) ELSE busy' = busy
  /\ UNCHANGED <<answer, answers, ptr, ring, batch, units, net, disk, applied, alone, last>>

-----------------------------------------------------------------------------
(* The user callbacks.                                                     *)

(* WriteDone: the last of the references answers. *)
WriteDone(c, a) ==
  /\ c \in Writes
  /\ at[c][a] = "callback"
  /\ at' = [at EXCEPT ![c][a] = "gone"]
  /\ IF R(c).ref # 1
     THEN /\ req' = [req EXCEPT ![ptr[c]].ref = @ - 1]
          /\ UNCHANGED <<answer, answers, units>>
     ELSE Respond(c) /\ PutIOUnit(c) /\ PutRequest(c)
  /\ IF a = Local THEN WorkerReturns(c) ELSE busy' = busy
  /\ UNCHANGED <<ptr, ring, batch, net, disk, history>>

(* DeleteDone, ReplicateDone and ScrubDone. *)
DeleteDone(c) ==
  /\ c \in Others
  /\ at[c][Local] = "callback"
  /\ at' = [at EXCEPT ![c][Local] = "gone"]
  /\ Respond(c) /\ PutIOUnit(c) /\ PutRequest(c)
  /\ WorkerReturns(c)
  /\ UNCHANGED <<ptr, ring, batch, net, disk, history>>

(* ReadDone: a good response takes the unit and the Request with it. *)
Attached(c) == R(c).result /\ R(c).unit # None

ReadDone(c) ==
  /\ c \in Reads
  /\ at[c][Local] = "callback"
  /\ Respond(c)
  /\ IF Attached(c)
     THEN /\ at' = [at EXCEPT ![c][Local] = "attached"]
          /\ UNCHANGED <<req, units>>
     ELSE /\ at' = [at EXCEPT ![c][Local] = "gone"]
          /\ PutIOUnit(c) /\ PutRequest(c)
  /\ WorkerReturns(c)
  /\ UNCHANGED <<ptr, ring, batch, net, disk, history>>

(* brpc has sent the response and drops the attachment. *)
ReclaimIOUnit(c) ==
  /\ at[c][Local] = "attached"
  /\ at' = [at EXCEPT ![c][Local] = "gone"]
  /\ PutIOUnit(c) /\ PutRequest(c)
  /\ UNCHANGED <<answer, answers, ptr, ring, batch, busy, net, disk, history>>

-----------------------------------------------------------------------------
Handler(c) ==
  \/ NoRequest(c) \/ Refuse(c) \/ Accept(c)
  \/ \E s \in Secondaries : SendOne(c, s) \/ SendFails(c, s)
  \/ Submit(c) \/ NoLocation(c) \/ Fail(c)

Worker(w) == Dequeue(w) \/ Issue(w) \/ IssueFails(w)

Device(c) == DeviceEnds(c) \/ DeviceFails(c)

Callback(c) ==
  \/ \E a \in Refs : StoreResult(c, a) \/ WriteDone(c, a)
  \/ DeleteDone(c) \/ ReadDone(c) \/ ReclaimIOUnit(c)

Network(c) ==
  \E s \in Secondaries : Resend(c, s) \/ Replicate(c, s) \/ ReplicateFails(c, s)

Next ==
  \/ \E c \in Calls : Handler(c) \/ Device(c) \/ Poll(c) \/ Callback(c)
  \/ \E c \in Writes : Network(c) \/ \E s \in Secondaries : HandleResponse(c, s)
  \/ \E w \in Workers : Worker(w)

Spec == Init /\ [][Next]_vars

(***************************************************************************)
(* Fairness: brpc runs every bthread and the OS every worker; the device   *)
(* ends what it was given; a replicate RPC ends, at the latest with the    *)
(* channel's timeout; brpc drops a sent attachment.  A worker polls in     *)
(* every round of its loop, so a completion that is there at round after   *)
(* round is delivered: strong fairness.  The handler of a call that never  *)
(* arrives, the network and the secondaries owe nothing.                   *)
(***************************************************************************)
FairSpec ==
  /\ Spec
  /\ \A c \in Calls : /\ WF_vars(at[c][Local] # "new" /\ Handler(c))
                      /\ WF_vars(Device(c))
                      /\ SF_vars(Poll(c))
                      /\ WF_vars(StoreResult(c, Local))
  /\ \A c \in Writes : /\ WF_vars(WriteDone(c, Local))
                       /\ \A s \in Secondaries :
                            /\ WF_vars(HandleResponse(c, s))
                            /\ WF_vars(StoreResult(c, s) \/ WriteDone(c, s))
  /\ \A c \in Reads : WF_vars(ReadDone(c)) /\ WF_vars(ReclaimIOUnit(c))
  /\ \A c \in Others : WF_vars(DeleteDone(c))
  /\ \A w \in Workers : WF_vars(Worker(w))
-----------------------------------------------------------------------------
(* Properties.                                                             *)

(* Every variable has its type. *)
TypeOK ==
  /\ answer \in [Calls -> {"none", "ok", "error"}]
  /\ answers \in [Calls -> Nat]
  /\ ptr \in [Calls -> Reqs \cup {None}]
  /\ req \in [Reqs -> Request]
  /\ at \in [Calls -> [Refs -> LocalPlaces \cup RpcPlaces]]
  /\ ring \in Seq(Calls)
  /\ batch \in [Workers -> Seq(Calls)]
  /\ busy \in [Workers -> Calls \cup {None}]
  /\ units \in [Workers -> 0..IOUnits]
  /\ net \in [Writes -> [Secondaries -> Nat]]
  /\ disk \in [Nodes -> Writes \cup {None}]
  /\ applied \in [Writes -> SUBSET Nodes]
  /\ alone \subseteq Writes
  /\ last \in Writes \cup {None}
  /\ lost \subseteq Calls

(* A thread that can still touch the Request of its call finds it owned by *)
(* that call: WriteDone puts the Request back to the pool only when the    *)
(* handler, the worker and every replicate RPC have given it up.           *)
OwnedWhileUsed ==
  \A c \in Calls :
    (ptr[c] # None /\ \E a \in Refs : at[c][a] # "gone") => R(c).owner = c

(* The done closure of a call runs at most once, and after it no part of   *)
(* the call is left but the attachment of a read, whatever mix of missing  *)
(* connections, full rings and failed I/O the call met.                    *)
AnsweredLast ==
  \A c \in Calls :
    /\ answers[c] <= 1
    /\ answers[c] = 1 => \A a \in Refs : at[c][a] \in {"gone", "attached"}

(* No thread uses a Request that was put back, and done runs last: both    *)
(* follow from ref_count_ being the number of references that still live.  *)
NoUseAfterPut == OwnedWhileUsed /\ AnsweredLast

(* Every IO unit is in its worker's pool or belongs to one live Request:   *)
(* no completion path loses a unit or puts one back twice.                 *)
UnitsConserved ==
  \A w \in Workers :
    /\ units[w] + Cardinality({r \in Reqs : req[r].unit = w}) = IOUnits
    /\ \A r \in Reqs : req[r].owner = None => req[r].unit = None

(* A write answered OK has reached the device of every replica, unless two *)
(* references' SetResult overlapped and the later store hid a failure.     *)
AckReplicated ==
  \A c \in Writes : answer[c] = "ok" => applied[c] = Nodes \/ c \in lost

(* After a write that ran alone (no write open and no copy of an earlier   *)
(* replicate request under way) was answered OK, all replicas hold it,     *)
(* also when earlier writes failed halfway.                                *)
ReplicasAgree ==
  (last \in alone /\ answer[last] = "ok" /\ last \notin lost)
    => \A n \in Nodes : disk[n] = last

(* Every accepted call is answered and its Request goes back to the pool.  *)
EveryCallAnswered ==
  \A c \in Calls :
    ptr[c] # None ~> answers[c] = 1 /\ \A a \in Refs : at[c][a] = "gone"

(* The worker's retry for an IO unit ends. *)
UnitRetryEnds ==
  \A w \in Workers :
    (batch[w] # <<>> /\ units[w] = 0) ~> (batch[w] = <<>> \/ units[w] > 0)
=============================================================================
