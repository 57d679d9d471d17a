---------------------------- MODULE ClientStream ----------------------------
(***************************************************************************)
(* The client library's I/O path: a blob handle splits a user's request at *)
(* the extent boundary, pushes the parts to sender threads, whose brpc     *)
(* calls come back on other threads, and calls the user back when the last *)
(* part is done.  A handle belongs to one thread, as libcypre.h asks; the  *)
(* sender threads are shared.  Close waits for the handle's requests;      *)
(* Finalize stops the senders first, which expire what they still hold.    *)
(*                                                                         *)
(* A sender sleeps on a FastSignal: a flag, set by the first of several    *)
(* pushes, and a semaphore.  Its ring is modelled by what Ring promises.   *)
(***************************************************************************)
EXTENDS Integers, Sequences, FiniteSets

CONSTANTS
  Handles,
  Readers,     \* handles that are read from; the others are written to
  ExtentSize,
  Senders,     \* sender threads, 0 .. a power of two less one
  RingCap,     \* capacity of a sender's ring
  MaxIo,       \* bound: requests on a handle
  MaxFaults    \* bound: parts for which no router or no connection is found

Ios   == Handles \X (1..MaxIo)
Parts == Ios \X {1, 2}
NoIo  == [n |-> 0, ref |-> 0, status |-> "none", pc |-> "none", bad |-> FALSE]
Gone  == [NoIo EXCEPT !.pc = "gone"]

VARIABLES
  app,      \* thread of a handle: where it is, its request and part
  ureq,     \* UserIoRequest, and whether a part of it failed (history)
  inflight, \* ioInflight_
  freed,    \* the handle's maps are cleared
  ring, event, sem, stop, sender,  \* of a sender thread
  rpc,      \* parts whose call is on its way
  final,    \* the cluster object: "new", "no" (in use), "stop", "done"
  faults

senders == <<ring, event, sem, stop, sender>>
vars    == <<app, ureq, inflight, freed, senders, rpc, final, faults>>

NotOpen == [pc |-> "new", k |-> 0, n |-> 0, i |-> 0]

Init ==
  /\ app = [h \in Handles |-> NotOpen]
  /\ ureq = [r \in Ios |-> NoIo]
  /\ inflight = [h \in Handles |-> 0]
  /\ freed = [h \in Handles |-> FALSE]
  /\ ring = [s \in Senders |-> <<>>]
  /\ event = [s \in Senders |-> FALSE]
  /\ sem = [s \in Senders |-> 0]
  /\ stop = [s \in Senders |-> FALSE]
  /\ sender = [s \in Senders |-> "check"]
  /\ rpc = {}
  /\ final = "new"
  /\ faults = 0

Io(h)     == <<h, app[h].k>>
Part(h)   == <<Io(h), app[h].i>>
SenderOf(p) == (p[1][2] + p[2]) % Cardinality(Senders)

(* A part of a write is done with result st: the first error stays.  After *)
(* the last part the user's callback is run.                               *)
onWriteDone(q, st) ==
  [q EXCEPT !.status = IF q.status = "ok" THEN st ELSE @, !.ref = @ - 1, !.bad = @ \/ st # "ok",
            !.pc = IF q.ref = 1 THEN "told" ELSE q.pc]

(* A part of a read: a bad checksum overwrites an error. *)
onReadDone(q, st) ==
  [onWriteDone(q, st) EXCEPT !.status = IF st = "crc" THEN "crc" ELSE @]

AfterPart(r, st) == IF r[1] \in Readers THEN onReadDone(ureq[r], st) ELSE onWriteDone(ureq[r], st)

(* The extents that a request touches: one, or two, or it is refused. *)
splitUserRequest(off, len) == (off + len - 1) \div ExtentSize - off \div ExtentSize + 1

-----------------------------------------------------------------------------
(* The thread of a handle.                                                 *)

(* CypreClusterRBD::Init: the router cache is made, the senders started. *)
StartSenderWorker ==
  /\ final = "new" /\ final' = "no"
  /\ UNCHANGED <<app, ureq, inflight, freed, senders, rpc, faults>>

(* Open asks the extent manager for the blob. *)
Open(h) ==
  /\ app[h].pc = "new" /\ final = "no"
  /\ app' = [app EXCEPT ![h].pc = "idle"]
  /\ UNCHANGED <<ureq, inflight, freed, senders, rpc, final, faults>>

(* A handle that is closed takes no request. *)
MayCall(h) == app[h].pc = "idle" /\ app[h].k < MaxIo /\ final = "no"

(* A request is split at the extent boundary and counted, or refused when  *)
(* it spans three extents.                                                 *)
doUserRequest(h) ==
  /\ \E off \in 0..(ExtentSize - 1), len \in 1..(ExtentSize * 2) :
       LET r == <<h, app[h].k + 1>>
           n == splitUserRequest(off, len)
       IN  IF n > 2
           THEN /\ ureq' = [ureq EXCEPT ![r] = Gone]
                /\ app' = [app EXCEPT ![h].k = @ + 1]
                /\ UNCHANGED inflight
           ELSE /\ ureq' = [ureq EXCEPT ![r] = [NoIo EXCEPT !.n = n, !.ref = n,
                                                            !.status = "ok", !.pc = "live"]]
                /\ inflight' = [inflight EXCEPT ![h] = @ + 1]
                /\ app' = [app EXCEPT ![h] = [pc |-> "submit", k |-> @.k + 1, n |-> n, i |-> 1]]
  /\ UNCHANGED <<freed, senders, rpc, final, faults>>

AsyncRead(h)  == h \in Readers /\ MayCall(h) /\ doUserRequest(h)
AsyncWrite(h) == h \notin Readers /\ MayCall(h) /\ doUserRequest(h)

(* Read and Write: every part's call is made and awaited here, so nothing  *)
(* of another thread meets it, and the request is gone when it returns.    *)
SyncIo(h) ==
  /\ MayCall(h)
  /\ ureq' = [ureq EXCEPT ![<<h, app[h].k + 1>>] = Gone]
  /\ app' = [app EXCEPT ![h].k = @ + 1]
  /\ UNCHANGED <<inflight, freed, senders, rpc, final, faults>>

Read(h)  == h \in Readers /\ SyncIo(h)
Write(h) == h \notin Readers /\ SyncIo(h)

(* The thread goes on to the next part, or the call returns. *)
NextPart(a) == IF a.i = a.n THEN [a EXCEPT !.pc = "idle", !.n = 0, !.i = 0]
                            ELSE [a EXCEPT !.pc = "submit", !.i = a.i + 1]

(* No router, or no connection: the part is done at once, and the call     *)
(* will return the error as well.                                          *)
NoRouter(h) ==
  /\ app[h].pc = "submit" /\ faults < MaxFaults
  /\ faults' = faults + 1
  /\ ureq' = [ureq EXCEPT ![Io(h)] = AfterPart(Io(h), "fail")]
  /\ app' = [app EXCEPT ![h] = NextPart(@)]
  /\ UNCHANGED <<inflight, freed, senders, rpc, final>>

(* BrpcSenderWorker::Push: into the ring, as soon as there is room ... *)
Push(h) ==
  /\ app[h].pc = "submit"
  /\ LET s == SenderOf(Part(h))
     IN  /\ Len(ring[s]) < RingCap
         /\ ring' = [ring EXCEPT ![s] = Append(@, Part(h))]
  /\ app' = [app EXCEPT ![h].pc = "signal"]
  /\ UNCHANGED <<ureq, inflight, freed, event, sem, stop, sender, rpc, final, faults>>

(* Mutant: the flag is set, and nobody is woken. *)
SignalFlagOnly(h) ==
  /\ app[h].pc = "signal"
  /\ event' = [event EXCEPT ![SenderOf(Part(h))] = TRUE]
  /\ app' = [app EXCEPT ![h] = NextPart(@)]
  /\ UNCHANGED <<ureq, inflight, freed, ring, sem, stop, sender, rpc, final, faults>>

(* ... and FastSignal::Signal: whoever sets the flag ... *)
Signal(h) ==
  /\ app[h].pc = "signal"
  /\ LET s == SenderOf(Part(h))
     IN  /\ event' = [event EXCEPT ![s] = TRUE]
         /\ app' = [app EXCEPT ![h] = IF event[s] THEN NextPart(@)
                                                  ELSE [@ EXCEPT !.pc = "post"]]
  /\ UNCHANGED <<ureq, inflight, freed, ring, sem, stop, sender, rpc, final, faults>>

(* ... posts the semaphore. *)
Post(h) ==
  /\ app[h].pc = "post"
  /\ sem' = [sem EXCEPT ![SenderOf(Part(h))] = @ + 1]
  /\ app' = [app EXCEPT ![h] = NextPart(@)]
  /\ UNCHANGED <<ureq, inflight, freed, ring, event, stop, sender, rpc, final, faults>>

(* Close: no more requests, and wait for those that are counted. *)
CloseBegins(h) ==
  /\ app[h].pc = "idle" /\ final \in {"no", "done"}
  /\ app' = [app EXCEPT ![h].pc = "closing"]
  /\ UNCHANGED <<ureq, inflight, freed, senders, rpc, final, faults>>

(* Mutant: does not wait. *)
CloseEndsEarly(h) ==
  /\ app[h].pc = "closing"
  /\ app' = [app EXCEPT ![h].pc = "closed"]
  /\ freed' = [freed EXCEPT ![h] = TRUE]
  /\ UNCHANGED <<ureq, inflight, senders, rpc, final, faults>>

CloseEnds(h) ==
  /\ app[h].pc = "closing" /\ inflight[h] = 0
  /\ app' = [app EXCEPT ![h].pc = "closed"]
  /\ freed' = [freed EXCEPT ![h] = TRUE]
  /\ UNCHANGED <<ureq, inflight, senders, rpc, final, faults>>

-----------------------------------------------------------------------------
(* The sender threads.                                                     *)

SenderChecks(s) ==
  /\ sender[s] = "check"
  /\ sender' = [sender EXCEPT ![s] = IF stop[s] THEN "expire" ELSE "wait"]
  /\ UNCHANGED <<app, ureq, inflight, freed, ring, event, sem, stop, rpc, final, faults>>

(* FastSignal::Wait: the flag, or else the semaphore. *)
SenderWaits(s) ==
  /\ sender[s] = "wait"
  /\ sender' = [sender EXCEPT ![s] = IF event[s] THEN "drain" ELSE "sleep"]
  /\ event' = [event EXCEPT ![s] = FALSE]
  /\ UNCHANGED <<app, ureq, inflight, freed, ring, sem, stop, rpc, final, faults>>

SenderWakes(s) ==
  /\ sender[s] = "sleep" /\ sem[s] > 0
  /\ sem' = [sem EXCEPT ![s] = @ - 1]
  /\ sender' = [sender EXCEPT ![s] = "drain"]
  /\ UNCHANGED <<app, ureq, inflight, freed, ring, event, stop, rpc, final, faults>>

(* BrpcEsReader::AsyncCall and BrpcEsWriter::AsyncCall. *)
AsyncCall(p) == rpc' = rpc \cup {p}

(* Everything in the ring is sent. *)
SenderDrains(s) ==
  /\ sender[s] = "drain"
  /\ IF ring[s] = <<>>
     THEN sender' = [sender EXCEPT ![s] = "check"] /\ UNCHANGED <<ring, rpc>>
     ELSE /\ AsyncCall(Head(ring[s]))
          /\ ring' = [ring EXCEPT ![s] = Tail(@)]
          /\ UNCHANGED sender
  /\ UNCHANGED <<app, ureq, inflight, freed, event, sem, stop, final, faults>>

SetExpired(p) == ureq' = [ureq EXCEPT ![p[1]] = AfterPart(p[1], "fail")]

(* A stopped sender expires what is left. *)
SenderExpires(s) ==
  /\ sender[s] = "expire"
  /\ IF ring[s] = <<>>
     THEN sender' = [sender EXCEPT ![s] = "exit"] /\ UNCHANGED <<ring, ureq>>
     ELSE /\ SetExpired(Head(ring[s]))
          /\ ring' = [ring EXCEPT ![s] = Tail(@)]
          /\ UNCHANGED sender
  /\ UNCHANGED <<app, inflight, freed, event, sem, stop, rpc, final, faults>>

-----------------------------------------------------------------------------
(* brpc's threads.                                                         *)

(* BrpcEsReader::onReadDone and BrpcEsWriter::onWriteDone: a call has come *)
(* back, or has failed.                                                    *)
RpcDone(p, results) ==
  /\ p \in rpc
  /\ rpc' = rpc \ {p}
  /\ \E st \in results : ureq' = [ureq EXCEPT ![p[1]] = AfterPart(p[1], st)]
  /\ UNCHANGED <<app, inflight, freed, senders, final, faults>>

ReadDone(p)  == p[1][1] \in Readers /\ RpcDone(p, {"ok", "fail", "crc"})
WriteDone(p) == p[1][1] \notin Readers /\ RpcDone(p, {"ok", "fail"})

(* When the user's callback has returned, the request is deleted, and no   *)
(* longer counted.                                                         *)
RequestGone(r) ==
  /\ ureq[r].pc = "told"
  /\ ureq' = [ureq EXCEPT ![r] = Gone]
  /\ inflight' = [inflight EXCEPT ![r[1]] = @ - 1]
  /\ UNCHANGED <<app, freed, senders, rpc, final, faults>>

-----------------------------------------------------------------------------
(* Finalize, when no thread is in a call of the library.                   *)

FinalizeBegins ==
  /\ final = "no" /\ \A h \in Handles : app[h].pc \in {"new", "idle", "closed"}
  /\ final' = "stop"
  /\ UNCHANGED <<app, ureq, inflight, freed, senders, rpc, faults>>

StopSender(s) ==
  /\ final = "stop" /\ ~ stop[s]
  /\ stop' = [stop EXCEPT ![s] = TRUE]
  /\ sem' = [sem EXCEPT ![s] = @ + 1]
  /\ UNCHANGED <<app, ureq, inflight, freed, ring, event, sender, rpc, final, faults>>

(* The threads are joined and their rings deleted; then handles that are   *)
(* still open are closed.                                                  *)
JoinSenders ==
  /\ final = "stop" /\ \A s \in Senders : stop[s] /\ sender[s] = "exit"
  /\ final' = "done"
  /\ UNCHANGED <<app, ureq, inflight, freed, senders, rpc, faults>>

-----------------------------------------------------------------------------
App(h) == NoRouter(h) \/ Push(h) \/ Signal(h) \/ Post(h) \/ CloseEnds(h)
Send(s) == SenderChecks(s) \/ SenderWaits(s) \/ SenderWakes(s) \/ SenderDrains(s) \/ SenderExpires(s)

(* The steps of the library's, brpc's and the user's threads inside a call *)
(* that has begun.                                                         *)
Steps ==
  \/ \E h \in Handles : App(h)
  \/ \E s \in Senders : Send(s) \/ StopSender(s)
  \/ \E p \in Parts : ReadDone(p) \/ WriteDone(p)
  \/ \E r \in Ios : RequestGone(r)
  \/ JoinSenders

Next ==
  \/ \E h \in Handles :
       Open(h) \/ AsyncRead(h) \/ AsyncWrite(h) \/ Read(h) \/ Write(h) \/ CloseBegins(h)
  \/ StartSenderWorker \/ FinalizeBegins
  \/ Steps

(* Threads run, calls come back (brpc times them out) and user callbacks   *)
(* return.  That some step is taken is enough: a bounded number of         *)
(* requests cannot keep one of them waiting for ever.                      *)
Fairness == WF_vars(Steps)

Spec == Init /\ [][Next]_vars /\ Fairness
-----------------------------------------------------------------------------
(* Properties.                                                             *)

(* Every variable has its type. *)
TypeOK ==
  /\ \A r \in Ios : ureq[r].ref \in 0..2 /\ ureq[r].n \in 0..2
  /\ \A s \in Senders : Len(ring[s]) <= RingCap /\ sem[s] \in Nat
  /\ \A h \in Handles : inflight[h] \in 0..MaxIo
  /\ rpc \subseteq Parts

(* Close returns, and frees what requests use, only when no part of a      *)
(* request is in a ring or on its way and no callback is outstanding.      *)
NothingOutWhenFreed ==
  \A h \in Handles : freed[h] =>
    /\ \A p \in rpc : p[1][1] # h
    /\ \A s \in Senders : \A i \in DOMAIN ring[s] : ring[s][i][1][1] # h
    /\ \A r \in Ios : r[1] = h => ureq[r].pc \in {"none", "gone"}

(* No part is left in the ring of a sender that has ended. *)
RingsEmptied == \A s \in Senders : sender[s] = "exit" => ring[s] = <<>>

(* The user is told OK only when every part was, in whatever order the     *)
(* parts came back, were expired or could not be sent.                     *)
ToldTruth == \A r \in Ios : ureq[r].pc = "told" /\ ureq[r].status = "ok" => ~ ureq[r].bad

(* RBDStreamHandleImpl::Close frees what requests use only when none of    *)
(* them is out, a sender that ends leaves nothing behind, and what users   *)
(* are told is true.                                                       *)
QuietWhenFreed == TypeOK /\ NothingOutWhenFreed /\ RingsEmptied /\ ToldTruth

(* Every asynchronous request that was not refused is called back, also    *)
(* when its sender went to sleep around the push or is being stopped: as   *)
(* requests are bounded, there is in the end none that waits.              *)
CalledBack == []<>(\A r \in Ios : ureq[r].pc \in {"none", "gone"})
=============================================================================
