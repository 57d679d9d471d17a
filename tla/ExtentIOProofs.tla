--------------------------- MODULE ExtentIOProofs ---------------------------
(***************************************************************************)
(* Proofs about ExtentIO, for any sets of calls, Requests, workers and     *)
(* secondaries, any ring and any number of IO units.                       *)
(***************************************************************************)
EXTENDS ExtentIO, FiniteSetTheorems, SequenceTheorems, TLAPS

(* The references of call c that still live, and the Requests that hold    *)
(* an IO unit of worker w.                                                 *)
Live(c)    == {a \in Refs : at[c][a] # "gone"}
Holders(w) == {r \in Reqs : req[r].unit = w}

Places  == LocalPlaces \cup RpcPlaces
AtType  == [Calls -> [Refs -> Places]]
ReqType == [Reqs -> Request]

(* TypeOK without the bound on units, which rests on UnitsOK.              *)
TypesOK ==
  /\ answer \in [Calls -> {"none", "ok", "error"}]
  /\ answers \in [Calls -> Nat]
  /\ ptr \in [Calls -> Reqs \cup {None}]
  /\ req \in ReqType
  /\ at \in AtType
  /\ ring \in Seq(Calls)
  /\ batch \in [Workers -> Seq(Calls)]
  /\ busy \in [Workers -> Calls \cup {None}]
  /\ units \in [Workers -> Nat]
  /\ net \in [Writes -> [Secondaries -> Nat]]
  /\ disk \in [Nodes -> Writes \cup {None}]
  /\ applied \in [Writes -> SUBSET Nodes]
  /\ alone \subseteq Writes
  /\ last \in Writes \cup {None}
  /\ lost \subseteq Calls

(* Where the references of a call can be, given its kind and its pointer.  *)
PlacesOK(c) ==
  /\ at[c][Local] \in LocalPlaces
  /\ \A s \in Secondaries : at[c][s] \in RpcPlaces
  /\ c \notin Writes => \A s \in Secondaries : at[c][s] = "gone"
  /\ at[c][Local] = "attached" => c \in Reads
  /\ ptr[c] = None => /\ at[c][Local] \in {"new", "gone"}
                      /\ \A s \in Secondaries : at[c][s] = "gone"
  /\ at[c][Local] = "new" => ptr[c] = None /\ answers[c] = 0

(* The Request of a call with a live reference is the call's own, and      *)
(* counts its live references; before the I/O is issued it has no unit.    *)
OwnOK(c) ==
  ptr[c] # None /\ Live(c) # {} =>
    /\ R(c).owner = c
    /\ R(c).ref = Cardinality(Live(c))
    /\ at[c][Local] \in {"run", "failed", "ring", "batch"} => R(c).unit = None

(* A Request is fresh in the pool, or its owner still has a reference.     *)
PoolOK ==
  \A r \in Reqs :
    \/ req[r] = FreeReq
    \/ req[r].owner \in Calls /\ ptr[req[r].owner] = r /\ Live(req[r].owner) # {}

(* A call is in the ring, or in one worker's batch, at most once, and its  *)
(* local reference knows.                                                  *)
QueuesOK ==
  /\ \A i \in 1..Len(ring) : at[ring[i]][Local] = "ring"
  /\ \A i, j \in 1..Len(ring) : ring[i] = ring[j] => i = j
  /\ \A w \in Workers : \A i \in 1..Len(batch[w]) : at[batch[w][i]][Local] = "batch"
  /\ \A w, v \in Workers : \A i \in 1..Len(batch[w]), j \in 1..Len(batch[v]) :
       batch[w][i] = batch[v][j] => w = v /\ i = j

UnitsOK ==
  \A w \in Workers : IsFiniteSet(Holders(w)) /\ units[w] + Cardinality(Holders(w)) = IOUnits

(* Where a write that result_ still calls good has certainly been.         *)
ReachedOK(c) ==
  /\ at[c][Local] = "new" => /\ applied[c] = {} /\ c \notin alone
                             /\ \A s \in Secondaries : net[c][s] = 0
  /\ at[c][Local] = "ended" => Local \in applied[c]
  /\ \A a \in Refs : at[c][a] = "storeT" => a \in applied[c]
  /\ (/\ ptr[c] # None /\ Live(c) # {} /\ R(c).result
      /\ at[c][Local] # "failed" /\ c \notin lost)
       => \A a \in Refs : at[c][a] \in {"callback", "gone"} => a \in applied[c]

(* Write d can not reach a disk any more, or not before it is accepted.    *)
Quiet(d) ==
  /\ at[d][Local] \in {"new", "failed", "callback", "gone"}
  /\ \A s \in Secondaries : at[d][s] = "gone" /\ net[d][s] = 0

(* While the write accepted last runs alone, no other write can reach a    *)
(* disk, so the nodes it has reached hold it.                              *)
AloneOK ==
  last \in alone => /\ \A n \in applied[last] : disk[n] = last
                    /\ \A d \in Writes : d # last => Quiet(d)

RefInv ==
  /\ TypesOK
  /\ \A c \in Calls : PlacesOK(c) /\ OwnOK(c)
  /\ PoolOK
  /\ QueuesOK
  /\ AnsweredLast

Inv ==
  /\ RefInv
  /\ UnitsOK
  /\ \A c \in Writes : ReachedOK(c)
  /\ AckReplicated
  /\ AloneOK

-----------------------------------------------------------------------------
(* Constants.                                                              *)

LEMMA Kinds ==
  /\ Local \in Refs /\ Local \notin Secondaries
  /\ Refs = Secondaries \cup {Local} /\ Nodes = Refs
  /\ None \notin Calls /\ None \notin Reqs /\ None \notin Workers
  /\ \A c \in Writes : c \in Calls /\ c \notin Reads /\ c \notin Others
  /\ \A c \in Reads : c \in Calls /\ c \notin Others
  /\ \A c \in Others : c \in Calls
  /\ \A c \in Calls : c \in Writes \/ c \in Reads \/ c \in Others
BY ConstantsAssumption DEF Local, Refs, Nodes, Calls

(* The references of a call are finitely many: one for each node.          *)
LEMMA RefsFinite == IsFiniteSet(Refs) /\ Cardinality(Refs) = 1 + Cardinality(Secondaries)
                    /\ Cardinality(Secondaries) \in Nat
<1>1. IsFiniteSet(Secondaries) /\ Primary \notin Secondaries
  BY ConstantsAssumption
<1>2. Cardinality(Secondaries) \in Nat
  BY <1>1, FS_CardinalityType
<1>3. /\ IsFiniteSet(Secondaries \cup {Primary})
      /\ Cardinality(Secondaries \cup {Primary}) = Cardinality(Secondaries) + 1
  BY <1>1, FS_AddElement
<1> QED
  BY <1>2, <1>3 DEF Refs, Nodes

LEMMA LiveFinite ==
  ASSUME NEW c \in Calls
  PROVE  IsFiniteSet(Live(c)) /\ Cardinality(Live(c)) \in Nat
<1>1. Live(c) \in SUBSET Refs
  BY DEF Live
<1>2. IsFiniteSet(Live(c))
  BY <1>1, RefsFinite, FS_Subset
<1> QED
  BY <1>2, FS_CardinalityType

(* A reference that goes leaves one less.                                  *)
LEMMA LiveDrop ==
  ASSUME NEW c \in Calls, NEW a \in Refs, at[c][a] # "gone", at'[c][a] = "gone",
         \A b \in Refs \ {a} : at'[c][b] = "gone" <=> at[c][b] = "gone"
  PROVE  /\ Cardinality(Live(c)') = Cardinality(Live(c)) - 1
         /\ Live(c)' = {} <=> Cardinality(Live(c)) = 1
<1>1. Live(c)' = Live(c) \ {a} /\ a \in Live(c)
  BY DEF Live
<1>2. IsFiniteSet(Live(c)) /\ Cardinality(Live(c)) \in Nat
  BY LiveFinite
<1>3. /\ IsFiniteSet(Live(c) \ {a})
      /\ Cardinality(Live(c) \ {a}) = Cardinality(Live(c)) - 1
  BY <1>1, <1>2, FS_RemoveElement
<1>4. Cardinality(Live(c) \ {a}) = 0 <=> Live(c) \ {a} = {}
  BY <1>3, FS_EmptySet
<1> QED
  BY <1>1, <1>2, <1>3, <1>4

LEMMA LiveSame ==
  ASSUME NEW c \in Calls, \A a \in Refs : at'[c][a] = "gone" <=> at[c][a] = "gone"
  PROVE  Live(c)' = Live(c)
BY DEF Live

LEMMA LiveOne ==
  ASSUME NEW c \in Calls, Live(c) = {Local}
  PROVE  Cardinality(Live(c)) = 1
BY FS_Singleton

-----------------------------------------------------------------------------
(* Every step keeps the types.                                             *)

LEMMA PlaceNames ==
  /\ LocalPlaces \subseteq Places /\ RpcPlaces \subseteq Places
  /\ {"new", "run", "failed", "ring", "batch", "device", "ended", "errored", "storeT",
      "storeF", "callback", "attached", "gone", "sent"} \subseteq Places
BY DEF Places, LocalPlaces, RpcPlaces

LEMMA AtSet ==
  ASSUME at \in AtType, NEW c \in Calls, NEW a \in Refs, NEW p \in Places
  PROVE  [at EXCEPT ![c][a] = p] \in AtType
BY DEF AtType

LEMMA ReqSet ==
  ASSUME req \in ReqType, NEW r
  PROVE  /\ \A x \in Request : [req EXCEPT ![r] = x] \in ReqType
         /\ \A b \in BOOLEAN : [req EXCEPT ![r].result = b] \in ReqType
         /\ [req EXCEPT ![r].ref = @ - 1] \in ReqType
         /\ [req EXCEPT ![r].result = FALSE, ![r].ref = @ - 1] \in ReqType
         /\ \A w \in Workers : [req EXCEPT ![r].unit = w] \in ReqType
         /\ \A w \in Workers : [req EXCEPT ![r].unit = w, ![r].result = FALSE] \in ReqType
<1> USE DEF ReqType, Request
<1>1. \A x \in Request : [req EXCEPT ![r] = x] \in ReqType
  OBVIOUS
<1>2. \A b \in BOOLEAN : [req EXCEPT ![r].result = b] \in ReqType
  OBVIOUS
<1>3. [req EXCEPT ![r].ref = @ - 1] \in ReqType
  <2>1. CASE r \in Reqs
    <3>1. [req[r] EXCEPT !.ref = @ - 1] \in Request
      BY <2>1
    <3> QED
      BY <2>1, <3>1, <1>1
  <2>2. CASE r \notin Reqs
    BY <2>2
  <2> QED
    BY <2>1, <2>2
<1>4. [req EXCEPT ![r].result = FALSE, ![r].ref = @ - 1] \in ReqType
  <2>1. CASE r \in Reqs
    <3>1. PICK x \in Request : x = [req[r] EXCEPT !.result = FALSE]
      BY <2>1
    <3>2. [x EXCEPT !.ref = @ - 1] \in Request
      OBVIOUS
    <3>3. [req EXCEPT ![r].result = FALSE, ![r].ref = @ - 1]
            = [req EXCEPT ![r] = [x EXCEPT !.ref = @ - 1]]
      BY <2>1, <3>1
    <3> QED
      BY <2>1, <3>2, <3>3, <1>1
  <2>2. CASE r \notin Reqs
    BY <2>2
  <2> QED
    BY <2>1, <2>2
<1>5. \A w \in Workers : [req EXCEPT ![r].unit = w] \in ReqType
  OBVIOUS
<1>6. \A w \in Workers : [req EXCEPT ![r].unit = w, ![r].result = FALSE] \in ReqType
  OBVIOUS
<1> QED
  BY <1>1, <1>2, <1>3, <1>4, <1>5, <1>6

LEMMA FreeType ==
  /\ FreeReq \in Request
  /\ \A c \in Calls : [FreeReq EXCEPT !.owner = c] \in Request
  /\ \A c \in Calls : [FreeReq EXCEPT !.owner = c, !.ref = RefCount(c)] \in Request
<1>1. FreeReq \in Request
  BY DEF FreeReq, Request
<1>2. \A c \in Calls : [FreeReq EXCEPT !.owner = c] \in Request
  <2>1. \A x \in Request : \A c \in Calls : [x EXCEPT !.owner = c] \in Request
    BY DEF Request
  <2> QED
    BY <2>1, <1>1
<1>3. \A c \in Calls : RefCount(c) \in Int
  BY RefsFinite DEF RefCount
<1>4. \A c \in Calls : [FreeReq EXCEPT !.owner = c, !.ref = RefCount(c)] \in Request
  BY <1>3 DEF FreeReq, Request
<1> QED
  BY <1>1, <1>2, <1>4

(* What the callbacks do to responses, units and workers.                  *)
LEMMA AnswerType ==
  ASSUME TypesOK, NEW c \in Calls, NEW x \in {"none", "ok", "error"}, Answer(c, x)
  PROVE  answer' \in [Calls -> {"none", "ok", "error"}] /\ answers' \in [Calls -> Nat]
BY DEF TypesOK, Answer

LEMMA CallbackTypes ==
  ASSUME TypesOK, NEW c \in Calls
  PROVE  /\ Respond(c) => answer' \in [Calls -> {"none", "ok", "error"}] /\ answers' \in [Calls -> Nat]
         /\ PutIOUnit(c) => units' \in [Workers -> Nat]
         /\ PutRequest(c) => req' \in ReqType
         /\ WorkerReturns(c) => busy' \in [Workers -> Calls \cup {None}]
<1>1. Respond(c) => answer' \in [Calls -> {"none", "ok", "error"}] /\ answers' \in [Calls -> Nat]
  BY AnswerType DEF Respond
<1>2. PutIOUnit(c) => units' \in [Workers -> Nat]
  BY DEF TypesOK, PutIOUnit
<1>3. PutRequest(c) => req' \in ReqType
  BY FreeType DEF TypesOK, PutRequest, ReqType
<1>4. WorkerReturns(c) => busy' \in [Workers -> Calls \cup {None}]
  BY DEF TypesOK, WorkerReturns
<1> QED
  BY <1>1, <1>2, <1>3, <1>4

LEMMA ReachesType ==
  ASSUME TypesOK, NEW c \in Calls, NEW n \in Nodes, Reaches(c, n)
  PROVE  disk' \in [Nodes -> Writes \cup {None}] /\ applied' \in [Writes -> SUBSET Nodes]
<1>1. CASE c \in Writes
  <2>1. disk' = [disk EXCEPT ![n] = c] /\ applied' = [applied EXCEPT ![c] = @ \cup {n}]
    BY <1>1 DEF Reaches
  <2>2. disk' \in [Nodes -> Writes \cup {None}]
    BY <1>1, <2>1 DEF TypesOK
  <2>3. applied' \in [Writes -> SUBSET Nodes]
    BY <1>1, <2>1 DEF TypesOK
  <2> QED
    BY <2>2, <2>3
<1>2. CASE c \notin Writes
  BY <1>2 DEF TypesOK, Reaches
<1> QED
  BY <1>1, <1>2

(* SendFails for the first secondary without connection, and for those     *)
(* after it.                                                               *)
FirstFails(c, s) ==
  /\ at[c][Local] = "run" /\ at[c][s] = "new"
  /\ req' = [req EXCEPT ![ptr[c]].result = FALSE, ![ptr[c]].ref = @ - 1]
  /\ at' = [at EXCEPT ![c][s] = "gone", ![c][Local] = "failed"]
  /\ UNCHANGED <<answer, answers, ptr, ring, batch, busy, units, net, disk, history>>

LaterPassed(c, s) ==
  /\ at[c][Local] = "failed" /\ at[c][s] = "new"
  /\ req' = [req EXCEPT ![ptr[c]].ref = @ - 1]
  /\ at' = [at EXCEPT ![c][s] = "gone"]
  /\ UNCHANGED <<answer, answers, ptr, ring, batch, busy, units, net, disk, history>>

(* There is no third case: Send's loop fails once, and passes over the rest. *)
LEMMA SendFailsCases ==
  ASSUME TypesOK, NEW c \in Calls, NEW s \in Secondaries, SendFails(c, s)
  PROVE  FirstFails(c, s) \/ LaterPassed(c, s)
<1>1. CASE at[c][Local] = "run"
  BY <1>1 DEF SendFails, FirstFails
<1>2. CASE at[c][Local] = "failed"
  <2> DEFINE both == [at EXCEPT ![c][s] = "gone", ![c][Local] = "failed"]
             one  == [at EXCEPT ![c][s] = "gone"]
  <2>1. at \in [Calls -> [Refs -> Places]] /\ s \in Refs /\ Local \in Refs /\ at[c][s] = "new"
    BY Kinds DEF TypesOK, AtType, Local, SendFails
  <2>2. s # Local
    BY <1>2, <2>1
  <2>3. both \in [Calls -> [Refs -> Places]] /\ one \in [Calls -> [Refs -> Places]]
    BY <2>1, PlaceNames
  <2>4. ASSUME NEW d \in Calls, NEW b \in Refs  PROVE both[d][b] = one[d][b]
    BY <1>2, <2>1, <2>2
  <2>5. both = one
    <3>1. \A d \in Calls : both[d] = one[d]
      BY <2>3, <2>4
    <3> QED
      BY <3>1, <2>3
  <2> QED
    BY <1>2, <2>5 DEF SendFails, LaterPassed
<1> QED
  BY <1>1, <1>2 DEF SendFails

LEMMA TypeStep == TypesOK /\ [Next]_vars => TypesOK'
<1> SUFFICES ASSUME TypesOK, [Next]_vars  PROVE TypesOK'
  OBVIOUS
<1>0. /\ at \in AtType /\ req \in ReqType /\ Local \in Refs /\ Primary \in Nodes
      /\ \A s \in Secondaries : s \in Refs /\ s \in Nodes
      /\ \A c \in Writes : c \in Calls
  BY Kinds DEF TypesOK, Local
<1>1. ASSUME NEW c \in Calls, NoRequest(c)  PROVE TypesOK'
  <2>1. at' \in AtType
    BY <1>1, <1>0, AtSet, PlaceNames DEF NoRequest
  <2>2. answer' \in [Calls -> {"none", "ok", "error"}] /\ answers' \in [Calls -> Nat]
    BY <1>1, <1>0, AnswerType DEF NoRequest
  <2> QED
    BY <1>1, <2>1, <2>2 DEF TypesOK, history, NoRequest
<1>2. ASSUME NEW c \in Calls, Refuse(c)  PROVE TypesOK'
  <2>1. at' \in AtType
    BY <1>2, <1>0, AtSet, PlaceNames DEF Refuse
  <2>2. req' \in ReqType /\ ptr' \in [Calls -> Reqs \cup {None}]
    <3>1. PICK r \in Reqs : /\ req' = [req EXCEPT ![r] = [FreeReq EXCEPT !.owner = c]]
                            /\ ptr' = [ptr EXCEPT ![c] = r]
      BY <1>2 DEF Refuse
    <3>2. req' \in ReqType
      BY <3>1, <1>0, ReqSet, FreeType
    <3> QED
      BY <3>1, <3>2 DEF TypesOK
  <2> QED
    BY <1>2, <2>1, <2>2 DEF TypesOK, history, Refuse
<1>3. ASSUME NEW c \in Calls, Accept(c)  PROVE TypesOK'
  <2>1. at' \in AtType
    <3>1. [a \in Refs |-> IF a = Local THEN "run" ELSE IF c \in Writes THEN "new" ELSE "gone"]
            \in [Refs -> Places]
      BY PlaceNames
    <3> QED
      BY <3>1, <1>3, <1>0 DEF Accept, AtType
  <2>2. req' \in ReqType /\ ptr' \in [Calls -> Reqs \cup {None}]
    <3>1. PICK r \in Reqs :
            /\ req' = [req EXCEPT ![r] = [FreeReq EXCEPT !.owner = c, !.ref = RefCount(c)]]
            /\ ptr' = [ptr EXCEPT ![c] = r]
      BY <1>3 DEF Accept
    <3>2. req' \in ReqType
      BY <3>1, <1>0, ReqSet, FreeType
    <3> QED
      BY <3>1, <3>2 DEF TypesOK
  <2>3. last' \in Writes \cup {None} /\ alone' \subseteq Writes
    BY <1>3, <1>0 DEF Accept, TypesOK
  <2> QED
    BY <1>3, <2>1, <2>2, <2>3 DEF TypesOK, history, Accept
<1>4. ASSUME NEW c \in Calls, Submit(c)  PROVE TypesOK'
  <2>1. at' \in AtType
    BY <1>4, <1>0, AtSet, PlaceNames DEF Submit
  <2>2. ring' \in Seq(Calls)
    <3>1. ring \in Seq(Calls) /\ Append(ring, c) \in Seq(Calls)
      BY DEF TypesOK
    <3> QED
      BY <3>1, <1>4 DEF Submit
  <2> QED
    BY <1>4, <2>1, <2>2 DEF TypesOK, history, Submit
<1>5. ASSUME NEW c \in Calls, NoLocation(c)  PROVE TypesOK'
  <2>1. at' \in AtType
    BY <1>5, <1>0, AtSet, PlaceNames DEF NoLocation
  <2> QED
    BY <1>5, <2>1 DEF TypesOK, history, NoLocation
<1>6. ASSUME NEW c \in Calls, Fail(c)  PROVE TypesOK'
  <2>1. at' \in AtType
    BY <1>6, <1>0, AtSet, PlaceNames DEF Fail
  <2>2. req' \in ReqType
    BY <1>6, <1>0, ReqSet, FreeType DEF Fail
  <2> QED
    BY <1>6, <2>1, <2>2 DEF TypesOK, history, Fail
<1>7. ASSUME NEW c \in Calls, DeviceEnds(c)  PROVE TypesOK'
  <2>1. at' \in AtType
    BY <1>7, <1>0, AtSet, PlaceNames DEF DeviceEnds
  <2>2. disk' \in [Nodes -> Writes \cup {None}] /\ applied' \in [Writes -> SUBSET Nodes]
    BY <1>7, <1>0, ReachesType DEF DeviceEnds, TypesOK
  <2> QED
    BY <1>7, <2>1, <2>2 DEF TypesOK, history, DeviceEnds
<1>8. ASSUME NEW c \in Calls, DeviceFails(c)  PROVE TypesOK'
  <2>1. at' \in AtType
    BY <1>8, <1>0, AtSet, PlaceNames DEF DeviceFails
  <2>2. disk' \in [Nodes -> Writes \cup {None}] /\ applied' \in [Writes -> SUBSET Nodes]
    BY <1>8, <1>0, ReachesType DEF DeviceFails, TypesOK
  <2> QED
    BY <1>8, <2>1, <2>2 DEF TypesOK, history, DeviceFails
<1>9. ASSUME NEW c \in Calls, Poll(c)  PROVE TypesOK'
  <2>1. at' \in AtType
    BY <1>9, <1>0, AtSet, PlaceNames DEF Poll, SetResult
  <2>2. busy' \in [Workers -> Calls \cup {None}]
    BY <1>9, <1>0 DEF Poll, TypesOK
  <2> QED
    BY <1>9, <2>1, <2>2 DEF TypesOK, history, Poll
<1>10. ASSUME NEW c \in Calls, DeleteDone(c)  PROVE TypesOK'
  <2>1. at' \in AtType
    BY <1>10, <1>0, AtSet, PlaceNames DEF DeleteDone
  <2>2. answer' \in [Calls -> {"none", "ok", "error"}] /\ answers' \in [Calls -> Nat]
      /\ units' \in [Workers -> Nat] /\ req' \in ReqType
    BY <1>10, <1>0, CallbackTypes DEF DeleteDone, TypesOK
  <2>3. busy' \in [Workers -> Calls \cup {None}]
    BY <1>10, <1>0, CallbackTypes DEF DeleteDone, TypesOK
  <2> QED
    BY <1>10, <2>1, <2>2, <2>3 DEF TypesOK, history, DeleteDone
<1>11. ASSUME NEW c \in Calls, ReadDone(c)  PROVE TypesOK'
  <2>1. at' \in AtType
    BY <1>11, <1>0, AtSet, PlaceNames DEF ReadDone
  <2>2. answer' \in [Calls -> {"none", "ok", "error"}] /\ answers' \in [Calls -> Nat]
      /\ units' \in [Workers -> Nat] /\ req' \in ReqType
    BY <1>11, <1>0, CallbackTypes DEF ReadDone, TypesOK
  <2>3. busy' \in [Workers -> Calls \cup {None}]
    BY <1>11, <1>0, CallbackTypes DEF ReadDone, TypesOK
  <2> QED
    BY <1>11, <2>1, <2>2, <2>3 DEF TypesOK, history, ReadDone
<1>12. ASSUME NEW c \in Calls, ReclaimIOUnit(c)  PROVE TypesOK'
  <2>1. at' \in AtType
    BY <1>12, <1>0, AtSet, PlaceNames DEF ReclaimIOUnit
  <2>2. units' \in [Workers -> Nat] /\ req' \in ReqType
    BY <1>12, <1>0, CallbackTypes DEF ReclaimIOUnit
  <2> QED
    BY <1>12, <2>1, <2>2 DEF TypesOK, history, ReclaimIOUnit
<1>13. ASSUME NEW c \in Calls, NEW s \in Secondaries, SendOne(c, s)  PROVE TypesOK'
  <2>1. at' \in AtType
    BY <1>13, <1>0, AtSet, PlaceNames DEF SendOne
  <2>2. net' \in [Writes -> [Secondaries -> Nat]]
    BY <1>13, <1>0 DEF SendOne, TypesOK
  <2> QED
    BY <1>13, <2>1, <2>2 DEF TypesOK, history, SendOne
<1>14. ASSUME NEW c \in Calls, NEW s \in Secondaries, FirstFails(c, s)  PROVE TypesOK'
  <2>1. at' \in AtType
    BY <1>14, <1>0, PlaceNames DEF FirstFails, AtType
  <2>2. req' \in ReqType
    BY <1>14, <1>0, ReqSet, FreeType DEF FirstFails
  <2> QED
    BY <1>14, <2>1, <2>2 DEF TypesOK, history, FirstFails
<1>15. ASSUME NEW c \in Calls, NEW s \in Secondaries, LaterPassed(c, s)  PROVE TypesOK'
  <2>1. at' \in AtType
    BY <1>15, <1>0, AtSet, PlaceNames DEF LaterPassed
  <2>2. req' \in ReqType
    BY <1>15, <1>0, ReqSet, FreeType DEF LaterPassed
  <2> QED
    BY <1>15, <2>1, <2>2 DEF TypesOK, history, LaterPassed
<1>16. ASSUME NEW c \in Writes, NEW s \in Secondaries, Resend(c, s)  PROVE TypesOK'
  <2>1. net' \in [Writes -> [Secondaries -> Nat]]
    BY <1>16, <1>0 DEF Resend, TypesOK
  <2> QED
    BY <1>16, <2>1 DEF TypesOK, history, Resend
<1>17. ASSUME NEW c \in Writes, NEW s \in Secondaries, Replicate(c, s)  PROVE TypesOK'
  <2>1. net' \in [Writes -> [Secondaries -> Nat]]
    BY <1>17, <1>0 DEF Replicate, TypesOK
  <2>2. disk' \in [Nodes -> Writes \cup {None}] /\ applied' \in [Writes -> SUBSET Nodes]
    BY <1>17, <1>0, ReachesType DEF Replicate
  <2> QED
    BY <1>17, <2>1, <2>2 DEF TypesOK, history, Replicate
<1>18. ASSUME NEW c \in Writes, NEW s \in Secondaries, ReplicateFails(c, s)  PROVE TypesOK'
  <2>1. net' \in [Writes -> [Secondaries -> Nat]]
    BY <1>18, <1>0 DEF ReplicateFails, TypesOK
  <2> QED
    BY <1>18, <2>1 DEF TypesOK, history, ReplicateFails
<1>19. ASSUME NEW c \in Writes, NEW s \in Secondaries, HandleResponse(c, s)  PROVE TypesOK'
  <2>1. at' \in AtType
    <3>1. PICK p \in {"storeT", "storeF"} : at' = [at EXCEPT ![c][s] = p]
      BY <1>19 DEF HandleResponse, SetResult
    <3> QED
      BY <3>1, <1>0, AtSet, PlaceNames
  <2> QED
    BY <1>19, <2>1 DEF TypesOK, history, HandleResponse
<1>20. ASSUME NEW c \in Calls, NEW a \in Refs, StoreResult(c, a)  PROVE TypesOK'
  <2>1. at' \in AtType
    BY <1>20, <1>0, AtSet, PlaceNames DEF StoreResult
  <2>2. req' \in ReqType
    BY <1>20, <1>0, ReqSet, FreeType DEF StoreResult
  <2>3. busy' \in [Workers -> Calls \cup {None}]
    BY <1>20, <1>0, CallbackTypes DEF StoreResult, TypesOK
  <2>4. lost' \subseteq Calls
    BY <1>20, <1>0 DEF StoreResult, TypesOK
  <2> QED
    BY <1>20, <2>1, <2>2, <2>3, <2>4 DEF TypesOK, history, StoreResult
<1>21. ASSUME NEW c \in Calls, NEW a \in Refs, WriteDone(c, a)  PROVE TypesOK'
  <2>1. at' \in AtType
    BY <1>21, <1>0, AtSet, PlaceNames DEF WriteDone
  <2>2. answer' \in [Calls -> {"none", "ok", "error"}] /\ answers' \in [Calls -> Nat]
      /\ units' \in [Workers -> Nat] /\ req' \in ReqType
    <3>1. CASE R(c).ref # 1
      <4>1. req' = [req EXCEPT ![ptr[c]].ref = @ - 1]
        BY <3>1, <1>21 DEF WriteDone
      <4>2. req' \in ReqType
        BY <4>1, <1>0, ReqSet
      <4> QED
        BY <3>1, <4>2, <1>21 DEF WriteDone, TypesOK
    <3>2. CASE R(c).ref = 1
      BY <3>2, <1>21, CallbackTypes DEF WriteDone
    <3> QED
      BY <3>1, <3>2
  <2>3. busy' \in [Workers -> Calls \cup {None}]
    BY <1>21, <1>0, CallbackTypes DEF WriteDone, TypesOK
  <2> QED
    BY <1>21, <2>1, <2>2, <2>3 DEF TypesOK, history, WriteDone
<1>22. ASSUME NEW w \in Workers, Dequeue(w)  PROVE TypesOK'
  <2>1. at' \in AtType
    BY <1>22, <1>0, PlaceNames DEF Dequeue, AtType
  <2>2. ring' \in Seq(Calls) /\ batch' \in [Workers -> Seq(Calls)]
    BY <1>22, <1>0, ConstantsAssumption DEF Dequeue, TypesOK
  <2> QED
    BY <1>22, <2>1, <2>2 DEF TypesOK, history, Dequeue
<1>23. ASSUME NEW w \in Workers, Issue(w)  PROVE TypesOK'
  <2>1. Head(batch[w]) \in Calls /\ Tail(batch[w]) \in Seq(Calls)
    BY <1>23, <1>0 DEF Issue, TypesOK
  <2>2. at' \in AtType
    BY <1>23, <1>0, <2>1, AtSet, PlaceNames DEF Issue
  <2>3. req' \in ReqType
    BY <1>23, <1>0, ReqSet, FreeType DEF Issue
  <2>4. batch' \in [Workers -> Seq(Calls)] /\ units' \in [Workers -> Nat]
      /\ busy' \in [Workers -> Calls \cup {None}]
    BY <1>23, <1>0, <2>1 DEF Issue, TypesOK
  <2> QED
    BY <1>23, <2>1, <2>2, <2>3, <2>4 DEF TypesOK, history, Issue
<1>24. ASSUME NEW w \in Workers, IssueFails(w)  PROVE TypesOK'
  <2>1. Head(batch[w]) \in Calls /\ Tail(batch[w]) \in Seq(Calls)
    BY <1>24, <1>0 DEF IssueFails, TypesOK
  <2>2. at' \in AtType
    BY <1>24, <1>0, <2>1, AtSet, PlaceNames DEF IssueFails
  <2>3. req' \in ReqType
    BY <1>24, <1>0, ReqSet, FreeType DEF IssueFails
  <2>4. batch' \in [Workers -> Seq(Calls)] /\ units' \in [Workers -> Nat]
      /\ busy' \in [Workers -> Calls \cup {None}]
    BY <1>24, <1>0, <2>1 DEF IssueFails, TypesOK
  <2> QED
    BY <1>24, <2>1, <2>2, <2>3, <2>4 DEF TypesOK, history, IssueFails
<1>25. CASE UNCHANGED vars
  BY <1>25 DEF vars, TypesOK
<1>27. ASSUME NEW c \in Calls, NEW s \in Secondaries, SendFails(c, s)  PROVE TypesOK'
  BY <1>14, <1>15, <1>27, <1>0, SendFailsCases
<1> QED
  BY <1>27, <1>1, <1>2, <1>3, <1>4, <1>5, <1>6, <1>7, <1>8, <1>9, <1>10, <1>11, <1>12, <1>13, <1>14, <1>15, <1>16, <1>17, <1>18, <1>19, <1>20, <1>21, <1>22, <1>23, <1>24, <1>25 DEF Next, Handler, Device, Callback, Network, Worker

-----------------------------------------------------------------------------
(* What assignments to one place or one Request mean for the others.       *)

LEMMA AtExcept ==
  ASSUME at \in AtType, NEW c \in Calls, NEW a \in Refs, NEW p,
         at' = [at EXCEPT ![c][a] = p]
  PROVE  /\ at'[c][a] = p
         /\ \A b \in Refs : b # a => at'[c][b] = at[c][b]
         /\ \A d \in Calls : d # c => at'[d] = at[d]
BY DEF AtType

LEMMA ReqExcept ==
  ASSUME req \in ReqType, NEW r \in Reqs, NEW x, req' = [req EXCEPT ![r] = x]
  PROVE  req'[r] = x /\ \A q \in Reqs : q # r => req'[q] = req[q]
BY DEF ReqType

(* A thread that works for a call finds the call's own Request, and the    *)
(* call is not answered but for the attachment of a read.                  *)
LEMMA Owned ==
  ASSUME RefInv, NEW c \in Calls, NEW a \in Refs, at[c][a] # "gone",
         a = Local => at[c][a] # "new"
  PROVE  /\ ptr[c] \in Reqs /\ ptr[c] # None /\ a \in Live(c)
         /\ R(c) \in Request /\ R(c) = req[ptr[c]]
         /\ R(c).owner = c /\ R(c).ref = Cardinality(Live(c))
         /\ Cardinality(Live(c)) \in Nat
         /\ answers[c] = 0 \/ at[c][a] = "attached"
         /\ at[c][Local] \in {"run", "failed", "ring", "batch"} => R(c).unit = None
<1>1. ptr[c] # None
  BY Kinds DEF RefInv, PlacesOK
<1>2. ptr[c] \in Reqs
  BY <1>1 DEF RefInv, TypesOK
<1>3. a \in Live(c)
  BY DEF Live
<1>4. R(c) \in Request
  BY <1>2 DEF RefInv, TypesOK, ReqType, R
<1>5. /\ R(c).owner = c /\ R(c).ref = Cardinality(Live(c))
      /\ at[c][Local] \in {"run", "failed", "ring", "batch"} => R(c).unit = None
  BY <1>1, <1>3 DEF RefInv, OwnOK
<1>6. answers[c] = 0 \/ at[c][a] = "attached"
  <2>1. answers[c] \in Nat /\ answers[c] <= 1
    BY DEF RefInv, AnsweredLast, TypesOK
  <2>2. answers[c] = 1 => at[c][a] = "attached"
    BY DEF RefInv, AnsweredLast
  <2> QED
    BY <2>1, <2>2
<1> QED
  BY <1>1, <1>2, <1>3, <1>4, <1>5, <1>6, LiveFinite DEF R

(* A call that is not a write has a local reference only.                  *)
LEMMA OnlyLocal ==
  ASSUME RefInv, NEW c \in Calls, c \notin Writes, at[c][Local] # "gone"
  PROVE  Live(c) = {Local} /\ Cardinality(Live(c)) = 1
<1>1. \A s \in Secondaries : at[c][s] = "gone"
  BY DEF RefInv, PlacesOK
<1>2. Live(c) = {Local}
  BY <1>1, Kinds DEF Live
<1> QED
  BY <1>2, FS_Singleton

Answered(c) == /\ answers[c] <= 1
               /\ answers[c] = 1 => \A a \in Refs : at[c][a] \in {"gone", "attached"}

(* A step of one call leaves the other calls' Requests alone.              *)
LEMMA CallFrame ==
  ASSUME RefInv, NEW c \in Calls,
         \A d \in Calls : d # c => /\ at'[d] = at[d] /\ ptr'[d] = ptr[d]
                                   /\ answers'[d] = answers[d],
         ptr'[c] = ptr[c] \/ ptr[c] = None,
         \A r \in Reqs : r # ptr'[c] => req'[r] = req[r],
         ptr'[c] \in Reqs => req[ptr'[c]].owner \in {c, None},
         ptr'[c] \in Reqs => \/ req'[ptr'[c]] = FreeReq
                             \/ req'[ptr'[c]].owner = c /\ Live(c)' # {},
         PlacesOK(c)', OwnOK(c)', Answered(c)'
  PROVE  (\A d \in Calls : PlacesOK(d)' /\ OwnOK(d)') /\ PoolOK' /\ AnsweredLast'
<1>1. ASSUME NEW d \in Calls  PROVE PlacesOK(d)' /\ OwnOK(d)' /\ Answered(d)'
  <2>1. CASE d = c
    BY <2>1
  <2>2. CASE d # c
    <3>1. at'[d] = at[d] /\ ptr'[d] = ptr[d] /\ answers'[d] = answers[d]
      BY <2>2
    <3>2. PlacesOK(d)' /\ Answered(d)'
      BY <3>1 DEF RefInv, PlacesOK, AnsweredLast, Answered
    <3>3. Live(d)' = Live(d)
      BY <3>1 DEF Live
    <3>4. ASSUME ptr[d] # None, Live(d) # {}  PROVE req'[ptr[d]] = req[ptr[d]]
      <4>1. ptr[d] \in Reqs /\ req[ptr[d]].owner = d
        BY <3>4 DEF RefInv, TypesOK, OwnOK, R
      <4>2. ptr[d] # ptr'[c]
        BY <4>1, <2>2, Kinds
      <4> QED
        BY <4>1, <4>2
    <3>5. OwnOK(d)'
      BY <3>1, <3>3, <3>4 DEF RefInv, OwnOK, R
    <3> QED
      BY <3>2, <3>5
  <2> QED
    BY <2>1, <2>2
<1>2. PoolOK'
  <2> SUFFICES ASSUME NEW r \in Reqs
               PROVE  \/ req'[r] = FreeReq
                      \/ \E d \in Calls : req'[r].owner = d /\ ptr'[d] = r /\ Live(d)' # {}
    BY DEF PoolOK
  <2>1. CASE r = ptr'[c]
    BY <2>1
  <2>2. CASE r # ptr'[c] /\ req[r] = FreeReq
    BY <2>2
  <2>3. CASE r # ptr'[c] /\ req[r] # FreeReq
    <3>1. req'[r] = req[r] /\ req[r].owner \in Calls /\ ptr[req[r].owner] = r
          /\ Live(req[r].owner) # {}
      BY <2>3 DEF RefInv, PoolOK
    <3>2. req[r].owner # c
      BY <3>1, <2>3, Kinds
    <3>3. ASSUME NEW d \in Calls, d # c  PROVE Live(d)' = Live(d) /\ ptr'[d] = ptr[d]
      BY <3>3 DEF Live
    <3> QED
      BY <3>1, <3>2, <3>3
  <2> QED
    BY <2>1, <2>2, <2>3
<1> QED
  BY <1>1, <1>2 DEF AnsweredLast, Answered

(* A reference moves on; owner and count of its Request stay.              *)
LEMMA MoveRef ==
  ASSUME RefInv, NEW c \in Calls,
         ptr[c] \in Reqs, R(c).owner = c, R(c).ref = Cardinality(Live(c)), Live(c) # {},
         ptr' = ptr, answers' = answers,
         \A d \in Calls : d # c => at'[d] = at[d],
         \A a \in Refs : at'[c][a] = "gone" <=> at[c][a] = "gone",
         \A r \in Reqs : r # ptr[c] => req'[r] = req[r],
         req'[ptr[c]].owner = c, req'[ptr[c]].ref = R(c).ref,
         at'[c][Local] \in {"run", "failed", "ring", "batch"} => req'[ptr[c]].unit = None,
         PlacesOK(c)', answers[c] = 0
  PROVE  (\A d \in Calls : PlacesOK(d)' /\ OwnOK(d)') /\ PoolOK' /\ AnsweredLast'
<1>1. Live(c)' = Live(c)
  BY LiveSame
<1>2. OwnOK(c)'
  BY <1>1 DEF OwnOK, R
<1>3. Answered(c)'
  BY DEF Answered
<1>4. req[ptr'[c]].owner \in {c, None}
  BY DEF R
<1>5. req'[ptr'[c]].owner = c /\ Live(c)' # {}
  BY <1>1
<1> QED
  BY <1>2, <1>3, <1>4, <1>5, CallFrame

(* A reference goes, and is not the last.                                  *)
LEMMA DropRef ==
  ASSUME RefInv, NEW c \in Calls, NEW a \in Refs,
         ptr[c] \in Reqs, R(c).owner = c, R(c).ref = Cardinality(Live(c)),
         ptr' = ptr, answers' = answers,
         \A d \in Calls : d # c => at'[d] = at[d],
         at[c][a] # "gone", at'[c][a] = "gone",
         \A b \in Refs \ {a} : at'[c][b] = "gone" <=> at[c][b] = "gone",
         Cardinality(Live(c)) # 1,
         \A r \in Reqs : r # ptr[c] => req'[r] = req[r],
         req'[ptr[c]].owner = c, req'[ptr[c]].ref = R(c).ref - 1,
         at'[c][Local] \in {"run", "failed", "ring", "batch"} => req'[ptr[c]].unit = None,
         PlacesOK(c)', answers[c] = 0
  PROVE  (\A d \in Calls : PlacesOK(d)' /\ OwnOK(d)') /\ PoolOK' /\ AnsweredLast'
<1>1. Cardinality(Live(c)') = Cardinality(Live(c)) - 1 /\ Live(c)' # {}
  BY LiveDrop
<1>2. OwnOK(c)'
  BY <1>1 DEF OwnOK, R
<1>3. Answered(c)'
  BY DEF Answered
<1>4. req[ptr'[c]].owner \in {c, None}
  BY DEF R
<1>5. req'[ptr'[c]].owner = c /\ Live(c)' # {}
  BY <1>1
<1> QED
  BY <1>2, <1>3, <1>4, <1>5, CallFrame

(* The last reference goes, and the Request with it.                       *)
LEMMA LastRef ==
  ASSUME RefInv, NEW c \in Calls, NEW a \in Refs,
         ptr[c] \in Reqs, R(c).owner = c,
         ptr' = ptr,
         \A d \in Calls : d # c => at'[d] = at[d] /\ answers'[d] = answers[d],
         at[c][a] # "gone", at'[c][a] = "gone",
         \A b \in Refs \ {a} : at'[c][b] = at[c][b],
         Cardinality(Live(c)) = 1,
         \A r \in Reqs : r # ptr[c] => req'[r] = req[r],
         req'[ptr[c]] = FreeReq, answers'[c] <= 1
  PROVE  (\A d \in Calls : PlacesOK(d)' /\ OwnOK(d)') /\ PoolOK' /\ AnsweredLast'
<1>1. Live(c)' = {}
  BY LiveDrop
<1>2. \A b \in Refs : at'[c][b] = "gone"
  BY <1>1 DEF Live
<1>3. OwnOK(c)' /\ Answered(c)'
  BY <1>1, <1>2 DEF OwnOK, Answered
<1>4. PlacesOK(c)'
  BY <1>2, Kinds DEF PlacesOK, LocalPlaces, RpcPlaces
<1>5. req[ptr'[c]].owner \in {c, None}
  BY DEF R
<1> QED
  BY <1>3, <1>4, <1>5, CallFrame

(* The queues do not notice a call that is in none of them.                *)
LEMMA QueueFrame ==
  ASSUME RefInv, NEW c \in Calls, ring' = ring, batch' = batch,
         \A d \in Calls : d # c => at'[d] = at[d],
         at'[c][Local] = at[c][Local] \/ at[c][Local] \notin {"ring", "batch"}
  PROVE  QueuesOK'
<1>1. \A i \in 1..Len(ring) : ring[i] \in Calls
  BY DEF RefInv, TypesOK
<1>2. \A w \in Workers : \A i \in 1..Len(batch[w]) : batch[w][i] \in Calls
  BY DEF RefInv, TypesOK
<1>3. \A d \in Calls : at[d][Local] \in {"ring", "batch"} => at'[d][Local] = at[d][Local]
  OBVIOUS
<1>4. \A i \in 1..Len(ring) : at'[ring[i]][Local] = "ring"
  BY <1>1, <1>3 DEF RefInv, QueuesOK
<1>5. \A w \in Workers : \A i \in 1..Len(batch[w]) : at'[batch[w][i]][Local] = "batch"
  BY <1>2, <1>3 DEF RefInv, QueuesOK
<1> QED
  BY <1>4, <1>5 DEF RefInv, QueuesOK

Unissued == {"run", "failed", "ring", "batch"}

(* One reference of a call moves from one place to another.                *)
LEMMA StepRef ==
  ASSUME RefInv, NEW c \in Calls, NEW a \in Refs, NEW p,
         at[c][a] \notin {"gone", "attached"}, a = Local => at[c][a] # "new",
         at' = [at EXCEPT ![c][a] = p],
         a = Local => p \in LocalPlaces \ {"new", "attached", "gone"},
         a # Local => p \in RpcPlaces \ {"gone"},
         ptr' = ptr, answers' = answers,
         \A r \in Reqs : r # ptr[c] => req'[r] = req[r],
         req'[ptr[c]].owner = R(c).owner, req'[ptr[c]].ref = R(c).ref,
         at'[c][Local] \in Unissued => req'[ptr[c]].unit = None
  PROVE  (\A d \in Calls : PlacesOK(d)' /\ OwnOK(d)') /\ PoolOK' /\ AnsweredLast'
<1>1. /\ ptr[c] \in Reqs /\ ptr[c] # None /\ a \in Live(c)
      /\ R(c).owner = c /\ R(c).ref = Cardinality(Live(c)) /\ answers[c] = 0
  BY Owned
<1>2. /\ at'[c][a] = p
      /\ \A b \in Refs : b # a => at'[c][b] = at[c][b]
      /\ \A d \in Calls : d # c => at'[d] = at[d]
  BY AtExcept DEF RefInv, TypesOK
<1>3. PlacesOK(c)
  BY DEF RefInv
<1>4. a # Local => c \in Writes
  BY <1>3, Kinds DEF PlacesOK
<1>5. PlacesOK(c)'
  BY <1>1, <1>2, <1>3, <1>4, Kinds DEF PlacesOK
<1>6. \A b \in Refs : at'[c][b] = "gone" <=> at[c][b] = "gone"
  BY <1>2
<1> QED
  BY <1>1, <1>2, <1>5, <1>6, MoveRef DEF Unissued

LEMMA QueueStep ==
  ASSUME RefInv, NEW c \in Calls, NEW a \in Refs, NEW p,
         at' = [at EXCEPT ![c][a] = p], ring' = ring, batch' = batch,
         a = Local => at[c][Local] \notin {"ring", "batch"}
  PROVE  QueuesOK'
<1>1. /\ \A b \in Refs : b # a => at'[c][b] = at[c][b]
      /\ \A d \in Calls : d # c => at'[d] = at[d]
  BY AtExcept DEF RefInv, TypesOK
<1> QED
  BY <1>1, QueueFrame, Kinds

(* A worker takes the first call from its batch.                           *)
LEMMA BatchTail ==
  ASSUME RefInv, TypesOK', NEW w \in Workers, batch[w] # <<>>,
         NEW c \in Calls, c = batch[w][1], at[c][Local] = "batch", 1 \in 1..Len(batch[w]),
         ring' = ring, batch'[w] = Tail(batch[w]),
         \A v \in Workers : v # w => batch'[v] = batch[v],
         \A d \in Calls : d # c => at'[d] = at[d]
  PROVE  QueuesOK'
<1>1. batch \in [Workers -> Seq(Calls)] /\ batch' \in [Workers -> Seq(Calls)] /\ ring \in Seq(Calls)
  BY DEF RefInv, TypesOK
<1>2. /\ \A v \in Workers : Len(batch[v]) \in Nat /\ Len(batch'[v]) \in Nat
      /\ \A v \in Workers : \A i \in 1..Len(batch[v]) : batch[v][i] \in Calls
  BY <1>1
<1>3. /\ Len(batch'[w]) = Len(batch[w]) - 1
      /\ \A i \in 1..Len(batch'[w]) : i + 1 \in 1..Len(batch[w]) /\ batch'[w][i] = batch[w][i + 1]
      /\ \A v \in Workers : v # w => batch'[v] = batch[v]
  BY <1>1, <1>2
<1>4. ASSUME NEW v \in Workers, NEW i \in 1..Len(batch'[v])
      PROVE  \E j \in 1..Len(batch[v]) : /\ batch'[v][i] = batch[v][j]
                                         /\ j = IF v = w THEN i + 1 ELSE i
  BY <1>3, <1>4
<1>5. ASSUME NEW v \in Workers, NEW i \in 1..Len(batch'[v])
      PROVE  at'[batch'[v][i]][Local] = "batch"
  <2>1. PICK j \in 1..Len(batch[v]) : /\ batch'[v][i] = batch[v][j]
                                      /\ j = IF v = w THEN i + 1 ELSE i
    BY <1>4, <1>5
  <2>2. i \in Nat /\ i >= 1
    BY <1>2, <1>5
  <2>3. batch[v][j] # c
    BY <2>1, <2>2 DEF RefInv, QueuesOK
  <2> QED
    BY <2>1, <2>3, <1>2 DEF RefInv, QueuesOK
<1>6. ASSUME NEW v \in Workers, NEW u \in Workers,
             NEW i \in 1..Len(batch'[v]), NEW j \in 1..Len(batch'[u]),
             batch'[v][i] = batch'[u][j]
      PROVE  v = u /\ i = j
  <2>1. PICK k \in 1..Len(batch[v]) : /\ batch'[v][i] = batch[v][k]
                                      /\ k = IF v = w THEN i + 1 ELSE i
    BY <1>4, <1>6
  <2>2. PICK l \in 1..Len(batch[u]) : /\ batch'[u][j] = batch[u][l]
                                      /\ l = IF u = w THEN j + 1 ELSE j
    BY <1>4, <1>6
  <2>3. v = u /\ k = l
    BY <2>1, <2>2, <1>6 DEF RefInv, QueuesOK
  <2>4. i \in Nat /\ j \in Nat
    BY <1>2, <1>6
  <2> QED
    BY <2>1, <2>2, <2>3, <2>4
<1>7. ASSUME NEW i \in 1..Len(ring)  PROVE at'[ring[i]][Local] = "ring"
  <2>1. ring[i] \in Calls /\ at[ring[i]][Local] = "ring"
    BY <1>1 DEF RefInv, QueuesOK
  <2> QED
    BY <2>1
<1>8. \A i, j \in 1..Len(ring) : ring[i] = ring[j] => i = j
  BY DEF RefInv, QueuesOK
<1> QED
  BY <1>5, <1>6, <1>7, <1>8 DEF QueuesOK

-----------------------------------------------------------------------------
(* Every step keeps the reference counts.                                  *)
LEMMA RefStep == RefInv /\ [Next]_vars => RefInv'
<1> SUFFICES ASSUME RefInv, [Next]_vars  PROVE RefInv'
  OBVIOUS
<1>0. /\ TypesOK /\ TypesOK' /\ at \in AtType /\ req \in ReqType /\ ptr \in [Calls -> Reqs \cup {None}]
      /\ Local \in Refs
      /\ \A s \in Secondaries : s \in Refs /\ s # Local
      /\ \A c \in Writes : c \in Calls
      /\ None \notin Reqs /\ None \notin Calls
  BY TypeStep, Kinds DEF RefInv, TypesOK
<1> DEFINE Good == (\A d \in Calls : PlacesOK(d)' /\ OwnOK(d)') /\ PoolOK' /\ AnsweredLast'
<1> HIDE DEF Good
<1>1. ASSUME NEW c \in Calls, NoRequest(c)  PROVE RefInv'
  <2>1. /\ at' = [at EXCEPT ![c][Local] = "gone"] /\ at[c][Local] = "new"
        /\ ptr' = ptr /\ req' = req /\ ring' = ring /\ batch' = batch
        /\ answers' = [answers EXCEPT ![c] = @ + 1]
    BY <1>1 DEF NoRequest, Answer
  <2>2. /\ at'[c][Local] = "gone"
        /\ \A b \in Refs : b # Local => at'[c][b] = at[c][b]
        /\ \A d \in Calls : d # c => at'[d] = at[d]
    BY <2>1, <1>0, AtExcept
  <2>3. ptr[c] = None /\ answers[c] = 0 /\ \A s \in Secondaries : at[c][s] = "gone"
    BY <2>1 DEF RefInv, PlacesOK
  <2>4. \A b \in Refs : at'[c][b] = "gone"
    BY <2>2, <2>3, Kinds
  <2>5. answers'[c] = 1 /\ \A d \in Calls : d # c => answers'[d] = answers[d]
    BY <2>1, <2>3, <1>0 DEF TypesOK
  <2>6. PlacesOK(c)'
    BY <2>1, <2>3, <2>4, <1>0 DEF PlacesOK, LocalPlaces, RpcPlaces
  <2>7. OwnOK(c)' /\ Answered(c)'
    BY <2>1, <2>3, <2>4, <2>5 DEF OwnOK, Answered
  <2>8. Good
    BY <2>1, <2>2, <2>3, <2>5, <2>6, <2>7, <1>0, CallFrame DEF Good
  <2>9. QueuesOK'
    BY <2>1, <1>0, QueueStep
  <2> QED
    BY <1>0, <2>8, <2>9 DEF RefInv, Good
<1>2. ASSUME NEW c \in Calls, Refuse(c)  PROVE RefInv'
  <2>1. PICK r \in Reqs : /\ req[r].owner = None
                          /\ req' = [req EXCEPT ![r] = [FreeReq EXCEPT !.owner = c]]
                          /\ ptr' = [ptr EXCEPT ![c] = r]
    BY <1>2 DEF Refuse
  <2>2. /\ at[c][Local] = "new" /\ ring' = ring /\ batch' = batch /\ answers' = answers
    BY <1>2 DEF Refuse
  <2>3. /\ ptr'[c] = r /\ \A d \in Calls : d # c => ptr'[d] = ptr[d]
    BY <2>1, <1>0
  <2>4. /\ req'[r] = [FreeReq EXCEPT !.owner = c]
        /\ \A q \in Reqs : q # r => req'[q] = req[q]
    BY <2>1, <1>0, ReqExcept
  <2>5. ptr[c] = None /\ answers[c] = 0 /\ \A s \in Secondaries : at[c][s] = "gone"
    BY <2>2 DEF RefInv, PlacesOK
  <2>6. /\ at'[c][Local] = "failed"
        /\ \A b \in Refs : b # Local => at'[c][b] = at[c][b]
        /\ \A d \in Calls : d # c => at'[d] = at[d]
    BY <1>2, <1>0, AtExcept DEF Refuse
  <2>7. Live(c)' = {Local} /\ Cardinality(Live(c)') = 1
    <3>1. Live(c)' = {Local}
      BY <2>5, <2>6, Kinds DEF Live
    <3> QED
      BY <3>1, FS_Singleton
  <2>8. req'[r].owner = c /\ req'[r].ref = 1 /\ req'[r].unit = None
    BY <2>4 DEF FreeReq
  <2>9. PlacesOK(c)'
    BY <2>2, <2>3, <2>5, <2>6, <1>0 DEF PlacesOK, LocalPlaces, RpcPlaces
  <2>10. OwnOK(c)' /\ Answered(c)'
    BY <2>2, <2>3, <2>5, <2>7, <2>8 DEF OwnOK, Answered, R
  <2>11. Good
    BY <2>1, <2>2, <2>3, <2>4, <2>5, <2>6, <2>7, <2>8, <2>9, <2>10, <1>0, CallFrame DEF Good
  <2>12. QueuesOK'
    BY <2>2, <2>6, QueueFrame
  <2> QED
    BY <1>0, <2>11, <2>12 DEF RefInv, Good
<1>3. ASSUME NEW c \in Calls, Accept(c)  PROVE RefInv'
  <2>1. PICK r \in Reqs : /\ req[r].owner = None
                          /\ req' = [req EXCEPT ![r] = [FreeReq EXCEPT !.owner = c, !.ref = RefCount(c)]]
                          /\ ptr' = [ptr EXCEPT ![c] = r]
    BY <1>3 DEF Accept
  <2>2. /\ at[c][Local] = "new" /\ ring' = ring /\ batch' = batch /\ answers' = answers
    BY <1>3 DEF Accept
  <2>3. /\ ptr'[c] = r /\ \A d \in Calls : d # c => ptr'[d] = ptr[d]
    BY <2>1, <1>0
  <2>4. /\ req'[r] = [FreeReq EXCEPT !.owner = c, !.ref = RefCount(c)]
        /\ \A q \in Reqs : q # r => req'[q] = req[q]
    BY <2>1, <1>0, ReqExcept
  <2>5. ptr[c] = None /\ answers[c] = 0 /\ \A s \in Secondaries : at[c][s] = "gone"
    BY <2>2 DEF RefInv, PlacesOK
  <2>6. /\ at'[c] = [a \in Refs |-> IF a = Local THEN "run" ELSE IF c \in Writes THEN "new" ELSE "gone"]
        /\ \A d \in Calls : d # c => at'[d] = at[d]
    BY <1>3, <1>0 DEF Accept, AtType
  <2>7. Cardinality(Live(c)') = RefCount(c) /\ Local \in Live(c)'
    <3>1. CASE c \in Writes
      <4>1. Live(c)' = Refs
        BY <2>6, <3>1 DEF Live
      <4> QED
        BY <4>1, <3>1, <1>0, RefsFinite DEF RefCount
    <3>2. CASE c \notin Writes
      <4>1. Live(c)' = {Local}
        BY <2>6, <3>2, <1>0 DEF Live
      <4> QED
        BY <4>1, <3>2, FS_Singleton DEF RefCount
    <3> QED
      BY <3>1, <3>2
  <2>8. req'[r].owner = c /\ req'[r].ref = RefCount(c) /\ req'[r].unit = None
    BY <2>4 DEF FreeReq
  <2>9. PlacesOK(c)'
    BY <2>2, <2>3, <2>6, <1>0 DEF PlacesOK, LocalPlaces, RpcPlaces
  <2>10. OwnOK(c)' /\ Answered(c)'
    BY <2>2, <2>3, <2>5, <2>7, <2>8 DEF OwnOK, Answered, R
  <2>11. Good
    BY <2>1, <2>2, <2>3, <2>4, <2>5, <2>6, <2>7, <2>8, <2>9, <2>10, <1>0, CallFrame DEF Good
  <2>12. QueuesOK'
    BY <2>2, <2>6, QueueFrame
  <2> QED
    BY <1>0, <2>11, <2>12 DEF RefInv, Good
<1>4. ASSUME NEW c \in Calls, Submit(c)  PROVE RefInv'
  <2>1. /\ ptr[c] \in Reqs /\ R(c) = req[ptr[c]] /\ R(c) \in Request
        /\ at[c][Local] \in Unissued => R(c).unit = None
    BY <1>4, <1>0, Owned DEF Submit, Unissued
  <2>2. PICK p \in {"ring", "failed"} :
          /\ at' = [at EXCEPT ![c][Local] = p]
          /\ IF p = "ring" THEN ring' = Append(ring, c) ELSE ring' = ring
    BY <1>4 DEF Submit
  <2>3. at[c][Local] = "run" /\ ptr' = ptr /\ answers' = answers /\ req' = req /\ batch' = batch
    BY <1>4 DEF Submit
  <2>4. Good
    BY <2>1, <2>2, <2>3, <1>0, StepRef DEF Good, LocalPlaces, Unissued
  <2>5. CASE p = "failed"
    <3>1. QueuesOK'
      BY <2>2, <2>3, <2>5, <1>0, QueueStep
    <3> QED
      BY <2>4, <3>1, <1>0 DEF RefInv, Good
  <2>6. CASE p = "ring"
    <3>1. /\ ring' = Append(ring, c) /\ ring \in Seq(Calls) /\ Len(ring) \in Nat
          /\ batch \in [Workers -> Seq(Calls)]
      BY <2>2, <2>6, <1>0, SMTT(30) DEF TypesOK
    <3>2. /\ at'[c][Local] = "ring"
          /\ \A d \in Calls : d # c => at'[d] = at[d]
      BY <2>2, <2>6, <1>0 DEF AtType
    <3>3. /\ Len(ring') = Len(ring) + 1 /\ ring'[Len(ring) + 1] = c
          /\ \A i \in 1..Len(ring) : ring'[i] = ring[i]
      BY <3>1
    <3>4. \A i \in 1..Len(ring) : ring[i] \in Calls /\ ring[i] # c /\ at'[ring[i]][Local] = "ring"
      BY <3>1, <3>2, <2>3 DEF RefInv, QueuesOK
    <3>5. \A i \in 1..Len(ring') : i = Len(ring) + 1 \/ i \in 1..Len(ring)
      BY <3>1, <3>3
    <3>6. \A i \in 1..Len(ring') : at'[ring'[i]][Local] = "ring"
      BY <3>2, <3>3, <3>4, <3>5
    <3>7. \A i, j \in 1..Len(ring') : ring'[i] = ring'[j] => i = j
      BY <3>3, <3>4, <3>5 DEF RefInv, QueuesOK
    <3>8. \A w \in Workers : \A i \in 1..Len(batch[w]) :
            batch[w][i] \in Calls /\ at[batch[w][i]][Local] = "batch"
      BY <3>1 DEF RefInv, QueuesOK
    <3>9. \A w \in Workers : \A i \in 1..Len(batch[w]) : at'[batch[w][i]][Local] = "batch"
      BY <3>2, <3>8, <2>3
    <3>10. QueuesOK'
      BY <3>6, <3>7, <3>9, <2>3 DEF RefInv, QueuesOK
    <3> QED
      BY <2>4, <3>10, <1>0 DEF RefInv, Good
  <2> QED
    BY <2>2, <2>5, <2>6
<1>5. ASSUME NEW c \in Calls, NoLocation(c)  PROVE RefInv'
  <2>1. /\ ptr[c] \in Reqs /\ R(c) = req[ptr[c]] /\ R(c) \in Request
        /\ at[c][Local] \in Unissued => R(c).unit = None
    BY <1>5, <1>0, Owned DEF NoLocation, Unissued
  <2>2. PICK p \in {"callback", "failed"} : at' = [at EXCEPT ![c][Local] = p]
    BY <1>5 DEF NoLocation
  <2>3. /\ at[c][Local] = "run" /\ ptr' = ptr /\ answers' = answers
        /\ ring' = ring /\ batch' = batch
    BY <1>5 DEF NoLocation
  <2>4. /\ \A r \in Reqs : r # ptr[c] => req'[r] = req[r]
        /\ req'[ptr[c]].owner = R(c).owner /\ req'[ptr[c]].ref = R(c).ref
        /\ req'[ptr[c]].unit = R(c).unit
    BY <1>5, <2>1 DEF NoLocation
  <2>5. at'[c][Local] \in Unissued => req'[ptr[c]].unit = None
    BY <2>1, <2>2, <2>3, <2>4, <1>0, AtExcept DEF Unissued
  <2>6. Good
    BY <2>2, <2>3, <2>4, <2>5, <1>0, StepRef DEF Good, LocalPlaces, RpcPlaces
  <2>7. QueuesOK'
    BY <2>2, <2>3, <1>0, QueueStep
  <2> QED
    BY <1>0, <2>6, <2>7 DEF RefInv, Good
<1>6. ASSUME NEW c \in Calls, Fail(c)  PROVE RefInv'
  <2>1. /\ ptr[c] \in Reqs /\ R(c) = req[ptr[c]] /\ R(c) \in Request
        /\ at[c][Local] \in Unissued => R(c).unit = None
    BY <1>6, <1>0, Owned DEF Fail, Unissued
  <2>2. PICK p \in {"callback"} : at' = [at EXCEPT ![c][Local] = p]
    BY <1>6 DEF Fail
  <2>3. /\ at[c][Local] = "failed" /\ ptr' = ptr /\ answers' = answers
        /\ ring' = ring /\ batch' = batch
    BY <1>6 DEF Fail
  <2>4. /\ \A r \in Reqs : r # ptr[c] => req'[r] = req[r]
        /\ req'[ptr[c]].owner = R(c).owner /\ req'[ptr[c]].ref = R(c).ref
        /\ req'[ptr[c]].unit = R(c).unit
    BY <1>6, <2>1, <1>0 DEF Fail, ReqType, Request
  <2>5. at'[c][Local] \in Unissued => req'[ptr[c]].unit = None
    BY <2>1, <2>2, <2>3, <2>4, <1>0, AtExcept DEF Unissued
  <2>6. Good
    BY <2>2, <2>3, <2>4, <2>5, <1>0, StepRef DEF Good, LocalPlaces, RpcPlaces
  <2>7. QueuesOK'
    BY <2>2, <2>3, <1>0, QueueStep
  <2> QED
    BY <1>0, <2>6, <2>7 DEF RefInv, Good
<1>7. ASSUME NEW c \in Calls, DeviceEnds(c)  PROVE RefInv'
  <2>1. /\ ptr[c] \in Reqs /\ R(c) = req[ptr[c]] /\ R(c) \in Request
        /\ at[c][Local] \in Unissued => R(c).unit = None
    BY <1>7, <1>0, Owned DEF DeviceEnds, Unissued
  <2>2. PICK p \in {"ended"} : at' = [at EXCEPT ![c][Local] = p]
    BY <1>7 DEF DeviceEnds
  <2>3. /\ at[c][Local] = "device" /\ ptr' = ptr /\ answers' = answers
        /\ ring' = ring /\ batch' = batch
    BY <1>7 DEF DeviceEnds
  <2>4. /\ \A r \in Reqs : r # ptr[c] => req'[r] = req[r]
        /\ req'[ptr[c]].owner = R(c).owner /\ req'[ptr[c]].ref = R(c).ref
        /\ req'[ptr[c]].unit = R(c).unit
    BY <1>7, <2>1 DEF DeviceEnds
  <2>5. at'[c][Local] \in Unissued => req'[ptr[c]].unit = None
    BY <2>1, <2>2, <2>3, <2>4, <1>0, AtExcept DEF Unissued
  <2>6. Good
    BY <2>2, <2>3, <2>4, <2>5, <1>0, StepRef DEF Good, LocalPlaces, RpcPlaces
  <2>7. QueuesOK'
    BY <2>2, <2>3, <1>0, QueueStep
  <2> QED
    BY <1>0, <2>6, <2>7 DEF RefInv, Good
<1>8. ASSUME NEW c \in Calls, DeviceFails(c)  PROVE RefInv'
  <2>1. /\ ptr[c] \in Reqs /\ R(c) = req[ptr[c]] /\ R(c) \in Request
        /\ at[c][Local] \in Unissued => R(c).unit = None
    BY <1>8, <1>0, Owned DEF DeviceFails, Unissued
  <2>2. PICK p \in {"errored"} : at' = [at EXCEPT ![c][Local] = p]
    BY <1>8 DEF DeviceFails
  <2>3. /\ at[c][Local] = "device" /\ ptr' = ptr /\ answers' = answers
        /\ ring' = ring /\ batch' = batch
    BY <1>8 DEF DeviceFails
  <2>4. /\ \A r \in Reqs : r # ptr[c] => req'[r] = req[r]
        /\ req'[ptr[c]].owner = R(c).owner /\ req'[ptr[c]].ref = R(c).ref
        /\ req'[ptr[c]].unit = R(c).unit
    BY <1>8, <2>1 DEF DeviceFails
  <2>5. at'[c][Local] \in Unissued => req'[ptr[c]].unit = None
    BY <2>1, <2>2, <2>3, <2>4, <1>0, AtExcept DEF Unissued
  <2>6. Good
    BY <2>2, <2>3, <2>4, <2>5, <1>0, StepRef DEF Good, LocalPlaces, RpcPlaces
  <2>7. QueuesOK'
    BY <2>2, <2>3, <1>0, QueueStep
  <2> QED
    BY <1>0, <2>6, <2>7 DEF RefInv, Good
<1>9. ASSUME NEW c \in Calls, Poll(c)  PROVE RefInv'
  <2>1. /\ ptr[c] \in Reqs /\ R(c) = req[ptr[c]] /\ R(c) \in Request
        /\ at[c][Local] \in Unissued => R(c).unit = None
    BY <1>9, <1>0, Owned DEF Poll, Unissued
  <2>2. PICK p \in {"storeT", "storeF"} : at' = [at EXCEPT ![c][Local] = p]
    BY <1>9 DEF Poll, SetResult
  <2>3. /\ at[c][Local] \in {"ended", "errored"} /\ ptr' = ptr /\ answers' = answers
        /\ ring' = ring /\ batch' = batch
    BY <1>9 DEF Poll
  <2>4. /\ \A r \in Reqs : r # ptr[c] => req'[r] = req[r]
        /\ req'[ptr[c]].owner = R(c).owner /\ req'[ptr[c]].ref = R(c).ref
        /\ req'[ptr[c]].unit = R(c).unit
    BY <1>9, <2>1 DEF Poll
  <2>5. at'[c][Local] \in Unissued => req'[ptr[c]].unit = None
    BY <2>1, <2>2, <2>3, <2>4, <1>0, AtExcept DEF Unissued
  <2>6. Good
    BY <2>2, <2>3, <2>4, <2>5, <1>0, StepRef DEF Good, LocalPlaces, RpcPlaces
  <2>7. QueuesOK'
    BY <2>2, <2>3, <1>0, QueueStep
  <2> QED
    BY <1>0, <2>6, <2>7 DEF RefInv, Good
<1>10. ASSUME NEW c \in Calls, NEW s \in Secondaries, SendOne(c, s)  PROVE RefInv'
  <2>1. /\ ptr[c] \in Reqs /\ R(c) = req[ptr[c]] /\ R(c) \in Request
        /\ at[c][Local] \in Unissued => R(c).unit = None
    BY <1>10, <1>0, Owned DEF SendOne, Unissued
  <2>2. PICK p \in {"sent"} : at' = [at EXCEPT ![c][s] = p]
    BY <1>10 DEF SendOne
  <2>3. /\ at[c][s] = "new" /\ ptr' = ptr /\ answers' = answers
        /\ ring' = ring /\ batch' = batch
    BY <1>10 DEF SendOne
  <2>4. /\ \A r \in Reqs : r # ptr[c] => req'[r] = req[r]
        /\ req'[ptr[c]].owner = R(c).owner /\ req'[ptr[c]].ref = R(c).ref
        /\ req'[ptr[c]].unit = R(c).unit
    BY <1>10, <2>1 DEF SendOne
  <2>5. at'[c][Local] \in Unissued => req'[ptr[c]].unit = None
    BY <2>1, <2>2, <2>3, <2>4, <1>0, AtExcept DEF Unissued
  <2>6. Good
    BY <2>2, <2>3, <2>4, <2>5, <1>0, StepRef DEF Good, LocalPlaces, RpcPlaces
  <2>7. QueuesOK'
    BY <2>2, <2>3, <1>0, QueueStep
  <2> QED
    BY <1>0, <2>6, <2>7 DEF RefInv, Good
<1>11. ASSUME NEW c \in Writes, NEW s \in Secondaries, HandleResponse(c, s)  PROVE RefInv'
  <2>1. /\ ptr[c] \in Reqs /\ R(c) = req[ptr[c]] /\ R(c) \in Request
        /\ at[c][Local] \in Unissued => R(c).unit = None
    BY <1>11, <1>0, Owned DEF HandleResponse, Unissued
  <2>2. PICK p \in {"storeT", "storeF"} : at' = [at EXCEPT ![c][s] = p]
    BY <1>11 DEF HandleResponse, SetResult
  <2>3. /\ at[c][s] = "sent" /\ ptr' = ptr /\ answers' = answers
        /\ ring' = ring /\ batch' = batch
    BY <1>11 DEF HandleResponse
  <2>4. /\ \A r \in Reqs : r # ptr[c] => req'[r] = req[r]
        /\ req'[ptr[c]].owner = R(c).owner /\ req'[ptr[c]].ref = R(c).ref
        /\ req'[ptr[c]].unit = R(c).unit
    BY <1>11, <2>1 DEF HandleResponse
  <2>5. at'[c][Local] \in Unissued => req'[ptr[c]].unit = None
    BY <2>1, <2>2, <2>3, <2>4, <1>0, AtExcept DEF Unissued
  <2>6. Good
    BY <2>2, <2>3, <2>4, <2>5, <1>0, StepRef DEF Good, LocalPlaces, RpcPlaces
  <2>7. QueuesOK'
    BY <2>2, <2>3, <1>0, QueueStep
  <2> QED
    BY <1>0, <2>6, <2>7 DEF RefInv, Good
<1>12. ASSUME NEW c \in Calls, NEW a \in Refs, StoreResult(c, a)  PROVE RefInv'
  <2>1. /\ ptr[c] \in Reqs /\ R(c) = req[ptr[c]] /\ R(c) \in Request
        /\ at[c][Local] \in Unissued => R(c).unit = None
    BY <1>12, <1>0, Owned DEF StoreResult, Unissued
  <2>2. PICK p \in {"callback"} : at' = [at EXCEPT ![c][a] = p]
    BY <1>12 DEF StoreResult
  <2>3. /\ at[c][a] \in {"storeT", "storeF"} /\ ptr' = ptr /\ answers' = answers
        /\ ring' = ring /\ batch' = batch
    BY <1>12 DEF StoreResult
  <2>4. /\ \A r \in Reqs : r # ptr[c] => req'[r] = req[r]
        /\ req'[ptr[c]].owner = R(c).owner /\ req'[ptr[c]].ref = R(c).ref
        /\ req'[ptr[c]].unit = R(c).unit
    BY <1>12, <2>1, <1>0 DEF StoreResult, ReqType, Request
  <2>5. at'[c][Local] \in Unissued => req'[ptr[c]].unit = None
    BY <2>1, <2>2, <2>3, <2>4, <1>0, AtExcept DEF Unissued
  <2>6. Good
    BY <2>2, <2>3, <2>4, <2>5, <1>0, StepRef DEF Good, LocalPlaces, RpcPlaces
  <2>7. QueuesOK'
    BY <2>2, <2>3, <1>0, QueueStep
  <2> QED
    BY <1>0, <2>6, <2>7 DEF RefInv, Good
<1>13. ASSUME NEW c \in Calls, NEW s \in Secondaries, LaterPassed(c, s)  PROVE RefInv'
  <2>1. /\ at[c][Local] = "failed" /\ at[c][s] = "new" /\ at' = [at EXCEPT ![c][s] = "gone"]
        /\ ptr' = ptr /\ answers' = answers /\ ring' = ring /\ batch' = batch
        /\ req' = [req EXCEPT ![ptr[c]].ref = @ - 1]
    BY <1>13 DEF LaterPassed
  <2>2. /\ at'[c][s] = "gone"
        /\ \A b \in Refs : b # s => at'[c][b] = at[c][b]
        /\ \A d \in Calls : d # c => at'[d] = at[d]
    BY <2>1, <1>0, AtExcept
  <2>3. /\ ptr[c] \in Reqs /\ R(c) = req[ptr[c]] /\ R(c) \in Request /\ R(c).owner = c
        /\ R(c).ref = Cardinality(Live(c)) /\ answers[c] = 0 /\ R(c).unit = None
        /\ s \in Live(c) /\ ptr[c] # None
    BY <2>1, <1>0, Owned
  <2>4. Local \in Live(c) /\ Local \in Live(c)'
    BY <2>1, <2>2, <1>0 DEF Live
  <2>5. Cardinality(Live(c)) # 1
    BY <2>1, <2>2, <2>4, <1>0, LiveDrop
  <2>6. /\ \A r \in Reqs : r # ptr[c] => req'[r] = req[r]
        /\ req'[ptr[c]].owner = c /\ req'[ptr[c]].ref = R(c).ref - 1
        /\ req'[ptr[c]].unit = None
    BY <2>1, <2>3, <1>0 DEF ReqType, Request
  <2>7. PlacesOK(c)'
    BY <2>1, <2>2, <2>3, <1>0 DEF RefInv, PlacesOK, RpcPlaces
  <2>8. Good
    BY <2>1, <2>2, <2>3, <2>5, <2>6, <2>7, <1>0, DropRef DEF Good
  <2>9. QueuesOK'
    BY <2>1, <1>0, QueueStep
  <2> QED
    BY <1>0, <2>8, <2>9 DEF RefInv, Good
<1>14. ASSUME NEW c \in Calls, NEW s \in Secondaries, FirstFails(c, s)  PROVE RefInv'
  <2>1. /\ at[c][Local] = "run" /\ at[c][s] = "new"
        /\ at' = [at EXCEPT ![c][s] = "gone", ![c][Local] = "failed"]
        /\ ptr' = ptr /\ answers' = answers /\ ring' = ring /\ batch' = batch
        /\ req' = [req EXCEPT ![ptr[c]].result = FALSE, ![ptr[c]].ref = @ - 1]
    BY <1>14 DEF FirstFails
  <2>2. /\ at'[c][s] = "gone" /\ at'[c][Local] = "failed"
        /\ \A b \in Refs : b # s /\ b # Local => at'[c][b] = at[c][b]
        /\ \A d \in Calls : d # c => at'[d] = at[d]
    BY <2>1, <1>0 DEF AtType
  <2>3. /\ ptr[c] \in Reqs /\ R(c) = req[ptr[c]] /\ R(c) \in Request /\ R(c).owner = c
        /\ R(c).ref = Cardinality(Live(c)) /\ answers[c] = 0 /\ R(c).unit = None
        /\ s \in Live(c) /\ ptr[c] # None
    BY <2>1, <1>0, Owned
  <2>4. /\ Local \in Live(c) /\ Local \in Live(c)'
        /\ \A b \in Refs \ {s} : at'[c][b] = "gone" <=> at[c][b] = "gone"
    BY <2>1, <2>2, <1>0 DEF Live
  <2>5. Cardinality(Live(c)) # 1
    BY <2>1, <2>2, <2>4, <1>0, LiveDrop
  <2>6. /\ \A r \in Reqs : r # ptr[c] => req'[r] = req[r]
        /\ req'[ptr[c]].owner = c /\ req'[ptr[c]].ref = R(c).ref - 1
        /\ req'[ptr[c]].unit = None
    BY <2>1, <2>3, <1>0 DEF ReqType, Request
  <2>7. PlacesOK(c)'
    BY <2>1, <2>2, <2>3, <1>0, ZenonT(30) DEF RefInv, PlacesOK, RpcPlaces, LocalPlaces
  <2>8. Good
    BY <2>1, <2>2, <2>3, <2>4, <2>5, <2>6, <2>7, <1>0, DropRef DEF Good
  <2>9. QueuesOK'
    BY <2>1, <2>2, <1>0, QueueFrame
  <2> QED
    BY <1>0, <2>8, <2>9 DEF RefInv, Good
<1>15. ASSUME NEW c \in Calls, DeleteDone(c)  PROVE RefInv'
  <2>1. /\ c \in Others /\ at[c][Local] = "callback"
        /\ at' = [at EXCEPT ![c][Local] = "gone"] /\ ptr' = ptr /\ ring' = ring /\ batch' = batch
        /\ req' = [req EXCEPT ![ptr[c]] = FreeReq]
        /\ answers' = [answers EXCEPT ![c] = @ + 1]
    BY <1>15 DEF DeleteDone, Respond, Answer, PutRequest
  <2>2. /\ at'[c][Local] = "gone"
        /\ \A b \in Refs : b # Local => at'[c][b] = at[c][b]
        /\ \A d \in Calls : d # c => at'[d] = at[d]
    BY <2>1, <1>0, AtExcept
  <2>3. c \notin Writes /\ at[c][Local] # "gone"
    BY <2>1, Kinds DEF RefInv, PlacesOK
  <2>4. ptr[c] \in Reqs /\ R(c).owner = c /\ (answers[c] = 0 \/ at[c][Local] = "attached")
    BY <2>1, <2>3, <1>0, Owned
  <2>5. Cardinality(Live(c)) = 1
    BY <2>3, OnlyLocal
  <2>6. req'[ptr[c]] = FreeReq /\ \A r \in Reqs : r # ptr[c] => req'[r] = req[r]
    BY <2>1, <2>4, <1>0, ReqExcept
  <2>7. answers'[c] <= 1 /\ \A d \in Calls : d # c => answers'[d] = answers[d]
    BY <2>1, <2>4, <1>0 DEF TypesOK, RefInv, AnsweredLast
  <2>8. Good
    BY <2>1, <2>2, <2>3, <2>4, <2>5, <2>6, <2>7, <1>0, LastRef DEF Good
  <2>9. QueuesOK'
    BY <2>1, <1>0, QueueStep
  <2> QED
    BY <1>0, <2>8, <2>9 DEF RefInv, Good
<1>16. ASSUME NEW c \in Calls, ReclaimIOUnit(c)  PROVE RefInv'
  <2>1. /\ at[c][Local] = "attached"
        /\ at' = [at EXCEPT ![c][Local] = "gone"] /\ ptr' = ptr /\ ring' = ring /\ batch' = batch
        /\ req' = [req EXCEPT ![ptr[c]] = FreeReq]
        /\ answers' = answers
    BY <1>16 DEF ReclaimIOUnit, Respond, Answer, PutRequest
  <2>2. /\ at'[c][Local] = "gone"
        /\ \A b \in Refs : b # Local => at'[c][b] = at[c][b]
        /\ \A d \in Calls : d # c => at'[d] = at[d]
    BY <2>1, <1>0, AtExcept
  <2>3. c \notin Writes /\ at[c][Local] # "gone"
    BY <2>1, Kinds DEF RefInv, PlacesOK
  <2>4. ptr[c] \in Reqs /\ R(c).owner = c /\ (answers[c] = 0 \/ at[c][Local] = "attached")
    BY <2>1, <2>3, <1>0, Owned
  <2>5. Cardinality(Live(c)) = 1
    BY <2>3, OnlyLocal
  <2>6. req'[ptr[c]] = FreeReq /\ \A r \in Reqs : r # ptr[c] => req'[r] = req[r]
    BY <2>1, <2>4, <1>0, ReqExcept
  <2>7. answers'[c] <= 1 /\ \A d \in Calls : d # c => answers'[d] = answers[d]
    BY <2>1, <2>4, <1>0 DEF TypesOK, RefInv, AnsweredLast
  <2>8. Good
    BY <2>1, <2>2, <2>3, <2>4, <2>5, <2>6, <2>7, <1>0, LastRef DEF Good
  <2>9. QueuesOK'
    BY <2>1, <1>0, QueueStep
  <2> QED
    BY <1>0, <2>8, <2>9 DEF RefInv, Good
<1>17. ASSUME NEW c \in Calls, ReadDone(c)  PROVE RefInv'
  <2>1. CASE ~ Attached(c)
    <3>1. /\ c \in Reads /\ at[c][Local] = "callback"
          /\ at' = [at EXCEPT ![c][Local] = "gone"] /\ ptr' = ptr /\ ring' = ring /\ batch' = batch
          /\ req' = [req EXCEPT ![ptr[c]] = FreeReq]
          /\ answers' = [answers EXCEPT ![c] = @ + 1]
      BY <1>17, <2>1 DEF ReadDone, Respond, Answer, PutRequest
    <3>2. /\ at'[c][Local] = "gone"
          /\ \A b \in Refs : b # Local => at'[c][b] = at[c][b]
          /\ \A d \in Calls : d # c => at'[d] = at[d]
      BY <3>1, <1>0, AtExcept
    <3>3. c \notin Writes
      BY <3>1, Kinds
    <3>4. ptr[c] \in Reqs /\ R(c).owner = c /\ answers[c] = 0
      BY <3>1, <1>0, Owned
    <3>5. Cardinality(Live(c)) = 1
      BY <3>1, <3>3, OnlyLocal
    <3>6. req'[ptr[c]] = FreeReq /\ \A r \in Reqs : r # ptr[c] => req'[r] = req[r]
      BY <3>1, <3>4, <1>0, ReqExcept
    <3>7. answers'[c] <= 1 /\ \A d \in Calls : d # c => answers'[d] = answers[d]
      BY <3>1, <3>4, <1>0 DEF TypesOK
    <3>8. Good
      BY <3>1, <3>2, <3>4, <3>5, <3>6, <3>7, <1>0, LastRef DEF Good
    <3>9. QueuesOK'
      BY <3>1, <1>0, QueueStep
    <3> QED
      BY <1>0, <3>8, <3>9 DEF RefInv, Good
  <2>2. CASE Attached(c)
    <3>1. /\ c \in Reads /\ at[c][Local] = "callback"
          /\ at' = [at EXCEPT ![c][Local] = "attached"] /\ ptr' = ptr /\ ring' = ring /\ batch' = batch
          /\ req' = req
          /\ answers' = [answers EXCEPT ![c] = @ + 1]
      BY <1>17, <2>2 DEF ReadDone, Respond, Answer
    <3>2. /\ at'[c][Local] = "attached"
          /\ \A b \in Refs : b # Local => at'[c][b] = at[c][b]
          /\ \A d \in Calls : d # c => at'[d] = at[d]
      BY <3>1, <1>0, AtExcept
    <3>3. c \notin Writes /\ \A s \in Secondaries : at[c][s] = "gone"
      BY <3>1, Kinds DEF RefInv, PlacesOK
    <3>4. /\ ptr[c] \in Reqs /\ ptr[c] # None /\ R(c).owner = c /\ answers[c] = 0
          /\ R(c).ref = Cardinality(Live(c)) /\ Local \in Live(c)
      BY <3>1, <1>0, Owned
    <3>5. Live(c)' = Live(c)
      BY <3>1, <3>2, LiveSame
    <3>6. answers'[c] = 1 /\ \A d \in Calls : d # c => answers'[d] = answers[d]
      BY <3>1, <3>4, <1>0 DEF TypesOK
    <3>7. PlacesOK(c)'
      BY <3>1, <3>2, <3>3, <3>4, <1>0 DEF PlacesOK, LocalPlaces, RpcPlaces
    <3>8. OwnOK(c)'
      BY <3>1, <3>2, <3>4, <3>5 DEF OwnOK, R
    <3>9. Answered(c)'
      BY <3>2, <3>3, <3>6, Kinds DEF Answered
    <3>10. Good
      BY <3>1, <3>2, <3>4, <3>5, <3>6, <3>7, <3>8, <3>9, CallFrame DEF Good, R
    <3>11. QueuesOK'
      BY <3>1, <1>0, QueueStep
    <3> QED
      BY <1>0, <3>10, <3>11 DEF RefInv, Good
  <2> QED
    BY <2>1, <2>2
<1>18. ASSUME NEW c \in Calls, NEW a \in Refs, WriteDone(c, a)  PROVE RefInv'
  <2>1. /\ c \in Writes /\ at[c][a] = "callback" /\ at' = [at EXCEPT ![c][a] = "gone"]
        /\ ptr' = ptr /\ ring' = ring /\ batch' = batch
    BY <1>18 DEF WriteDone
  <2>2. /\ at'[c][a] = "gone"
        /\ \A b \in Refs : b # a => at'[c][b] = at[c][b]
        /\ \A d \in Calls : d # c => at'[d] = at[d]
    BY <2>1, <1>0, AtExcept
  <2>3. /\ ptr[c] \in Reqs /\ ptr[c] # None /\ R(c) = req[ptr[c]] /\ R(c) \in Request
        /\ R(c).owner = c /\ R(c).ref = Cardinality(Live(c)) /\ answers[c] = 0
        /\ at[c][Local] \in {"run", "failed", "ring", "batch"} => R(c).unit = None
    BY <2>1, Owned
  <2>4. QueuesOK'
    BY <2>1, <1>0, QueueStep
  <2>5. CASE R(c).ref # 1
    <3>1. req' = [req EXCEPT ![ptr[c]].ref = @ - 1] /\ answers' = answers
      BY <1>18, <2>5 DEF WriteDone
    <3>2. /\ \A r \in Reqs : r # ptr[c] => req'[r] = req[r]
          /\ req'[ptr[c]].owner = c /\ req'[ptr[c]].ref = R(c).ref - 1
          /\ req'[ptr[c]].unit = R(c).unit
      BY <3>1, <2>3, <1>0 DEF ReqType, Request
    <3>3. PlacesOK(c)'
      BY <2>1, <2>2, <2>3, <3>1, <1>0, Kinds DEF RefInv, PlacesOK, RpcPlaces, LocalPlaces
    <3>4. Good
      BY <2>1, <2>2, <2>3, <2>5, <3>1, <3>2, <3>3, <1>0, DropRef DEF Good
    <3> QED
      BY <1>0, <2>4, <3>4 DEF RefInv, Good
  <2>6. CASE R(c).ref = 1
    <3>1. req' = [req EXCEPT ![ptr[c]] = FreeReq] /\ answers' = [answers EXCEPT ![c] = @ + 1]
      BY <1>18, <2>6 DEF WriteDone, Respond, Answer, PutRequest
    <3>2. req'[ptr[c]] = FreeReq /\ \A r \in Reqs : r # ptr[c] => req'[r] = req[r]
      BY <3>1, <2>3, <1>0, ReqExcept
    <3>3. answers'[c] <= 1 /\ \A d \in Calls : d # c => answers'[d] = answers[d]
      BY <3>1, <2>3, <1>0 DEF TypesOK
    <3>4. /\ Cardinality(Live(c)) = 1 /\ at[c][a] # "gone"
          /\ \A b \in Refs \ {a} : at'[c][b] = at[c][b]
      BY <2>1, <2>2, <2>3, <2>6
    <3>5. Good
      BY <2>1, <2>2, <2>3, <3>2, <3>3, <3>4, LastRef DEF Good
    <3> QED
      BY <1>0, <2>4, <3>5 DEF RefInv, Good
  <2> QED
    BY <2>5, <2>6
<1>19. ASSUME NEW w \in Workers, Dequeue(w)  PROVE RefInv'
  <2> DEFINE m == IF Len(ring) < BatchNums THEN Len(ring) ELSE BatchNums
  <2>1. /\ batch[w] = <<>> /\ ptr' = ptr /\ answers' = answers /\ req' = req
        /\ batch' = [batch EXCEPT ![w] = SubSeq(ring, 1, m)]
        /\ ring' = SubSeq(ring, m + 1, Len(ring))
        /\ at' = [c \in Calls |-> IF \E i \in 1..m : ring[i] = c
                                  THEN [at[c] EXCEPT ![Local] = "batch"] ELSE at[c]]
    BY <1>19 DEF Dequeue, AtTop
  <2>2. ring \in Seq(Calls) /\ Len(ring) \in Nat /\ BatchNums \in Nat /\ batch \in [Workers -> Seq(Calls)]
    BY <1>0, ConstantsAssumption DEF TypesOK
  <2>3. m \in Nat /\ m <= Len(ring)
    BY <2>2
  <2> HIDE DEF m
  <2>4. ASSUME NEW c \in Calls
        PROVE  /\ \A b \in Refs : b # Local => at'[c][b] = at[c][b]
               /\ (\E i \in 1..m : ring[i] = c) => at[c][Local] = "ring" /\ at'[c][Local] = "batch"
               /\ (~ \E i \in 1..m : ring[i] = c) => at'[c] = at[c]
    <3>1. at[c] \in [Refs -> Places]
      BY <1>0 DEF AtType
    <3>2. ASSUME NEW i \in 1..m, ring[i] = c  PROVE at[c][Local] = "ring"
      BY <3>2, <2>2, <2>3 DEF RefInv, QueuesOK
    <3>3. (\E i \in 1..m : ring[i] = c) => at'[c] = [at[c] EXCEPT ![Local] = "batch"]
      BY <2>1
    <3>4. (~ \E i \in 1..m : ring[i] = c) => at'[c] = at[c]
      BY <2>1
    <3> QED
      BY <3>1, <3>2, <3>3, <3>4, <1>0
  <2>5. ASSUME NEW c \in Calls  PROVE PlacesOK(c)' /\ OwnOK(c)' /\ Answered(c)' /\ Live(c)' = Live(c)
    <3>1. /\ \A b \in Refs : b # Local => at'[c][b] = at[c][b]
          /\ at'[c][Local] = at[c][Local] \/ (at[c][Local] = "ring" /\ at'[c][Local] = "batch")
      BY <2>4
    <3>2. \A b \in Refs : at'[c][b] = "gone" <=> at[c][b] = "gone"
      BY <3>1
    <3>3. Live(c)' = Live(c)
      BY <3>2, LiveSame
    <3>4. PlacesOK(c)'
      BY <3>1, <2>1, <1>0 DEF RefInv, PlacesOK, LocalPlaces
    <3>5. OwnOK(c)'
      BY <3>1, <3>3, <2>1 DEF RefInv, OwnOK, R
    <3>6. Answered(c)'
      BY <3>1, <2>1, <1>0 DEF RefInv, AnsweredLast, Answered
    <3> QED
      BY <3>3, <3>4, <3>5, <3>6
  <2>6. PoolOK'
    <3> SUFFICES ASSUME NEW r \in Reqs
                 PROVE  \/ req'[r] = FreeReq
                        \/ \E d \in Calls : req'[r].owner = d /\ ptr'[d] = r /\ Live(d)' # {}
      BY DEF PoolOK
    <3> QED
      BY <2>1, <2>5 DEF RefInv, PoolOK
  <2>7. AnsweredLast'
    BY <2>5 DEF AnsweredLast, Answered
  <2>8. /\ Len(ring') = Len(ring) - m
        /\ \A i \in 1..Len(ring') : i + m \in 1..Len(ring) /\ ring'[i] = ring[i + m]
    <3>1. m + 1 \in Int /\ Len(ring) \in Int /\ \A i \in (m + 1)..Len(ring) : ring[i] \in Calls
      BY <2>2, <2>3
    <3>2. /\ Len(ring') = IF m + 1 <= Len(ring) THEN Len(ring) - (m + 1) + 1 ELSE 0
          /\ \A i \in 1..(Len(ring) - (m + 1) + 1) : ring'[i] = ring[(m + 1) + i - 1]
      BY <3>1, <2>1, SubSeqProperties
    <3>3. Len(ring') = Len(ring) - m
      BY <3>2, <2>2, <2>3
    <3>4. ASSUME NEW i \in 1..Len(ring')  PROVE i + m \in 1..Len(ring) /\ ring'[i] = ring[i + m]
      <4>1. i \in 1..(Len(ring) - (m + 1) + 1) /\ (m + 1) + i - 1 = i + m /\ i + m \in 1..Len(ring)
        BY <3>3, <3>4, <2>2, <2>3
      <4> QED
        BY <4>1, <3>2
    <3> QED
      BY <3>3, <3>4
  <2>9. /\ Len(batch'[w]) = m /\ \A i \in 1..m : batch'[w][i] = ring[i]
        /\ \A v \in Workers : v # w => batch'[v] = batch[v]
    BY <2>1, <2>2, <2>3
  <2>10. /\ \A i \in 1..Len(ring) : ring[i] \in Calls /\ at[ring[i]][Local] = "ring"
         /\ \A i, j \in 1..Len(ring) : ring[i] = ring[j] => i = j
         /\ \A v \in Workers : \A i \in 1..Len(batch[v]) :
               batch[v][i] \in Calls /\ at[batch[v][i]][Local] = "batch"
    BY <2>2 DEF RefInv, QueuesOK
  <2>11. \A i \in 1..Len(ring') : at'[ring'[i]][Local] = "ring"
    <3> SUFFICES ASSUME NEW i \in 1..Len(ring')  PROVE at'[ring'[i]][Local] = "ring"
      OBVIOUS
    <3>1. i \in Nat /\ i >= 1 /\ i + m \in 1..Len(ring) /\ ring'[i] = ring[i + m]
      BY <2>8, <2>2, <2>3
    <3>2. ~ \E j \in 1..m : ring[j] = ring[i + m]
      BY <3>1, <2>10, <2>2, <2>3
    <3> QED
      BY <3>1, <3>2, <2>4, <2>10
  <2>12. \A i, j \in 1..Len(ring') : ring'[i] = ring'[j] => i = j
    BY <2>8, <2>10, <2>2, <2>3
  <2>13. ASSUME NEW v \in Workers, NEW i \in 1..Len(batch'[v])
         PROVE  at'[batch'[v][i]][Local] = "batch"
    <3>1. CASE v = w
      BY <3>1, <2>13, <2>2, <2>3, <2>4, <2>9, <2>10
    <3>2. CASE v # w
      BY <3>2, <2>13, <2>4, <2>9, <2>10
    <3> QED
      BY <3>1, <3>2
  <2>14. ASSUME NEW v \in Workers, NEW u \in Workers,
                NEW i \in 1..Len(batch'[v]), NEW j \in 1..Len(batch'[u]),
                batch'[v][i] = batch'[u][j]
         PROVE  v = u /\ i = j
    <3>1. CASE v = w /\ u = w
      <4>1. i \in 1..m /\ j \in 1..m /\ ring[i] = ring[j]
        BY <3>1, <2>14, <2>9
      <4>2. i \in 1..Len(ring) /\ j \in 1..Len(ring)
        BY <4>1, <2>2, <2>3
      <4> QED
        BY <3>1, <4>1, <4>2, <2>10
    <3>2. CASE v # w /\ u # w
      BY <3>2, <2>14, <2>9 DEF RefInv, QueuesOK
    <3>0. ASSUME NEW x \in Workers, NEW k \in 1..Len(batch'[x])
          PROVE  /\ x = w => at[batch'[x][k]][Local] = "ring"
                 /\ x # w => at[batch'[x][k]][Local] = "batch"
      <4>1. CASE x = w
        <5>1. k \in 1..m /\ k \in 1..Len(ring) /\ batch'[x][k] = ring[k]
          BY <4>1, <3>0, <2>2, <2>3, <2>9
        <5> QED
          BY <5>1, <4>1, <2>10
      <4>2. CASE x # w
        BY <4>2, <3>0, <2>9, <2>10
      <4> QED
        BY <4>1, <4>2
    <3>3. CASE (v = w) # (u = w)
      BY <3>0, <3>3, <2>14
    <3> QED
      BY <3>1, <3>2, <3>3
  <2>15. QueuesOK'
    BY <2>11, <2>12, <2>13, <2>14 DEF QueuesOK
  <2> QED
    BY <1>0, <2>5, <2>6, <2>7, <2>15 DEF RefInv
<1>20. ASSUME NEW w \in Workers, Issue(w)  PROVE RefInv'
  <2>1. batch \in [Workers -> Seq(Calls)] /\ batch[w] # <<>>
    BY <1>20, <1>0 DEF Issue, TypesOK
  <2>2. PICK c \in Calls : c = Head(batch[w]) /\ c = batch[w][1] /\ 1 \in 1..Len(batch[w])
    BY <2>1
  <2>3. /\ ptr' = ptr /\ answers' = answers /\ ring' = ring
        /\ req' = [req EXCEPT ![ptr[c]].unit = w] /\ at' = [at EXCEPT ![c][Local] = "device"]
        /\ batch' = [batch EXCEPT ![w] = Tail(@)]
    BY <1>20, <2>2 DEF Issue
  <2>4. at[c][Local] = "batch"
    BY <2>2 DEF RefInv, QueuesOK
  <2>5. ptr[c] \in Reqs /\ R(c) = req[ptr[c]] /\ R(c) \in Request
    BY <2>2, <2>4, <1>0, Owned
  <2>6. /\ \A r \in Reqs : r # ptr[c] => req'[r] = req[r]
        /\ req'[ptr[c]].owner = R(c).owner /\ req'[ptr[c]].ref = R(c).ref
    BY <2>3, <2>5, <1>0 DEF ReqType, Request
  <2>7. /\ at'[c][Local] = "device" /\ \A d \in Calls : d # c => at'[d] = at[d]
    BY <2>2, <2>3, <1>0 DEF AtType
  <2>8. Good
    BY <2>2, <2>3, <2>4, <2>6, <2>7, <1>0, StepRef DEF Good, LocalPlaces, Unissued
  <2>9. batch'[w] = Tail(batch[w]) /\ \A v \in Workers : v # w => batch'[v] = batch[v]
    BY <2>1, <2>3
  <2>10. QueuesOK'
    BY <1>0, <2>1, <2>2, <2>3, <2>4, <2>7, <2>9, BatchTail
  <2> QED
    BY <1>0, <2>8, <2>10 DEF RefInv, Good
<1>21. ASSUME NEW w \in Workers, IssueFails(w)  PROVE RefInv'
  <2>1. batch \in [Workers -> Seq(Calls)] /\ batch[w] # <<>>
    BY <1>21, <1>0 DEF IssueFails, TypesOK
  <2>2. PICK c \in Calls : c = Head(batch[w]) /\ c = batch[w][1] /\ 1 \in 1..Len(batch[w])
    BY <2>1
  <2>3. /\ ptr' = ptr /\ answers' = answers /\ ring' = ring
        /\ req' = [req EXCEPT ![ptr[c]].unit = w, ![ptr[c]].result = FALSE] /\ at' = [at EXCEPT ![c][Local] = "callback"]
        /\ batch' = [batch EXCEPT ![w] = Tail(@)]
    BY <1>21, <2>2 DEF IssueFails
  <2>4. at[c][Local] = "batch"
    BY <2>2 DEF RefInv, QueuesOK
  <2>5. ptr[c] \in Reqs /\ R(c) = req[ptr[c]] /\ R(c) \in Request
    BY <2>2, <2>4, <1>0, Owned
  <2>6. /\ \A r \in Reqs : r # ptr[c] => req'[r] = req[r]
        /\ req'[ptr[c]].owner = R(c).owner /\ req'[ptr[c]].ref = R(c).ref
    BY <2>3, <2>5, <1>0 DEF ReqType, Request
  <2>7. /\ at'[c][Local] = "callback" /\ \A d \in Calls : d # c => at'[d] = at[d]
    BY <2>2, <2>3, <1>0 DEF AtType
  <2>8. Good
    BY <2>2, <2>3, <2>4, <2>6, <2>7, <1>0, StepRef DEF Good, LocalPlaces, Unissued
  <2>9. batch'[w] = Tail(batch[w]) /\ \A v \in Workers : v # w => batch'[v] = batch[v]
    BY <2>1, <2>3
  <2>10. QueuesOK'
    BY <1>0, <2>1, <2>2, <2>3, <2>4, <2>7, <2>9, BatchTail
  <2> QED
    BY <1>0, <2>8, <2>10 DEF RefInv, Good
<1>22. ASSUME answers' = answers, ptr' = ptr, req' = req, at' = at, ring' = ring, batch' = batch
      PROVE  RefInv'
  <2>1. \A c \in Calls : PlacesOK(c)' /\ OwnOK(c)'
    BY <1>22 DEF RefInv, PlacesOK, OwnOK, Live, R
  <2>2. PoolOK' /\ QueuesOK' /\ AnsweredLast'
    BY <1>22 DEF RefInv, PoolOK, QueuesOK, AnsweredLast, Live
  <2> QED
    BY <1>0, <2>1, <2>2 DEF RefInv
<1>23. ASSUME NEW c \in Writes, Network(c)  PROVE RefInv'
  BY <1>22, <1>23 DEF Network, Resend, Replicate, ReplicateFails
<1>24. CASE UNCHANGED vars
  BY <1>22, <1>24 DEF vars
<1>27. ASSUME NEW c \in Calls, NEW s \in Secondaries, SendFails(c, s)  PROVE RefInv'
  BY <1>13, <1>14, <1>27, <1>0, SendFailsCases DEF RefInv
<1> QED
  BY <1>27, <1>1, <1>2, <1>3, <1>4, <1>5, <1>6, <1>7, <1>8, <1>9, <1>10, <1>11, <1>12, <1>13, <1>14, <1>15, <1>16, <1>17, <1>18, <1>19, <1>20, <1>21, <1>23, <1>24 DEF Next, Handler, Device, Callback, Worker

-----------------------------------------------------------------------------
(* Units, replicas and the write that runs alone.                          *)

(* A step of call c touches nothing of the other calls.                    *)
Only(c) ==
  /\ \A d \in Calls : d # c => /\ at'[d] = at[d] /\ ptr'[d] = ptr[d]
                               /\ answer'[d] = answer[d]
                               /\ d \in lost' <=> d \in lost
                               /\ d \in alone' <=> d \in alone
  /\ \A d \in Writes : d # c => net'[d] = net[d] /\ applied'[d] = applied[d]
  /\ \A r \in Reqs : req[r].owner \in {c, None} \/ req'[r] = req[r]

LEMMA ReachedFrame ==
  ASSUME RefInv, NEW c \in Calls, Only(c), NEW d \in Writes, d # c, ReachedOK(d)
  PROVE  ReachedOK(d)'
<1>1. /\ d \in Calls /\ at'[d] = at[d] /\ ptr'[d] = ptr[d]
      /\ net'[d] = net[d] /\ applied'[d] = applied[d]
      /\ d \in lost' <=> d \in lost
      /\ d \in alone' <=> d \in alone
  BY Kinds DEF Only
<1>2. Live(d)' = Live(d)
  BY <1>1 DEF Live
<1>3. ASSUME ptr[d] # None, Live(d) # {}  PROVE req'[ptr[d]] = req[ptr[d]]
  <2>1. ptr[d] \in Reqs /\ req[ptr[d]].owner = d
    BY <1>1, <1>3 DEF RefInv, TypesOK, OwnOK, R
  <2> QED
    BY <2>1, <1>1, Kinds DEF Only
<1>4. /\ at'[d][Local] = "new" => /\ applied'[d] = {} /\ d \notin alone'
                                  /\ \A s \in Secondaries : net'[d][s] = 0
      /\ at'[d][Local] = "ended" => Local \in applied'[d]
      /\ \A a \in Refs : at'[d][a] = "storeT" => a \in applied'[d]
  BY <1>1 DEF ReachedOK
<1>5. ASSUME ptr'[d] # None, Live(d)' # {}, R(d)'.result, at'[d][Local] # "failed", d \notin lost'
      PROVE  \A a \in Refs : at'[d][a] \in {"callback", "gone"} => a \in applied'[d]
  BY <1>1, <1>2, <1>3, <1>5 DEF ReachedOK, R
<1> QED
  BY <1>4, <1>5 DEF ReachedOK

(* One reference of a write moves, with the reach that its place needs.    *)
LEMMA ReachedMove ==
  ASSUME RefInv, NEW c \in Writes, ReachedOK(c), NEW a \in Refs, NEW p,
         at[c][Local] # "new", p # "new",
         at' = [at EXCEPT ![c][a] = p], ptr' = ptr,
         applied[c] \subseteq applied'[c], lost \subseteq lost',
         a = Local /\ p = "ended" => Local \in applied'[c],
         p = "storeT" => a \in applied'[c],
         req'[ptr[c]].result /\ at'[c][Local] # "failed" /\ c \notin lost' /\ Live(c)' # {} =>
           /\ R(c).result /\ at[c][Local] # "failed" /\ at[c][a] # "gone"
           /\ p \in {"callback", "gone"} => a \in applied'[c]
  PROVE  ReachedOK(c)'
<1>1. c \in Calls
  BY Kinds
<1>2. /\ at'[c][a] = p
      /\ \A b \in Refs : b # a => at'[c][b] = at[c][b]
  BY <1>1 DEF RefInv, TypesOK, AtType
<1>3. at'[c][Local] # "new"
  BY <1>2, Kinds
<1>4. at'[c][Local] = "ended" => Local \in applied'[c]
  BY <1>2, Kinds DEF ReachedOK
<1>5. \A b \in Refs : at'[c][b] = "storeT" => b \in applied'[c]
  BY <1>2 DEF ReachedOK
<1>6. ASSUME ptr'[c] # None, Live(c)' # {}, R(c)'.result, at'[c][Local] # "failed", c \notin lost'
      PROVE  \A b \in Refs : at'[c][b] \in {"callback", "gone"} => b \in applied'[c]
  <2>1. /\ R(c).result /\ at[c][Local] # "failed" /\ at[c][a] # "gone"
        /\ p \in {"callback", "gone"} => a \in applied'[c]
    BY <1>6 DEF R
  <2>2. Live(c) # {} /\ ptr[c] # None /\ c \notin lost
    BY <2>1, <1>6 DEF Live
  <2>3. \A b \in Refs : at[c][b] \in {"callback", "gone"} => b \in applied[c]
    BY <2>1, <2>2 DEF ReachedOK
  <2> QED
    BY <2>1, <2>3, <1>2
<1> QED
  BY <1>3, <1>4, <1>5, <1>6 DEF ReachedOK

LEMMA UnitsKeep ==
  ASSUME UnitsOK, units' = units, \A r \in Reqs : req'[r].unit = req[r].unit
  PROVE  UnitsOK'
<1>1. \A w \in Workers : Holders(w)' = Holders(w)
  BY DEF Holders
<1> QED
  BY <1>1 DEF UnitsOK

(* A worker gives one of its units to a Request that had none.             *)
LEMMA UnitsTake ==
  ASSUME RefInv, UnitsOK, NEW w \in Workers, NEW r \in Reqs, units[w] > 0,
         units' = [units EXCEPT ![w] = @ - 1],
         req[r].unit = None, req'[r].unit = w,
         \A q \in Reqs : q # r => req'[q] = req[q]
  PROVE  UnitsOK'
<1>1. units \in [Workers -> Nat]
  BY DEF RefInv, TypesOK
<1>2. ASSUME NEW v \in Workers, v # w
      PROVE  IsFiniteSet(Holders(v)') /\ units'[v] + Cardinality(Holders(v)') = IOUnits
  <2>1. Holders(v)' = Holders(v)
    BY <1>2, Kinds DEF Holders
  <2>2. units'[v] = units[v]
    BY <1>1, <1>2
  <2> QED
    BY <2>1, <2>2 DEF UnitsOK
<1>3. IsFiniteSet(Holders(w)') /\ units'[w] + Cardinality(Holders(w)') = IOUnits
  <2>1. Holders(w)' = Holders(w) \cup {r} /\ r \notin Holders(w)
    BY Kinds DEF Holders
  <2>2. IsFiniteSet(Holders(w)) /\ units[w] + Cardinality(Holders(w)) = IOUnits
    BY DEF UnitsOK
  <2>3. Cardinality(Holders(w)) \in Nat
    BY <2>2, FS_CardinalityType
  <2>4. /\ IsFiniteSet(Holders(w) \cup {r})
        /\ Cardinality(Holders(w) \cup {r}) = Cardinality(Holders(w)) + 1
    BY <2>1, <2>2, FS_AddElement
  <2>5. units'[w] = units[w] - 1 /\ units[w] \in Nat
    BY <1>1
  <2> QED
    BY <2>1, <2>2, <2>3, <2>4, <2>5
<1> QED
  BY <1>2, <1>3 DEF UnitsOK

(* A Request goes back to the pool and its unit to the unit's worker.      *)
LEMMA UnitsPut ==
  ASSUME RefInv, UnitsOK, NEW c \in Calls, ptr[c] \in Reqs, PutIOUnit(c), PutRequest(c)
  PROVE  UnitsOK'
<1>1. units \in [Workers -> Nat] /\ req \in ReqType
  BY DEF RefInv, TypesOK
<1>2. /\ req'[ptr[c]].unit = None
      /\ \A q \in Reqs : q # ptr[c] => req'[q] = req[q]
  BY <1>1 DEF PutRequest, FreeReq, ReqType
<1>3. ASSUME NEW w \in Workers, R(c).unit # w
      PROVE  IsFiniteSet(Holders(w)') /\ units'[w] + Cardinality(Holders(w)') = IOUnits
  <2>1. Holders(w)' = Holders(w)
    BY <1>2, <1>3, Kinds DEF Holders, R
  <2>2. units'[w] = units[w]
    BY <1>1, <1>3 DEF PutIOUnit
  <2> QED
    BY <2>1, <2>2 DEF UnitsOK
<1>4. ASSUME NEW w \in Workers, R(c).unit = w
      PROVE  IsFiniteSet(Holders(w)') /\ units'[w] + Cardinality(Holders(w)') = IOUnits
  <2>1. Holders(w)' = Holders(w) \ {ptr[c]} /\ ptr[c] \in Holders(w)
    BY <1>2, <1>4, Kinds DEF Holders, R
  <2>2. IsFiniteSet(Holders(w)) /\ units[w] + Cardinality(Holders(w)) = IOUnits
    BY DEF UnitsOK
  <2>3. Cardinality(Holders(w)) \in Nat
    BY <2>2, FS_CardinalityType
  <2>4. /\ IsFiniteSet(Holders(w) \ {ptr[c]})
        /\ Cardinality(Holders(w) \ {ptr[c]}) = Cardinality(Holders(w)) - 1
    BY <2>1, <2>2, FS_RemoveElement
  <2>5. units'[w] = units[w] + 1 /\ units[w] \in Nat
    BY <1>1, <1>4 DEF PutIOUnit
  <2> QED
    BY <2>1, <2>2, <2>3, <2>4, <2>5
<1> QED
  BY <1>3, <1>4 DEF UnitsOK

(* The write that runs alone keeps doing so while disks are left alone.    *)
LEMMA AloneKeep ==
  ASSUME AloneOK, NEW c \in Calls, Only(c), disk' = disk, applied' = applied,
         last' = last, alone' = alone, c \in Writes /\ Quiet(c) => Quiet(c)'
  PROVE  AloneOK'
<1> SUFFICES ASSUME last \in alone
             PROVE  /\ \A n \in applied[last] : disk[n] = last
                    /\ \A d \in Writes : d # last => Quiet(d)'
  BY DEF AloneOK
<1>1. ASSUME NEW d \in Writes, d # last  PROVE Quiet(d)'
  <2>1. Quiet(d)
    BY <1>1 DEF AloneOK
  <2>2. CASE d = c
    BY <2>1, <2>2
  <2>3. CASE d # c
    BY <2>1, <2>3, Kinds DEF Only, Quiet
  <2> QED
    BY <2>2, <2>3
<1> QED
  BY <1>1 DEF AloneOK

(* Only the write that runs alone reaches a disk.                          *)
LEMMA AloneReach ==
  ASSUME TypesOK, AloneOK, NEW c \in Calls, Only(c), NEW n \in Nodes, Reaches(c, n),
         last' = last, alone' = alone, c \in Writes => ~ Quiet(c)
  PROVE  AloneOK'
<1>1. CASE c \notin Writes
  BY <1>1, AloneKeep DEF Reaches
<1>2. CASE c \in Writes
  <2> SUFFICES ASSUME last \in alone
               PROVE  /\ \A m \in applied'[last] : disk'[m] = last
                      /\ \A d \in Writes : d # last => Quiet(d)'
    BY DEF AloneOK
  <2>1. last = c
    BY <1>2 DEF AloneOK
  <2>2. /\ disk'[n] = c /\ \A m \in Nodes : m # n => disk'[m] = disk[m]
        /\ applied'[c] = applied[c] \cup {n} /\ applied[c] \subseteq Nodes
    BY <1>2 DEF Reaches, TypesOK
  <2>3. \A m \in applied'[last] : disk'[m] = last
    BY <2>1, <2>2 DEF AloneOK
  <2>4. ASSUME NEW d \in Writes, d # last  PROVE Quiet(d)'
    BY <2>1, <2>4, Kinds DEF AloneOK, Only, Quiet
  <2> QED
    BY <2>3, <2>4
<1> QED
  BY <1>1, <1>2

(* What is left to show of a step of call c.                               *)
LEMMA Assemble ==
  ASSUME Inv, RefInv', NEW c \in Calls, Only(c), UnitsOK', AloneOK',
         c \in Writes => /\ ReachedOK(c)'
                         /\ answer'[c] = "ok" => applied'[c] = Nodes \/ c \in lost'
  PROVE  Inv'
<1>1. ASSUME NEW d \in Writes
      PROVE  /\ ReachedOK(d)'
             /\ answer'[d] = "ok" => applied'[d] = Nodes \/ d \in lost'
  <2>1. CASE d = c
    BY <2>1
  <2>2. CASE d # c
    <3>1. ReachedOK(d)'
      BY <2>2, ReachedFrame DEF Inv
    <3>2. answer'[d] = "ok" => applied'[d] = Nodes \/ d \in lost'
      BY <2>2, Kinds DEF Inv, AckReplicated, Only
    <3> QED
      BY <3>1, <3>2
  <2> QED
    BY <2>1, <2>2
<1> QED
  BY <1>1 DEF Inv, AckReplicated

(* A step that moves one reference, before the answer.                     *)
LEMMA Moves ==
  ASSUME Inv, RefInv', NEW c \in Calls, Only(c), NEW a \in Refs, NEW p,
         at[c][Local] # "new", p # "new", at' = [at EXCEPT ![c][a] = p],
         ptr' = ptr, answer' = answer, units' = units, disk' = disk, applied' = applied,
         last' = last, alone' = alone, lost \subseteq lost',
         \A r \in Reqs : req'[r].unit = req[r].unit,
         c \in Writes /\ Quiet(c) => Quiet(c)',
         c \in Writes =>
           /\ a = Local /\ p = "ended" => Local \in applied[c]
           /\ p = "storeT" => a \in applied[c]
           /\ req'[ptr[c]].result /\ at'[c][Local] # "failed" /\ c \notin lost' /\ Live(c)' # {} =>
                /\ R(c).result /\ at[c][Local] # "failed" /\ at[c][a] # "gone"
                /\ p \in {"callback", "gone"} => a \in applied[c]
  PROVE  Inv'
<1>1. UnitsOK'
  BY UnitsKeep DEF Inv
<1>2. AloneOK'
  BY AloneKeep DEF Inv
<1>3. c \in Writes => ReachedOK(c)'
  BY ReachedMove DEF Inv
<1>4. c \in Writes => (answer'[c] = "ok" => applied'[c] = Nodes \/ c \in lost')
  BY DEF Inv, AckReplicated
<1> QED
  BY <1>1, <1>2, <1>3, <1>4, Assemble

LEMMA OnlyOwn ==
  ASSUME RefInv, NEW c \in Calls, NEW a \in Refs, NEW p, at' = [at EXCEPT ![c][a] = p],
         at[c][a] # "gone", a = Local => at[c][a] # "new",
         ptr' = ptr, alone' = alone,
         \A d \in Calls : d # c => answer'[d] = answer[d] /\ (d \in lost' <=> d \in lost),
         \A d \in Writes : d # c => net'[d] = net[d] /\ applied'[d] = applied[d],
         \A r \in Reqs : r # ptr[c] => req'[r] = req[r]
  PROVE  Only(c)
<1>1. req[ptr[c]].owner = c
  BY Owned
<1>2. \A d \in Calls : d # c => at'[d] = at[d]
  BY AtExcept DEF RefInv, TypesOK
<1> QED
  BY <1>1, <1>2 DEF Only

-----------------------------------------------------------------------------
(* Every step keeps the invariant.                                         *)
LEMMA InvStep == Inv /\ [Next]_vars => Inv'
<1> SUFFICES ASSUME Inv, [Next]_vars  PROVE Inv'
  OBVIOUS
<1>0. /\ RefInv /\ RefInv' /\ TypesOK /\ at \in AtType /\ req \in ReqType
      /\ ptr \in [Calls -> Reqs \cup {None}] /\ Local \in Refs
      /\ \A s \in Secondaries : s \in Refs /\ s # Local
      /\ \A c \in Writes : c \in Calls
      /\ None \notin Reqs /\ None \notin Calls
  BY RefStep, Kinds DEF Inv, RefInv, TypesOK
<1>1. ASSUME NEW c \in Calls, NoRequest(c)  PROVE Inv'
  <2>1. /\ at' = [at EXCEPT ![c][Local] = "gone"] /\ at[c][Local] = "new"
        /\ ptr' = ptr /\ req' = req /\ units' = units /\ net' = net /\ disk' = disk
        /\ applied' = applied /\ alone' = alone /\ last' = last /\ lost' = lost
        /\ answer' = [answer EXCEPT ![c] = "error"]
    BY <1>1 DEF NoRequest, Answer, history
  <2>2. /\ at'[c][Local] = "gone"
        /\ \A b \in Refs : b # Local => at'[c][b] = at[c][b]
        /\ \A d \in Calls : d # c => at'[d] = at[d]
    BY <2>1, <1>0 DEF AtType
  <2>3. ptr[c] = None /\ \A s \in Secondaries : at[c][s] = "gone"
    BY <2>1 DEF Inv, RefInv, PlacesOK
  <2>4. answer'[c] = "error" /\ \A d \in Calls : d # c => answer'[d] = answer[d]
    BY <2>1, <1>0 DEF TypesOK
  <2>5. Only(c)
    BY <2>1, <2>2, <2>4 DEF Only
  <2>6. UnitsOK'
    BY <2>1, UnitsKeep DEF Inv
  <2>7. c \in Writes /\ Quiet(c) => Quiet(c)'
    BY <2>1, <2>2, <2>3, <1>0 DEF Quiet
  <2>8. AloneOK'
    BY <2>1, <2>5, <2>7, AloneKeep DEF Inv
  <2>9. c \in Writes => ReachedOK(c)'
    BY <2>1, <2>2, <2>3, Kinds DEF ReachedOK
  <2> QED
    BY <1>0, <2>4, <2>5, <2>6, <2>8, <2>9, Assemble
<1>2. ASSUME NEW c \in Calls, Refuse(c)  PROVE Inv'
  <2>1. PICK r \in Reqs : /\ req[r].owner = None
                          /\ req' = [req EXCEPT ![r] = [FreeReq EXCEPT !.owner = c]]
                          /\ ptr' = [ptr EXCEPT ![c] = r]
    BY <1>2 DEF Refuse
  <2>2. /\ at' = [at EXCEPT ![c][Local] = "failed"] /\ at[c][Local] = "new"
        /\ answer' = answer /\ units' = units /\ net' = net /\ disk' = disk
        /\ applied' = applied /\ alone' = alone /\ last' = last /\ lost' = lost
    BY <1>2 DEF Refuse, history
  <2>3. /\ req'[r] = [FreeReq EXCEPT !.owner = c]
        /\ \A q \in Reqs : q # r => req'[q] = req[q]
    BY <2>1, <1>0, ReqExcept
  <2>4. /\ at'[c][Local] = "failed"
        /\ \A b \in Refs : b # Local => at'[c][b] = at[c][b]
        /\ \A d \in Calls : d # c => at'[d] = at[d]
    BY <2>2, <1>0 DEF AtType
  <2>5. \A s \in Secondaries : at[c][s] = "gone"
    BY <2>2 DEF Inv, RefInv, PlacesOK
  <2>6. \A d \in Calls : d # c => ptr'[d] = ptr[d]
    BY <2>1, <1>0
  <2>7. Only(c)
    BY <2>1, <2>2, <2>3, <2>4, <2>6 DEF Only
  <2>8. UnitsOK'
    <3>1. req[r] = FreeReq
      BY <2>1, <1>0 DEF RefInv, PoolOK
    <3>2. req'[r].unit = req[r].unit
      BY <3>1, <2>3 DEF FreeReq
    <3> QED
      BY <3>2, <2>2, <2>3, UnitsKeep DEF Inv
  <2>9. c \in Writes /\ Quiet(c) => Quiet(c)'
    BY <2>2, <2>4, <2>5, <1>0 DEF Quiet
  <2>10. AloneOK'
    BY <2>2, <2>7, <2>9, AloneKeep DEF Inv
  <2>11. c \in Writes => ReachedOK(c)'
    BY <2>4, <2>5, Kinds DEF ReachedOK
  <2>12. c \in Writes => (answer'[c] = "ok" => applied'[c] = Nodes \/ c \in lost')
    BY <2>2 DEF Inv, AckReplicated
  <2> QED
    BY <1>0, <2>7, <2>8, <2>10, <2>11, <2>12, Assemble
<1>3. ASSUME NEW c \in Calls, Accept(c)  PROVE Inv'
  <2>1. PICK r \in Reqs : /\ req[r].owner = None
                          /\ req' = [req EXCEPT ![r] = [FreeReq EXCEPT !.owner = c, !.ref = RefCount(c)]]
                          /\ ptr' = [ptr EXCEPT ![c] = r]
    BY <1>3 DEF Accept
  <2>2. /\ at[c][Local] = "new"
        /\ answer' = answer /\ units' = units /\ net' = net /\ disk' = disk
        /\ applied' = applied /\ lost' = lost
    BY <1>3 DEF Accept
  <2>3. /\ req'[r] = [FreeReq EXCEPT !.owner = c, !.ref = RefCount(c)]
        /\ \A q \in Reqs : q # r => req'[q] = req[q]
    BY <2>1, <1>0, ReqExcept
  <2>4. /\ at'[c] = [a \in Refs |-> IF a = Local THEN "run" ELSE IF c \in Writes THEN "new" ELSE "gone"]
        /\ \A d \in Calls : d # c => at'[d] = at[d]
    BY <1>3, <1>0 DEF Accept, AtType
  <2>5. alone' \in {alone, alone \cup {c}} /\ (c \notin Writes => alone' = alone /\ last' = last)
    BY <1>3 DEF Accept
  <2>6. \A d \in Calls : d # c => ptr'[d] = ptr[d]
    BY <2>1, <1>0
  <2>7. Only(c)
    BY <2>1, <2>2, <2>3, <2>4, <2>5, <2>6 DEF Only
  <2>8. UnitsOK'
    <3>1. req[r] = FreeReq
      BY <2>1, <1>0 DEF RefInv, PoolOK
    <3>2. req'[r].unit = req[r].unit
      BY <3>1, <2>3 DEF FreeReq
    <3> QED
      BY <3>2, <2>2, <2>3, UnitsKeep DEF Inv
  <2>9. AloneOK'
    <3>1. CASE c \notin Writes
      BY <3>1, <2>2, <2>5, <2>7, AloneKeep DEF Inv
    <3>2. CASE c \in Writes /\ \E d \in Calls \ {c} : WriteUnderWay(d)
      <4>1. last' = c /\ alone' = alone
        BY <3>2, <1>3 DEF Accept
      <4>2. c \notin alone
        BY <3>2, <2>2 DEF Inv, ReachedOK
      <4> QED
        BY <4>1, <4>2 DEF AloneOK
    <3>3. CASE c \in Writes /\ ~ \E d \in Calls \ {c} : WriteUnderWay(d)
      <4>1. last' = c
        BY <3>3, <1>3 DEF Accept
      <4>2. applied'[c] = {}
        BY <3>3, <2>2 DEF Inv, ReachedOK
      <4>3. ASSUME NEW d \in Writes, d # c  PROVE Quiet(d)'
        <5>1. d \in Calls /\ at'[d] = at[d] /\ net'[d] = net[d]
          BY <4>3, <1>0, <2>2, <2>4
        <5>2. /\ ptr[d] = None \/ answers[d] # 0
              /\ \A s \in Secondaries : ~ (net[d][s] > 0)
          BY <3>3, <4>3, <5>1 DEF WriteUnderWay
        <5>3. \A s \in Secondaries : net[d][s] = 0
          BY <5>2, <4>3, <1>0 DEF TypesOK
        <5>4. CASE ptr[d] = None
          BY <5>1, <5>3, <5>4 DEF Quiet, Inv, RefInv, PlacesOK
        <5>5. CASE answers[d] # 0
          <6>1. answers[d] = 1
            BY <5>1, <5>5 DEF Inv, RefInv, AnsweredLast, TypesOK
          <6>2. \A a \in Refs : at[d][a] \in {"gone", "attached"}
            BY <5>1, <6>1 DEF Inv, RefInv, AnsweredLast
          <6>3. at[d][Local] # "attached" /\ \A s \in Secondaries : at[d][s] \in RpcPlaces
            BY <5>1, Kinds DEF Inv, RefInv, PlacesOK
          <6>4. \A a \in Refs : at[d][a] = "gone"
            BY <6>2, <6>3, Kinds DEF RpcPlaces
          <6> QED
            BY <6>4, <5>1, <5>3, <1>0 DEF Quiet
        <5> QED
          BY <5>2, <5>4, <5>5
      <4> QED
        BY <4>1, <4>2, <4>3 DEF AloneOK
    <3> QED
      BY <3>1, <3>2, <3>3
  <2>10. c \in Writes => ReachedOK(c)'
    BY <2>4, Kinds DEF ReachedOK
  <2>11. c \in Writes => (answer'[c] = "ok" => applied'[c] = Nodes \/ c \in lost')
    BY <2>2 DEF Inv, AckReplicated
  <2> QED
    BY <1>0, <2>7, <2>8, <2>9, <2>10, <2>11, Assemble
<1>4. ASSUME NEW c \in Calls, Submit(c)  PROVE Inv'
  <2>1. /\ at[c][Local] = "run"
        /\ ptr' = ptr /\ answer' = answer /\ units' = units /\ disk' = disk /\ applied' = applied
        /\ last' = last /\ alone' = alone /\ net' = net /\ lost' = lost /\ req' = req
    BY <1>4 DEF Submit, history
  <2>2. PICK p \in {"ring", "failed"} : at' = [at EXCEPT ![c][Local] = p]
    BY <1>4 DEF Submit
  <2>3. /\ at'[c][Local] = p
        /\ \A b \in Refs : b # Local => at'[c][b] = at[c][b]
    BY <2>2, <1>0 DEF AtType
  <2>4. ptr[c] \in Reqs /\ R(c) = req[ptr[c]] /\ R(c) \in Request /\ at[c][Local] # "new"
    <3>1. ptr[c] \in Reqs /\ ptr[c] # None /\ R(c) = req[ptr[c]] /\ R(c) \in Request
      BY <2>1, <1>0, Owned
    <3> QED
      BY <3>1, <1>0 DEF RefInv, PlacesOK
  <2>5. \A r \in Reqs : req'[r] = req[r]
    BY <2>1
  <2>7. Only(c)
    BY <2>1, <2>2, <2>5, <1>0, OnlyOwn
  <2>8. c \in Writes => ~ Quiet(c)
    BY <2>1 DEF Quiet
  <2>9. TRUE
    OBVIOUS
  <2> QED
    BY <1>0, <2>1, <2>2, <2>3, <2>4, <2>5, <2>7, <2>8, <2>9, Moves
<1>5. ASSUME NEW c \in Calls, NoLocation(c)  PROVE Inv'
  <2>1. /\ at[c][Local] = "run"
        /\ ptr' = ptr /\ answer' = answer /\ units' = units /\ disk' = disk /\ applied' = applied
        /\ last' = last /\ alone' = alone /\ net' = net /\ lost' = lost /\ req' = req
    BY <1>5 DEF NoLocation, history
  <2>2. PICK p \in {"callback", "failed"} : at' = [at EXCEPT ![c][Local] = p]
    BY <1>5 DEF NoLocation
  <2>3. /\ at'[c][Local] = p
        /\ \A b \in Refs : b # Local => at'[c][b] = at[c][b]
    BY <2>2, <1>0 DEF AtType
  <2>4. ptr[c] \in Reqs /\ R(c) = req[ptr[c]] /\ R(c) \in Request /\ at[c][Local] # "new"
    <3>1. ptr[c] \in Reqs /\ ptr[c] # None /\ R(c) = req[ptr[c]] /\ R(c) \in Request
      BY <2>1, <1>0, Owned
    <3> QED
      BY <3>1, <1>0 DEF RefInv, PlacesOK
  <2>5. \A r \in Reqs : req'[r] = req[r]
    BY <2>1
  <2>7. Only(c)
    BY <2>1, <2>2, <2>5, <1>0, OnlyOwn
  <2>8. c \in Writes => ~ Quiet(c)
    BY <2>1 DEF Quiet
  <2>9. c \in Writes => p = "failed"
    BY <1>5, <2>3, <1>0, Kinds, AtExcept DEF NoLocation
  <2> QED
    BY <1>0, <2>1, <2>2, <2>3, <2>4, <2>5, <2>7, <2>8, <2>9, Moves
<1>6. ASSUME NEW c \in Calls, Fail(c)  PROVE Inv'
  <2>1. /\ at[c][Local] = "failed"
        /\ ptr' = ptr /\ answer' = answer /\ units' = units /\ disk' = disk /\ applied' = applied
        /\ last' = last /\ alone' = alone /\ net' = net /\ lost' = lost
    BY <1>6 DEF Fail, history
  <2>2. PICK p \in {"callback"} : at' = [at EXCEPT ![c][Local] = p]
    BY <1>6 DEF Fail
  <2>3. /\ at'[c][Local] = p
        /\ \A b \in Refs : b # Local => at'[c][b] = at[c][b]
    BY <2>2, <1>0 DEF AtType
  <2>4. ptr[c] \in Reqs /\ R(c) = req[ptr[c]] /\ R(c) \in Request /\ at[c][Local] # "new"
    <3>1. ptr[c] \in Reqs /\ ptr[c] # None /\ R(c) = req[ptr[c]] /\ R(c) \in Request
      BY <2>1, <1>0, Owned
    <3> QED
      BY <3>1, <1>0 DEF RefInv, PlacesOK
  <2>5. /\ \A r \in Reqs : r # ptr[c] => req'[r] = req[r]
        /\ req'[ptr[c]].result = FALSE
        /\ \A r \in Reqs : req'[r].unit = req[r].unit
    BY <1>6, <2>4, <1>0 DEF Fail, ReqType, Request
  <2>7. Only(c)
    BY <2>1, <2>2, <2>5, <1>0, OnlyOwn
  <2>8. c \in Writes /\ Quiet(c) => Quiet(c)'
    BY <2>1, <2>3, <1>0 DEF Quiet
  <2>9. TRUE
    OBVIOUS
  <2> QED
    BY <1>0, <2>1, <2>2, <2>3, <2>4, <2>5, <2>7, <2>8, <2>9, Moves
<1>7. ASSUME NEW c \in Calls, Poll(c)  PROVE Inv'
  <2>1. /\ at[c][Local] \in {"ended", "errored"}
        /\ ptr' = ptr /\ answer' = answer /\ units' = units /\ disk' = disk /\ applied' = applied
        /\ last' = last /\ alone' = alone /\ net' = net /\ lost' = lost /\ req' = req
    BY <1>7 DEF Poll, history
  <2>2. PICK p \in {"storeT", "storeF"} : at' = [at EXCEPT ![c][Local] = p]
    BY <1>7 DEF Poll, SetResult
  <2>3. /\ at'[c][Local] = p
        /\ \A b \in Refs : b # Local => at'[c][b] = at[c][b]
    BY <2>2, <1>0 DEF AtType
  <2>4. ptr[c] \in Reqs /\ R(c) = req[ptr[c]] /\ R(c) \in Request /\ at[c][Local] # "new"
    <3>1. ptr[c] \in Reqs /\ ptr[c] # None /\ R(c) = req[ptr[c]] /\ R(c) \in Request
      BY <2>1, <1>0, Owned
    <3> QED
      BY <3>1, <1>0 DEF RefInv, PlacesOK
  <2>5. \A r \in Reqs : req'[r] = req[r]
    BY <2>1
  <2>7. Only(c)
    BY <2>1, <2>2, <2>5, <1>0, OnlyOwn
  <2>8. c \in Writes => ~ Quiet(c)
    BY <2>1 DEF Quiet
  <2>9. p = "storeT" /\ c \in Writes => Local \in applied[c]
    <3>1. p = "storeT" => at[c][Local] = "ended"
      BY <1>7, <2>3, <1>0, AtExcept DEF Poll, SetResult
    <3> QED
      BY <3>1 DEF Inv, ReachedOK
  <2> QED
    BY <1>0, <2>1, <2>2, <2>3, <2>4, <2>5, <2>7, <2>8, <2>9, Moves
<1>8. ASSUME NEW c \in Calls, NEW s \in Secondaries, SendOne(c, s)  PROVE Inv'
  <2>1. /\ at[c][s] = "new" /\ at[c][Local] = "run"
        /\ ptr' = ptr /\ answer' = answer /\ units' = units /\ disk' = disk /\ applied' = applied
        /\ last' = last /\ alone' = alone /\ lost' = lost /\ req' = req
    BY <1>8 DEF SendOne, history
  <2>2. PICK p \in {"sent"} : at' = [at EXCEPT ![c][s] = p]
    BY <1>8 DEF SendOne
  <2>3. /\ at'[c][s] = p
        /\ \A b \in Refs : b # s => at'[c][b] = at[c][b]
    BY <2>2, <1>0 DEF AtType
  <2>4. ptr[c] \in Reqs /\ R(c) = req[ptr[c]] /\ R(c) \in Request /\ at[c][Local] # "new"
    <3>1. ptr[c] \in Reqs /\ ptr[c] # None /\ R(c) = req[ptr[c]] /\ R(c) \in Request
      BY <2>1, <1>0, Owned
    <3> QED
      BY <3>1, <1>0 DEF RefInv, PlacesOK
  <2>5. \A r \in Reqs : req'[r] = req[r]
    BY <2>1
  <2>6. \A d \in Writes : d # c => net'[d] = net[d]
    BY <1>8, <1>0 DEF SendOne, TypesOK
  <2>7. Only(c)
    BY <2>1, <2>2, <2>5, <2>6, <1>0, OnlyOwn
  <2>8. c \in Writes => ~ Quiet(c)
    BY <2>1 DEF Quiet
  <2>9. TRUE
    OBVIOUS
  <2> QED
    BY <1>0, <2>1, <2>2, <2>3, <2>4, <2>5, <2>6, <2>7, <2>8, <2>9, Moves
<1>9. ASSUME NEW c \in Calls, NEW s \in Secondaries, LaterPassed(c, s)  PROVE Inv'
  <2>1. /\ at[c][s] = "new" /\ at[c][Local] = "failed"
        /\ ptr' = ptr /\ answer' = answer /\ units' = units /\ disk' = disk /\ applied' = applied
        /\ last' = last /\ alone' = alone /\ net' = net /\ lost' = lost
    BY <1>9 DEF LaterPassed, history
  <2>2. PICK p \in {"gone"} : at' = [at EXCEPT ![c][s] = p]
    BY <1>9 DEF LaterPassed
  <2>3. /\ at'[c][s] = p
        /\ \A b \in Refs : b # s => at'[c][b] = at[c][b]
    BY <2>2, <1>0 DEF AtType
  <2>4. ptr[c] \in Reqs /\ R(c) = req[ptr[c]] /\ R(c) \in Request /\ at[c][Local] # "new"
    <3>1. ptr[c] \in Reqs /\ ptr[c] # None /\ R(c) = req[ptr[c]] /\ R(c) \in Request
      BY <2>1, <1>0, Owned
    <3> QED
      BY <3>1, <1>0 DEF RefInv, PlacesOK
  <2>5. /\ \A r \in Reqs : r # ptr[c] => req'[r] = req[r]
        /\ req'[ptr[c]].result = R(c).result
        /\ \A r \in Reqs : req'[r].unit = req[r].unit
    BY <1>9, <2>4, <1>0 DEF LaterPassed, ReqType, Request
  <2>7. Only(c)
    BY <2>1, <2>2, <2>5, <1>0, OnlyOwn
  <2>8. c \in Writes => ~ Quiet(c)
    BY <2>1 DEF Quiet
  <2>9. TRUE
    OBVIOUS
  <2> QED
    BY <1>0, <2>1, <2>2, <2>3, <2>4, <2>5, <2>7, <2>8, <2>9, Moves
<1>10. ASSUME NEW c \in Writes, NEW s \in Secondaries, HandleResponse(c, s)  PROVE Inv'
  <2>1. /\ at[c][s] = "sent"
        /\ ptr' = ptr /\ answer' = answer /\ units' = units /\ disk' = disk /\ applied' = applied
        /\ last' = last /\ alone' = alone /\ net' = net /\ lost' = lost /\ req' = req
    BY <1>10 DEF HandleResponse, history
  <2>2. PICK p \in {"storeT", "storeF"} : at' = [at EXCEPT ![c][s] = p]
    BY <1>10 DEF HandleResponse, SetResult
  <2>3. /\ at'[c][s] = p
        /\ \A b \in Refs : b # s => at'[c][b] = at[c][b]
    BY <2>2, <1>0 DEF AtType
  <2>4. ptr[c] \in Reqs /\ R(c) = req[ptr[c]] /\ R(c) \in Request /\ at[c][Local] # "new"
    <3>1. ptr[c] \in Reqs /\ ptr[c] # None /\ R(c) = req[ptr[c]] /\ R(c) \in Request
      BY <2>1, <1>0, Owned
    <3> QED
      BY <3>1, <1>0 DEF RefInv, PlacesOK
  <2>5. \A r \in Reqs : req'[r] = req[r]
    BY <2>1
  <2>7. Only(c)
    BY <2>1, <2>2, <2>5, <1>0, OnlyOwn
  <2>8. c \in Writes => ~ Quiet(c)
    BY <2>1 DEF Quiet
  <2>9. p = "storeT" => s \in applied[c]
    BY <1>10, <2>3, <1>0, AtExcept DEF HandleResponse, SetResult
  <2> QED
    BY <1>0, <2>1, <2>2, <2>3, <2>4, <2>5, <2>7, <2>8, <2>9, Moves
<1>11. ASSUME NEW c \in Calls, NEW a \in Refs, StoreResult(c, a)  PROVE Inv'
  <2>1. /\ at[c][a] \in {"storeT", "storeF"}
        /\ ptr' = ptr /\ answer' = answer /\ units' = units /\ disk' = disk /\ applied' = applied
        /\ last' = last /\ alone' = alone /\ net' = net
    BY <1>11 DEF StoreResult, history
  <2>2. PICK p \in {"callback"} : at' = [at EXCEPT ![c][a] = p]
    BY <1>11 DEF StoreResult
  <2>3. /\ at'[c][a] = p
        /\ \A b \in Refs : b # a => at'[c][b] = at[c][b]
    BY <2>2, <1>0 DEF AtType
  <2>4. ptr[c] \in Reqs /\ R(c) = req[ptr[c]] /\ R(c) \in Request /\ at[c][Local] # "new"
    <3>1. ptr[c] \in Reqs /\ ptr[c] # None /\ R(c) = req[ptr[c]] /\ R(c) \in Request
      BY <2>1, <1>0, Owned
    <3> QED
      BY <3>1, <1>0 DEF RefInv, PlacesOK
  <2>5. /\ \A r \in Reqs : r # ptr[c] => req'[r] = req[r]
        /\ req'[ptr[c]].result = (at[c][a] = "storeT")
        /\ \A r \in Reqs : req'[r].unit = req[r].unit
    BY <1>11, <2>4, <1>0 DEF StoreResult, ReqType, Request
  <2>6. lost \subseteq lost' /\ \A d \in Calls : d # c => (d \in lost' <=> d \in lost)
    BY <1>11 DEF StoreResult
  <2>7. Only(c)
    BY <2>1, <2>2, <2>5, <2>6, <1>0, OnlyOwn
  <2>8. c \in Writes => ~ Quiet(c)
    BY <2>1, Kinds DEF Quiet
  <2>9. c \in Writes /\ req'[ptr[c]].result /\ c \notin lost' => R(c).result /\ a \in applied[c]
    BY <1>11, <2>5 DEF StoreResult, Inv, ReachedOK
  <2> QED
    BY <1>0, <2>1, <2>2, <2>3, <2>4, <2>5, <2>6, <2>7, <2>8, <2>9, Moves
<1>12. ASSUME NEW c \in Calls, NEW s \in Secondaries, FirstFails(c, s)  PROVE Inv'
  <2>1. /\ at[c][Local] = "run" /\ at[c][s] = "new"
        /\ at' = [at EXCEPT ![c][s] = "gone", ![c][Local] = "failed"]
        /\ req' = [req EXCEPT ![ptr[c]].result = FALSE, ![ptr[c]].ref = @ - 1]
        /\ ptr' = ptr /\ answer' = answer /\ units' = units /\ net' = net /\ disk' = disk
        /\ applied' = applied /\ alone' = alone /\ last' = last /\ lost' = lost
    BY <1>12 DEF FirstFails, history
  <2>2. /\ at'[c][s] = "gone" /\ at'[c][Local] = "failed"
        /\ \A b \in Refs : b # s /\ b # Local => at'[c][b] = at[c][b]
        /\ \A d \in Calls : d # c => at'[d] = at[d]
    BY <2>1, <1>0 DEF AtType
  <2>3. ptr[c] \in Reqs /\ R(c) = req[ptr[c]] /\ R(c) \in Request /\ R(c).owner = c
    BY <2>1, <1>0, Owned
  <2>4. /\ \A r \in Reqs : r # ptr[c] => req'[r] = req[r]
        /\ \A r \in Reqs : req'[r].unit = req[r].unit
    BY <2>1, <2>3, <1>0 DEF ReqType, Request
  <2>5. Only(c)
    BY <2>1, <2>2, <2>3, <2>4 DEF Only
  <2>6. UnitsOK'
    BY <2>1, <2>4, UnitsKeep DEF Inv
  <2>7. ~ Quiet(c)
    BY <2>1 DEF Quiet
  <2>8. AloneOK'
    BY <2>1, <2>5, <2>7, AloneKeep DEF Inv
  <2>9. c \in Writes => ReachedOK(c)'
    BY <2>1, <2>2, <1>0 DEF ReachedOK, Inv
  <2>10. c \in Writes => (answer'[c] = "ok" => applied'[c] = Nodes \/ c \in lost')
    BY <2>1 DEF Inv, AckReplicated
  <2> QED
    BY <1>0, <2>5, <2>6, <2>8, <2>9, <2>10, Assemble
<1>13. ASSUME NEW c \in Calls, DeviceEnds(c)  PROVE Inv'
  <2>1. /\ at[c][Local] = "device" /\ at' = [at EXCEPT ![c][Local] = "ended"]
        /\ req' = req /\ ptr' = ptr /\ answer' = answer /\ units' = units /\ net' = net
        /\ alone' = alone /\ last' = last /\ lost' = lost
        /\ Reaches(c, Primary)
    BY <1>13 DEF DeviceEnds
  <2>2. Primary \in Nodes /\ applied \in [Writes -> SUBSET Nodes]
    BY <1>0, Kinds DEF Local, TypesOK
  <2>3. \A d \in Writes : d # c => applied'[d] = applied[d]
    BY <2>1, <2>2 DEF Reaches
  <2>4. c \in Writes => applied[c] \subseteq applied'[c] /\ Local \in applied'[c]
    BY <2>1, <2>2 DEF Reaches, Local
  <2>5. Only(c)
    BY <2>1, <2>3, <1>0, OnlyOwn
  <2>6. UnitsOK'
    BY <2>1, UnitsKeep DEF Inv
  <2>7. ~ Quiet(c)
    BY <2>1 DEF Quiet
  <2>8. AloneOK'
    BY <2>1, <2>2, <2>5, <2>7, <1>0, AloneReach DEF Inv
  <2>9. at'[c][Local] = "ended"
    BY <2>1, <1>0 DEF AtType
  <2>10. c \in Writes => ReachedOK(c)'
    BY <2>1, <2>4, <2>9, <1>0, ReachedMove DEF Inv, R
  <2>11. c \in Writes => (answer'[c] = "ok" => applied'[c] = Nodes \/ c \in lost')
    BY <2>1, <2>2, <2>4, RefStep DEF Inv, AckReplicated, RefInv, TypesOK
  <2> QED
    BY <1>0, <2>5, <2>6, <2>8, <2>10, <2>11, Assemble
<1>14. ASSUME NEW c \in Calls, DeviceFails(c)  PROVE Inv'
  <2>1. /\ at[c][Local] = "device" /\ at' = [at EXCEPT ![c][Local] = "errored"]
        /\ req' = req /\ ptr' = ptr /\ answer' = answer /\ units' = units /\ net' = net
        /\ alone' = alone /\ last' = last /\ lost' = lost
        /\ Reaches(c, Primary) \/ (disk' = disk /\ applied' = applied)
    BY <1>14 DEF DeviceFails
  <2>2. Primary \in Nodes /\ applied \in [Writes -> SUBSET Nodes]
    BY <1>0, Kinds DEF Local, TypesOK
  <2>3. \A d \in Writes : d # c => applied'[d] = applied[d]
    BY <2>1, <2>2 DEF Reaches
  <2>4. c \in Writes => applied[c] \subseteq applied'[c]
    BY <2>1, <2>2 DEF Reaches
  <2>5. Only(c)
    BY <2>1, <2>3, <1>0, OnlyOwn
  <2>6. UnitsOK'
    BY <2>1, UnitsKeep DEF Inv
  <2>7. ~ Quiet(c)
    BY <2>1 DEF Quiet
  <2>8. AloneOK'
    BY <2>1, <2>2, <2>5, <2>7, <1>0, AloneReach, AloneKeep DEF Inv
  <2>9. at'[c][Local] = "errored"
    BY <2>1, <1>0 DEF AtType
  <2>10. c \in Writes => ReachedOK(c)'
    BY <2>1, <2>4, <2>9, <1>0, ReachedMove DEF Inv, R
  <2>11. c \in Writes => (answer'[c] = "ok" => applied'[c] = Nodes \/ c \in lost')
    BY <2>1, <2>2, <2>4, RefStep DEF Inv, AckReplicated, RefInv, TypesOK
  <2> QED
    BY <1>0, <2>5, <2>6, <2>8, <2>10, <2>11, Assemble
<1>15. ASSUME NEW c \in Writes, NEW s \in Secondaries, Resend(c, s) \/ ReplicateFails(c, s) \/ Replicate(c, s)
      PROVE  Inv'
  <2>1. /\ at' = at /\ req' = req /\ ptr' = ptr /\ answer' = answer /\ units' = units
        /\ alone' = alone /\ last' = last /\ lost' = lost
        /\ at[c][s] = "sent" \/ net[c][s] > 0
        /\ \A d \in Writes : d # c => net'[d] = net[d]
        /\ Reaches(c, s) \/ (disk' = disk /\ applied' = applied)
    BY <1>15, <1>0 DEF Resend, ReplicateFails, Replicate, history, TypesOK
  <2>2. c \in Calls /\ s \in Nodes /\ applied \in [Writes -> SUBSET Nodes]
    BY <1>0, Kinds DEF TypesOK
  <2>3. /\ applied[c] \subseteq applied'[c]
        /\ \A d \in Writes : d # c => applied'[d] = applied[d]
    BY <2>1, <2>2 DEF Reaches
  <2>4. Only(c)
    BY <2>1, <2>3 DEF Only
  <2>5. UnitsOK'
    BY <2>1, UnitsKeep DEF Inv
  <2>6. ~ Quiet(c)
    BY <2>1 DEF Quiet
  <2>7. AloneOK'
    BY <2>1, <2>2, <2>4, <2>6, <1>0, AloneReach, AloneKeep DEF Inv
  <2>8. at[c][Local] # "new"
    <3>1. at[c][Local] = "new" => ptr[c] = None /\ at[c][s] = "gone" /\ net[c][s] = 0
      BY <2>2 DEF Inv, RefInv, PlacesOK, ReachedOK
    <3> QED
      BY <3>1, <2>1
  <2>9. ReachedOK(c)'
    <3>1. Live(c)' = Live(c) /\ R(c)' = R(c) /\ ReachedOK(c)
      BY <2>1 DEF Live, R, Inv
    <3> QED
      BY <3>1, <2>1, <2>3, <2>8 DEF ReachedOK
  <2>10. answer'[c] = "ok" => applied'[c] = Nodes \/ c \in lost'
    BY <2>1, <2>2, <2>3, <1>0 DEF Inv, AckReplicated, RefInv, TypesOK
  <2> QED
    BY <1>0, <2>2, <2>4, <2>5, <2>7, <2>9, <2>10, Assemble
<1>16. ASSUME NEW c \in Calls, DeleteDone(c)  PROVE Inv'
  <2>1. /\ at[c][Local] = "callback" /\ at' = [at EXCEPT ![c][Local] = "gone"]
        /\ ptr' = ptr /\ net' = net /\ disk' = disk
        /\ applied' = applied /\ alone' = alone /\ last' = last /\ lost' = lost
        /\ PutIOUnit(c) /\ PutRequest(c)
    BY <1>16 DEF DeleteDone, history
  <2>2. c \notin Writes
    BY <1>16, <2>1, Kinds DEF DeleteDone, Inv, RefInv, PlacesOK
  <2>3. \A d \in Calls : d # c => answer'[d] = answer[d]
    BY <1>16, <1>0 DEF DeleteDone, Respond, Answer, TypesOK
  <2>4. ptr[c] \in Reqs
    BY <2>1, <1>0, Owned
  <2>5. \A r \in Reqs : r # ptr[c] => req'[r] = req[r]
    BY <2>1, <2>4, <1>0, ReqExcept DEF PutRequest
  <2>6. Only(c)
    BY <2>1, <2>3, <2>5, <1>0, OnlyOwn
  <2>7. UnitsOK'
    BY <2>1, <2>4, <1>0, UnitsPut DEF Inv
  <2>8. AloneOK'
    BY <2>1, <2>2, <2>6, AloneKeep DEF Inv
  <2> QED
    BY <1>0, <2>2, <2>6, <2>7, <2>8, Assemble
<1>17. ASSUME NEW c \in Calls, ReclaimIOUnit(c)  PROVE Inv'
  <2>1. /\ at[c][Local] = "attached" /\ at' = [at EXCEPT ![c][Local] = "gone"]
        /\ ptr' = ptr /\ net' = net /\ disk' = disk
        /\ applied' = applied /\ alone' = alone /\ last' = last /\ lost' = lost
        /\ PutIOUnit(c) /\ PutRequest(c)
    BY <1>17 DEF ReclaimIOUnit, history
  <2>2. c \notin Writes
    BY <1>17, <2>1, Kinds DEF ReclaimIOUnit, Inv, RefInv, PlacesOK
  <2>3. \A d \in Calls : d # c => answer'[d] = answer[d]
    BY <1>17, <1>0 DEF ReclaimIOUnit, TypesOK
  <2>4. ptr[c] \in Reqs
    BY <2>1, <1>0, Owned
  <2>5. \A r \in Reqs : r # ptr[c] => req'[r] = req[r]
    BY <2>1, <2>4, <1>0, ReqExcept DEF PutRequest
  <2>6. Only(c)
    BY <2>1, <2>3, <2>5, <1>0, OnlyOwn
  <2>7. UnitsOK'
    BY <2>1, <2>4, <1>0, UnitsPut DEF Inv
  <2>8. AloneOK'
    BY <2>1, <2>2, <2>6, AloneKeep DEF Inv
  <2> QED
    BY <1>0, <2>2, <2>6, <2>7, <2>8, Assemble
<1>18. ASSUME NEW c \in Calls, ReadDone(c), ~ Attached(c)  PROVE Inv'
  <2>1. /\ at[c][Local] = "callback" /\ at' = [at EXCEPT ![c][Local] = "gone"]
        /\ ptr' = ptr /\ net' = net /\ disk' = disk
        /\ applied' = applied /\ alone' = alone /\ last' = last /\ lost' = lost
        /\ PutIOUnit(c) /\ PutRequest(c)
    BY <1>18 DEF ReadDone, history
  <2>2. c \notin Writes
    BY <1>18, <2>1, Kinds DEF ReadDone, Inv, RefInv, PlacesOK
  <2>3. \A d \in Calls : d # c => answer'[d] = answer[d]
    BY <1>18, <1>0 DEF ReadDone, Respond, Answer, TypesOK
  <2>4. ptr[c] \in Reqs
    BY <2>1, <1>0, Owned
  <2>5. \A r \in Reqs : r # ptr[c] => req'[r] = req[r]
    BY <2>1, <2>4, <1>0, ReqExcept DEF PutRequest
  <2>6. Only(c)
    BY <2>1, <2>3, <2>5, <1>0, OnlyOwn
  <2>7. UnitsOK'
    BY <2>1, <2>4, <1>0, UnitsPut DEF Inv
  <2>8. AloneOK'
    BY <2>1, <2>2, <2>6, AloneKeep DEF Inv
  <2> QED
    BY <1>0, <2>2, <2>6, <2>7, <2>8, Assemble
<1>19. ASSUME NEW c \in Calls, ReadDone(c), Attached(c)  PROVE Inv'
  <2>1. /\ at[c][Local] = "callback" /\ at' = [at EXCEPT ![c][Local] = "attached"]
        /\ ptr' = ptr /\ net' = net /\ disk' = disk
        /\ applied' = applied /\ alone' = alone /\ last' = last /\ lost' = lost
        /\ req' = req /\ units' = units
    BY <1>19 DEF ReadDone, history
  <2>2. c \notin Writes
    BY <1>19, <2>1, Kinds DEF ReadDone, Inv, RefInv, PlacesOK
  <2>3. \A d \in Calls : d # c => answer'[d] = answer[d]
    BY <1>19, <1>0 DEF ReadDone, Respond, Answer, TypesOK
  <2>4. ptr[c] \in Reqs
    BY <2>1, <1>0, Owned
  <2>5. \A r \in Reqs : r # ptr[c] => req'[r] = req[r]
    BY <2>1, <2>4, <1>0
  <2>6. Only(c)
    BY <2>1, <2>3, <2>5, <1>0, OnlyOwn
  <2>7. UnitsOK'
    BY <2>1, <2>4, <1>0, UnitsKeep DEF Inv
  <2>8. AloneOK'
    BY <2>1, <2>2, <2>6, AloneKeep DEF Inv
  <2> QED
    BY <1>0, <2>2, <2>6, <2>7, <2>8, Assemble
<1>20. ASSUME NEW c \in Calls, NEW a \in Refs, WriteDone(c, a)  PROVE Inv'
  <2>1. /\ c \in Writes /\ at[c][a] = "callback" /\ at' = [at EXCEPT ![c][a] = "gone"]
        /\ ptr' = ptr /\ net' = net /\ disk' = disk
        /\ applied' = applied /\ alone' = alone /\ last' = last /\ lost' = lost
    BY <1>20 DEF WriteDone, history
  <2>2. /\ at'[c][a] = "gone"
        /\ \A b \in Refs : b # a => at'[c][b] = at[c][b]
    BY <2>1, <1>0 DEF AtType
  <2>3. /\ ptr[c] \in Reqs /\ ptr[c] # None /\ R(c) = req[ptr[c]] /\ R(c) \in Request
        /\ R(c).ref = Cardinality(Live(c)) /\ a \in Live(c) /\ at[c][Local] # "new"
    <3>1. /\ ptr[c] \in Reqs /\ ptr[c] # None /\ R(c) = req[ptr[c]] /\ R(c) \in Request
          /\ R(c).ref = Cardinality(Live(c)) /\ a \in Live(c)
      BY <2>1, <1>0, Owned
    <3> QED
      BY <3>1, <1>0 DEF RefInv, PlacesOK
  <2>4. Quiet(c) => Quiet(c)'
    BY <2>1, <2>2, <1>0 DEF Quiet
  <2>5. (R(c).result /\ at[c][Local] # "failed" /\ c \notin lost) =>
          \A b \in Refs : at[c][b] \in {"callback", "gone"} => b \in applied[c]
    BY <2>1, <2>3 DEF Inv, ReachedOK
  <2>6. CASE R(c).ref # 1
    <3>1. /\ req' = [req EXCEPT ![ptr[c]].ref = @ - 1]
          /\ answer' = answer /\ units' = units
      BY <1>20, <2>6 DEF WriteDone
    <3>2. /\ \A r \in Reqs : r # ptr[c] => req'[r] = req[r]
          /\ req'[ptr[c]].result = R(c).result
          /\ \A r \in Reqs : req'[r].unit = req[r].unit
      BY <3>1, <2>3, <1>0 DEF ReqType, Request
    <3>3. Only(c)
      BY <2>1, <3>1, <3>2, <1>0, OnlyOwn
    <3>4. at'[c][Local] # "failed" => at[c][Local] # "failed"
      BY <2>1, <2>2, <1>0
    <3> QED
      BY <1>0, <2>1, <2>2, <2>3, <2>4, <2>5, <3>1, <3>2, <3>3, <3>4, Moves
  <2>7. CASE R(c).ref = 1
    <3>1. /\ answer' = [answer EXCEPT ![c] = IF R(c).result THEN "ok" ELSE "error"]
          /\ PutIOUnit(c) /\ PutRequest(c)
      BY <1>20, <2>7 DEF WriteDone, Respond, Answer
    <3>2. \A r \in Reqs : r # ptr[c] => req'[r] = req[r]
      BY <3>1, <2>3, <1>0, ReqExcept DEF PutRequest
    <3>3. /\ answer'[c] = "ok" => R(c).result
          /\ \A d \in Calls : d # c => answer'[d] = answer[d]
      BY <3>1, <1>0 DEF TypesOK
    <3>4. Only(c)
      BY <2>1, <3>2, <3>3, <1>0, OnlyOwn
    <3>5. Live(c)' = {}
      BY <2>1, <2>2, <2>3, <2>7, <1>0, LiveDrop, ZenonT(30)
    <3>6. \A b \in Refs : at'[c][b] = "gone"
      BY <3>5 DEF Live
    <3>7. \A b \in Refs : at[c][b] \in {"callback", "gone"}
      BY <3>6, <2>1, <2>2
    <3>8. UnitsOK'
      BY <2>3, <3>1, <1>0, UnitsPut DEF Inv
    <3>9. AloneOK'
      BY <2>1, <2>4, <3>4, AloneKeep DEF Inv
    <3>10. ReachedOK(c)'
      BY <3>5, <3>6, <1>0 DEF ReachedOK
    <3>11. answer'[c] = "ok" => applied'[c] = Nodes \/ c \in lost'
      <4>1. applied[c] \subseteq Nodes
        BY <2>1, <1>0 DEF TypesOK
      <4>2. R(c).result /\ c \notin lost => \A b \in Refs : b \in applied[c]
        BY <2>5, <3>7, <1>0
      <4> QED
        BY <2>1, <3>3, <4>1, <4>2, Kinds
    <3> QED
      BY <1>0, <3>4, <3>8, <3>9, <3>10, <3>11, Assemble
  <2> QED
    BY <2>6, <2>7
<1>21. ASSUME NEW w \in Workers, Dequeue(w)  PROVE Inv'
  <2> DEFINE m == IF Len(ring) < BatchNums THEN Len(ring) ELSE BatchNums
  <2>1. /\ ptr' = ptr /\ req' = req /\ answer' = answer /\ units' = units /\ net' = net
        /\ disk' = disk /\ applied' = applied /\ alone' = alone /\ last' = last /\ lost' = lost
        /\ at' = [c \in Calls |-> IF \E i \in 1..m : ring[i] = c
                                  THEN [at[c] EXCEPT ![Local] = "batch"] ELSE at[c]]
    BY <1>21 DEF Dequeue, history
  <2>2. ring \in Seq(Calls) /\ Len(ring) \in Nat /\ BatchNums \in Nat
    BY <1>0, ConstantsAssumption DEF TypesOK
  <2>3. m \in Nat /\ m <= Len(ring)
    BY <2>2
  <2> HIDE DEF m
  <2>4. ASSUME NEW c \in Calls
        PROVE  /\ \A b \in Refs : b # Local => at'[c][b] = at[c][b]
               /\ \/ at'[c] = at[c]
                  \/ at[c][Local] = "ring" /\ at'[c][Local] = "batch"
    <3>1. at[c] \in [Refs -> Places]
      BY <1>0 DEF AtType
    <3>2. ASSUME NEW i \in 1..m, ring[i] = c  PROVE at[c][Local] = "ring"
      BY <3>2, <2>2, <2>3, <1>0 DEF RefInv, QueuesOK
    <3> QED
      BY <3>1, <3>2, <2>1, <1>0
  <2>5. \A c \in Writes : ReachedOK(c)'
    <3> SUFFICES ASSUME NEW c \in Writes  PROVE ReachedOK(c)'
      OBVIOUS
    <3>1. /\ ReachedOK(c) /\ c \in Calls
          /\ \A b \in Refs : b # Local => at'[c][b] = at[c][b]
          /\ \/ at'[c] = at[c]
             \/ at[c][Local] = "ring" /\ at'[c][Local] = "batch"
      BY <2>4, <1>0 DEF Inv
    <3>2. Live(c)' = Live(c) /\ R(c)' = R(c)
      BY <3>1, <2>1, <1>0 DEF Live, R
    <3> QED
      BY <3>1, <3>2, <2>1, <1>0 DEF ReachedOK
  <2>6. UnitsOK'
    BY <2>1, UnitsKeep DEF Inv
  <2>7. AckReplicated'
    BY <2>1 DEF Inv, AckReplicated
  <2>8. AloneOK'
    <3>1. ASSUME NEW d \in Writes, Quiet(d)  PROVE Quiet(d)'
      BY <3>1, <2>1, <2>4, <1>0 DEF Quiet
    <3> QED
      BY <3>1, <2>1 DEF Inv, AloneOK
  <2> QED
    BY <1>0, <2>5, <2>6, <2>7, <2>8 DEF Inv
<1>22. ASSUME NEW w \in Workers, Issue(w)  PROVE Inv'
  <2>1. batch \in [Workers -> Seq(Calls)] /\ batch[w] # <<>>
    BY <1>22, <1>0 DEF Issue, TypesOK
  <2>2. PICK c \in Calls : c = Head(batch[w]) /\ c = batch[w][1] /\ 1 \in 1..Len(batch[w])
    BY <2>1
  <2>3. /\ ptr' = ptr /\ answer' = answer /\ net' = net /\ disk' = disk /\ applied' = applied
        /\ alone' = alone /\ last' = last /\ lost' = lost
        /\ units[w] > 0 /\ units' = [units EXCEPT ![w] = @ - 1]
        /\ req' = [req EXCEPT ![ptr[c]].unit = w]
        /\ at' = [at EXCEPT ![c][Local] = "device"]
    BY <1>22, <2>2 DEF Issue, history
  <2>4. at[c][Local] = "batch"
    BY <2>2, <1>0 DEF RefInv, QueuesOK
  <2>5. ptr[c] \in Reqs /\ R(c) = req[ptr[c]] /\ R(c) \in Request /\ R(c).unit = None
    BY <2>2, <2>4, <1>0, Owned
  <2>6. /\ \A r \in Reqs : r # ptr[c] => req'[r] = req[r]
        /\ req'[ptr[c]].unit = w /\ req'[ptr[c]].result = R(c).result
    BY <2>3, <2>5, <1>0 DEF ReqType, Request
  <2>7. Only(c)
    BY <2>2, <2>3, <2>4, <2>6, <1>0, OnlyOwn
  <2>8. UnitsOK'
    BY <2>3, <2>5, <2>6, <1>0, UnitsTake DEF Inv
  <2>9. ~ Quiet(c)
    BY <2>4 DEF Quiet
  <2>10. AloneOK'
    BY <2>2, <2>3, <2>7, <2>9, AloneKeep DEF Inv
  <2>11. ASSUME c \in Writes  PROVE ReachedOK(c)'
    <3>1. RefInv /\ ReachedOK(c)
      BY <2>11, <1>0 DEF Inv
    <3>2. req'[ptr[c]].result => R(c).result /\ "device" # "callback"
      BY <2>6
    <3>3. /\ at' = [at EXCEPT ![c][Local] = "device"] /\ ptr' = ptr
          /\ applied[c] \subseteq applied'[c] /\ lost \subseteq lost'
      BY <2>3
    <3> QED
      BY <3>1, <3>2, <3>3, <2>4, <2>11, <1>0, ReachedMove
  <2>12. c \in Writes => (answer'[c] = "ok" => applied'[c] = Nodes \/ c \in lost')
    BY <2>3 DEF Inv, AckReplicated
  <2> QED
    BY <1>0, <2>2, <2>7, <2>8, <2>10, <2>11, <2>12, Assemble
<1>23. ASSUME NEW w \in Workers, IssueFails(w)  PROVE Inv'
  <2>1. batch \in [Workers -> Seq(Calls)] /\ batch[w] # <<>>
    BY <1>23, <1>0 DEF IssueFails, TypesOK
  <2>2. PICK c \in Calls : c = Head(batch[w]) /\ c = batch[w][1] /\ 1 \in 1..Len(batch[w])
    BY <2>1
  <2>3. /\ ptr' = ptr /\ answer' = answer /\ net' = net /\ disk' = disk /\ applied' = applied
        /\ alone' = alone /\ last' = last /\ lost' = lost
        /\ units[w] > 0 /\ units' = [units EXCEPT ![w] = @ - 1]
        /\ req' = [req EXCEPT ![ptr[c]].unit = w, ![ptr[c]].result = FALSE]
        /\ at' = [at EXCEPT ![c][Local] = "callback"]
    BY <1>23, <2>2 DEF IssueFails, history
  <2>4. at[c][Local] = "batch"
    BY <2>2, <1>0 DEF RefInv, QueuesOK
  <2>5. ptr[c] \in Reqs /\ R(c) = req[ptr[c]] /\ R(c) \in Request /\ R(c).unit = None
    BY <2>2, <2>4, <1>0, Owned
  <2>6. /\ \A r \in Reqs : r # ptr[c] => req'[r] = req[r]
        /\ req'[ptr[c]].unit = w /\ req'[ptr[c]].result = FALSE
    BY <2>3, <2>5, <1>0 DEF ReqType, Request
  <2>7. Only(c)
    BY <2>2, <2>3, <2>4, <2>6, <1>0, OnlyOwn
  <2>8. UnitsOK'
    BY <2>3, <2>5, <2>6, <1>0, UnitsTake DEF Inv
  <2>9. ~ Quiet(c)
    BY <2>4 DEF Quiet
  <2>10. AloneOK'
    BY <2>2, <2>3, <2>7, <2>9, AloneKeep DEF Inv
  <2>11. ASSUME c \in Writes  PROVE ReachedOK(c)'
    <3>1. RefInv /\ ReachedOK(c)
      BY <2>11, <1>0 DEF Inv
    <3>2. ~ R(c)'.result /\ applied' = applied
      BY <2>3, <2>6 DEF R
    <3>3. /\ at'[c][Local] = "callback"
          /\ \A b \in Refs : b # Local => at'[c][b] = at[c][b]
      BY <2>2, <2>3, <1>0 DEF AtType
    <3> QED
      BY <3>1, <3>2, <3>3, <1>0 DEF ReachedOK
  <2>12. c \in Writes => (answer'[c] = "ok" => applied'[c] = Nodes \/ c \in lost')
    BY <2>3 DEF Inv, AckReplicated
  <2> QED
    BY <1>0, <2>2, <2>7, <2>8, <2>10, <2>11, <2>12, Assemble
<1>24. CASE UNCHANGED vars
  <2>1. \A c \in Writes : ReachedOK(c)'
    BY <1>24 DEF Inv, ReachedOK, Live, R, vars
  <2>2. UnitsOK'
    BY <1>24, UnitsKeep DEF Inv, vars
  <2>3. AckReplicated' /\ AloneOK'
    BY <1>24 DEF Inv, AckReplicated, AloneOK, Quiet, vars
  <2> QED
    BY <1>0, <2>1, <2>2, <2>3 DEF Inv
<1>27. ASSUME NEW c \in Calls, NEW s \in Secondaries, SendFails(c, s)  PROVE Inv'
  BY <1>9, <1>12, <1>27, <1>0, SendFailsCases DEF Inv, RefInv
<1> QED
  BY <1>27, <1>1, <1>2, <1>3, <1>4, <1>5, <1>6, <1>7, <1>8, <1>9, <1>10, <1>11, <1>12, <1>13, <1>14, <1>15, <1>16, <1>17, <1>18, <1>19, <1>20, <1>21, <1>22, <1>23, <1>24
     DEF Next, Handler, Device, Callback, Network, Worker

-----------------------------------------------------------------------------
(* The results.                                                            *)

LEMMA InvInit == Init => Inv
<1> SUFFICES ASSUME Init  PROVE Inv
  OBVIOUS
<1>1. \A c \in Calls : /\ ptr[c] = None /\ answers[c] = 0 /\ answer[c] = "none"
                       /\ at[c][Local] = "new"
                       /\ \A s \in Secondaries : at[c][s] = "gone"
  BY Kinds DEF Init
<1>2. at \in AtType
  BY DEF Init, AtType, Places, LocalPlaces, RpcPlaces
<1>3. req \in ReqType /\ \A r \in Reqs : req[r] = FreeReq
  BY FreeType DEF Init, ReqType
<1>4. ring = <<>> /\ \A w \in Workers : batch[w] = <<>>
  BY DEF Init
<1>5. TypesOK
  <2>1. ring \in Seq(Calls) /\ batch \in [Workers -> Seq(Calls)]
    BY DEF Init
  <2>2. units \in [Workers -> Nat]
    BY ConstantsAssumption DEF Init
  <2> QED
    BY <1>2, <1>3, <2>1, <2>2 DEF Init, TypesOK
<1>6. \A c \in Calls : PlacesOK(c) /\ OwnOK(c)
  BY <1>1 DEF PlacesOK, OwnOK, LocalPlaces, RpcPlaces
<1>7. PoolOK
  BY <1>3 DEF PoolOK
<1>8. QueuesOK
  BY <1>4 DEF QueuesOK
<1>9. AnsweredLast
  BY <1>1 DEF AnsweredLast
<1>10. UnitsOK
  <2>1. \A w \in Workers : Holders(w) = {} /\ units[w] = IOUnits
    BY <1>3, Kinds DEF Holders, FreeReq, Init
  <2>2. IsFiniteSet({}) /\ Cardinality({}) = 0
    BY FS_EmptySet
  <2> QED
    BY <2>1, <2>2, ConstantsAssumption DEF UnitsOK
<1>11. \A c \in Writes : ReachedOK(c)
  <2> SUFFICES ASSUME NEW c \in Writes  PROVE ReachedOK(c)
    OBVIOUS
  <2>1. c \in Calls /\ applied[c] = {} /\ alone = {} /\ \A s \in Secondaries : net[c][s] = 0
    BY Kinds DEF Init
  <2>2. \A a \in Refs : at[c][a] \in {"new", "gone"}
    BY <2>1, <1>1, Kinds
  <2> QED
    BY <2>1, <2>2, <1>1, Kinds DEF ReachedOK
<1>12. AckReplicated
  BY <1>1, Kinds DEF AckReplicated
<1>13. AloneOK
  BY DEF Init, AloneOK
<1> QED
  BY <1>5, <1>6, <1>7, <1>8, <1>9, <1>10, <1>11, <1>12, <1>13 DEF Inv, RefInv

(* The inductive invariant: reference counts, units, reach and the write   *)
(* that runs alone, for all interleavings of handlers, workers, device and *)
(* replicate RPCs.                                                         *)
THEOREM Invariance == Spec => []Inv
<1>1. Init => Inv
  BY InvInit
<1>2. Inv /\ [Next]_vars => Inv'
  BY InvStep
<1> QED
  BY <1>1, <1>2, PTL DEF Spec

(* Every variable keeps its type; a worker's pool never holds more units   *)
(* than it was given nor less than none.                                   *)
THEOREM TypeCorrect == Spec => []TypeOK
<1>1. Inv => TypeOK
  <2> SUFFICES ASSUME Inv  PROVE TypeOK
    OBVIOUS
  <2>1. TypesOK
    BY DEF Inv, RefInv
  <2>2. ASSUME NEW w \in Workers  PROVE units[w] \in 0..IOUnits
    <3>1. IsFiniteSet(Holders(w)) /\ units[w] + Cardinality(Holders(w)) = IOUnits
      BY DEF Inv, UnitsOK
    <3>2. Cardinality(Holders(w)) \in Nat
      BY <3>1, FS_CardinalityType
    <3> QED
      BY <2>1, <3>1, <3>2, ConstantsAssumption DEF TypesOK
  <2>3. units \in [Workers -> 0..IOUnits]
    BY <2>1, <2>2 DEF TypesOK
  <2> QED
    BY <2>1, <2>3 DEF TypesOK, TypeOK, AtType, ReqType, Places
<1> QED
  BY <1>1, Invariance, PTL

(* No thread uses a Request that was put back to the pool, and the done    *)
(* closure of a call runs once, after its last reference is gone.          *)
THEOREM RequestsSafe == Spec => []NoUseAfterPut
<1>1. Inv => NoUseAfterPut
  <2> SUFFICES ASSUME Inv  PROVE NoUseAfterPut
    OBVIOUS
  <2>1. ASSUME NEW c \in Calls, ptr[c] # None, NEW a \in Refs, at[c][a] # "gone"
        PROVE  R(c).owner = c
    <3>1. Live(c) # {}
      BY <2>1 DEF Live
    <3> QED
      BY <3>1, <2>1 DEF Inv, RefInv, OwnOK
  <2>2. OwnedWhileUsed
    BY <2>1 DEF OwnedWhileUsed
  <2> QED
    BY <2>2 DEF Inv, RefInv, NoUseAfterPut
<1> QED
  BY <1>1, Invariance, PTL

(* Whatever mix of failures a call meets, its IO unit goes back exactly    *)
(* once: free units and units held by Requests add up to the pool.         *)
THEOREM UnitsNeverLost == Spec => []UnitsConserved
<1>1. Inv => UnitsConserved
  <2> SUFFICES ASSUME Inv  PROVE UnitsConserved
    OBVIOUS
  <2>1. \A w \in Workers : units[w] + Cardinality({r \in Reqs : req[r].unit = w}) = IOUnits
    BY DEF Inv, UnitsOK, Holders
  <2>2. ASSUME NEW r \in Reqs, req[r].owner = None  PROVE req[r].unit = None
    <3>1. req[r] = FreeReq
      BY <2>2, Kinds DEF Inv, RefInv, PoolOK
    <3> QED
      BY <3>1 DEF FreeReq
  <2> QED
    BY <2>1, <2>2 DEF UnitsConserved
<1> QED
  BY <1>1, Invariance, PTL

(* A write answered OK is on every replica, unless two SetResult calls     *)
(* overlapped and hid a failure.                                           *)
THEOREM AcksReplicated == Spec => []AckReplicated
<1>1. Inv => AckReplicated
  BY DEF Inv
<1> QED
  BY <1>1, Invariance, PTL

(* After a write that ran alone is answered OK all replicas hold it,       *)
(* whatever failed or was sent twice before.                               *)
THEOREM ReplicasSame == Spec => []ReplicasAgree
<1>1. Inv => ReplicasAgree
  <2> SUFFICES ASSUME Inv, last \in alone, answer[last] = "ok", last \notin lost
               PROVE  \A n \in Nodes : disk[n] = last
    BY DEF ReplicasAgree
  <2>1. last \in Writes
    BY DEF Inv, RefInv, TypesOK
  <2>2. applied[last] = Nodes
    BY <2>1 DEF Inv, AckReplicated
  <2> QED
    BY <2>2 DEF Inv, AloneOK
<1> QED
  BY <1>1, Invariance, PTL
=============================================================================
