----------------------------- MODULE MCBlobRace -----------------------------
(***************************************************************************)
(* Blobs against the collector, on three instances of BlobLifecycle, one   *)
(* behaviour of each:                                                      *)
(*   "race":  two threads that serve requests, no faults;                  *)
(*   "rpc":   two replicas, calls to them that are lost before or after    *)
(*            their effect, and the collector's time limit;                *)
(*   "pools": two pools, and the collector's time limit.                   *)
(* The invariants are those of BlobLifecycle; of the two replicas, which   *)
(* are alike, they look at "r1".                                           *)
(***************************************************************************)
EXTENDS BlobLifecycle

VARIABLE part

R == INSTANCE BlobLifecycle WITH Replicas <- {"r1", "r2"}, Faults <- {"rpc", "time"}
P == INSTANCE BlobLifecycle WITH Pools <- {"p1", "p2"}, MaxSize <- 1, Faults <- {"time"}

InitAll ==
  \/ part = "race" /\ Init
  \/ part = "rpc" /\ R!Init
  \/ part = "pools" /\ P!Init

(* Two threads race; beside the faults there is one.                       *)
NextAll ==
  \/ part = "race" /\ Next /\ UNCHANGED part
  \/ part = "rpc" /\ R!Next /\ UNCHANGED <<part, op["t2"]>>
  \/ part = "pools" /\ P!Next /\ UNCHANGED <<part, op["t2"]>>

(* FairSpec of the first instance. *)
SpecAll ==
  /\ InitAll /\ [][NextAll]_<<part, vars>>
  /\ \A t \in Threads : WF_vars(part = "race" /\ op[t] # Idle /\ Request(t))
  /\ WF_vars(part = "race" /\ GcStart) /\ WF_vars(part = "race" /\ Gc)
-----------------------------------------------------------------------------
(* Without faults gc() removes every deleted blob that was written, beside *)
(* two request threads.                                                    *)
WrittenBlobsGo ==
  \A b \in Blobs : (part = "race" /\ DeletedAndWritten(b)) ~> RemovedOrOvertaken(b)
=============================================================================
