------------------------------ MODULE MCCluster ------------------------------
(***************************************************************************)
(* The replication groups of a pool and the pools with their servers,      *)
(* checked together.  They share no state here; a behaviour is one of the  *)
(* part chosen at the start, the other part stands still.                  *)
(***************************************************************************)
EXTENDS PoolManager, TLC

CONSTANTS
  t1, t2,     \* brpc workers
  s1, s2, s3, \* extent servers
  Servers, Host, Rack, Weight, EsSets, ReplicaCounts, RgPerEs, Batch, Used, \* as in RgManager
  MaxPasses, MaxWant, MaxExtents                                            \* its bounds

VARIABLES
  part,
  status, conf, pass, map, obj, heap, ordered, groups, used, taking, acked, tainted, skipped, refused

(* One pool id, used twice; two servers, one of which also reports with    *)
(* the other's address.                                                    *)
TwoServers == {<<1, "a">>, <<2, "a">>, <<2, "b">>}

(* Three servers on two hosts of one rack, one of twice the size. *)
TwoHosts == s1 :> "h1" @@ s2 :> "h1" @@ s3 :> "h2"
OneRack  == s1 :> "r1" @@ s2 :> "r1" @@ s3 :> "r1"
Weights  == s1 :> 1 @@ s2 :> 2 @@ s3 :> 1
EsAll    == {{s1, s2, s3}}

G == INSTANCE RgManager WITH kv <- groups, call <- taking

gv == <<status, conf, pass, map, obj, heap, ordered, groups, used, taking, acked, tainted, skipped, refused>>
all == <<part, vars, gv>>

(* The groups are left out of the part of the pools. *)
NoGroups ==
  /\ status = "none" /\ conf = G!NoConf /\ pass = 0 /\ map = <<>> /\ obj = <<>> /\ heap = <<>>
  /\ ordered = FALSE /\ groups = <<>> /\ used = <<>> /\ taking = G!Idle /\ acked = <<>>
  /\ tainted = FALSE /\ skipped = FALSE /\ refused = {}

InitAll ==
  /\ \/ part = "groups" /\ G!Init
     \/ part = "pools" /\ NoGroups
  /\ Init

NextAll ==
  \/ part = "groups" /\ G!Next /\ UNCHANGED <<part, vars>>
  \/ part = "pools" /\ Next /\ UNCHANGED <<part, gv>>

SpecAll == InitAll /\ [][NextAll]_all

(* Bounds: no property is claimed of groups that were set up twice, and    *)
(* one server never fills; one thing goes wrong with the first pool of an  *)
(* id, nothing with the second; a write fails or the process stops, not    *)
(* both.                                                                   *)
Bound ==
  /\ part = "groups" => ~ tainted /\ used[s1] = 90
  /\ Cardinality(mishap["poolid-a"]) <= IF count.pools > 1 THEN 0 ELSE 1
  /\ count.faults + count.restarts <= 1

Symmetry == Permutations({t1, t2})
-----------------------------------------------------------------------------
(* Properties of the groups; those of the pools are in PoolManager.        *)

(* An enabled pool has all of its groups, in memory and in RocksDB, placed *)
(* as the failure domain asks, also after a restart between any two steps  *)
(* of InitPool, and its servers lead groups in proportion to their weight. *)
GroupsDealt == part = "groups" => G!TypeOK /\ G!GroupsPlaced /\ G!PrimariesBalanced

(* allocate_rgs: the extents a client was told of are in the stored counts *)
(* of their groups, no group is lost from the heaps, a call is refused     *)
(* only when every group has a full server, and the extents are spread in  *)
(* proportion, as long as no group was passed over as near full.           *)
ExtentsSpread ==
  part = "groups" => G!AckedCounted /\ G!HeapsComplete /\ G!RefusedOnlyWhenFull /\ G!LoadBalanced
=============================================================================
