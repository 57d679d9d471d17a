------------------------ MODULE BlobLifecycleProofs ------------------------
(***************************************************************************)
(* Proofs about BlobLifecycle, for any users, pools, blobs, replicas and   *)
(* request threads, any batch size and any choice of faults.               *)
(***************************************************************************)
EXTENDS BlobLifecycle, TLAPS

(* Thread t is serving a request on blob b.                                *)
On(t, b) == op[t] # Idle /\ op[t].blob = b

(* It is at one of the steps pcs of that request.                          *)
Doing(t, b, pcs) == On(t, b) /\ op[t].pc \in pcs

(* No request on b failed halfway, died in a crash or was overtaken.       *)
Clean(b) == b \notin troubled \cup overtaken

(* The collector is inside deleteOneBlob.                                  *)
Working == gc.pc \in {"extent", "reclaim", "router", "erase"}

(* What a request has read stays true while it runs: only one thread       *)
(* creates a blob, and a resize works on a blob that is in the map.        *)
OpsOK ==
  \A t \in Threads : op[t] # Idle =>
    LET o == op[t]
    IN  /\ o.from >= 1 /\ o.from <= o.to
        /\ o.pc = "create" => /\ blob[o.blob] = NoBlob /\ o.from = 1
                              /\ pool[o.pool] # "gone"
                              /\ \A s \in Threads : On(s, o.blob) => s = t
        /\ o.pc # "create" => blob[o.blob].status # "none"
        /\ o.pc \in {"set", "put"} => InMap(blob[o.blob])
        /\ o.pc \in {"pool", "set", "put"} => o.pool = blob[o.blob].pool /\ o.user = blob[o.blob].user
        /\ o.pc = "put" => /\ InMap(o.value)
                           /\ o.value.pool = blob[o.blob].pool /\ o.value.user = blob[o.blob].user

(* A blob and its record have the same user and pool, from the first Put   *)
(* on.                                                                     *)
RecordsOK ==
  \A b \in Blobs :
    IF blob[b].status = "none" THEN blob[b] = NoBlob /\ blobKV[b] = NoBlob
    ELSE /\ blobKV[b].status # "none"
         /\ blob[b].user \in Users /\ blob[b].pool \in Pools
         /\ blobKV[b].user = blob[b].user /\ blobKV[b].pool = blob[b].pool

(* A pool is removed from the map and from RocksDB together, with its      *)
(* blobs, and an enabled pool is stored as enabled.                        *)
PoolsOK ==
  /\ \A p \in Pools : /\ pool[p] = "gone" <=> poolKV[p] = "gone"
                      /\ pool[p] = "created" => poolKV[p] = "created"
  /\ \A b \in Blobs : InMap(blob[b]) => pool[blob[b].pool] # "gone"

(* What the collector has listed nobody uses any more: its pools and users *)
(* are deleted, its blobs unusable, and space is left alone only in a      *)
(* deleted pool.                                                           *)
GcOK ==
  /\ gc.phase # "users" => gc.todo \subseteq Pools
  /\ gc.phase = "users" => gc.todo \subseteq Users
  /\ gc.phase = "pools" => \A p \in gc.todo : pool[p] # "created"
  /\ gc.phase = "users" => \A u \in gc.todo : user[u].status # "created"
  /\ gc.pc \notin {"idle", "list"} =>
       /\ gc.phase = "pools" => gc.item \in Pools /\ pool[gc.item] # "created" /\ ~ gc.remote
       /\ gc.phase = "users" => gc.item \in Users /\ user[gc.item].status # "created"
       /\ gc.phase = "blobs" => gc.item \in Pools /\ gc.remote
  /\ gc.pc = "pools" => gc.phase = "users"
  /\ gc.pc \in {"idle", "list", "pools"} => gc.blobs = {}
  /\ \A b \in gc.blobs : blob[b].status # "none" /\ ~ Usable(b)
  /\ \A b \in gc.blobs : ~ gc.remote => pool[blob[b].pool] # "created"
  /\ Working => /\ gc.blob \in Blobs /\ InMap(blob[gc.blob]) /\ ~ Usable(gc.blob)
                /\ ~ gc.remote => pool[blob[gc.blob].pool] # "created"
                /\ 1 <= gc.idx /\ gc.idx <= gc.last + 1
                /\ gc.pc \in {"reclaim", "router"} => gc.idx <= gc.last /\ gc.remote
                /\ gc.pc = "erase" => gc.idx > gc.last

(* Who overtakes nobody: at most one thread is between size_ and its Put,  *)
(* it carries the map's value, and the stored size is its old one.         *)
SizesOK ==
  \A b \in Blobs \ overtaken :
    /\ \A t \in Threads :
         /\ Doing(t, b, {"set"}) => op[t].from = blob[b].size + 1
         /\ Doing(t, b, {"put"}) => /\ op[t].to = blob[b].size
                                    /\ op[t].from = blobKV[b].size + 1
                                    /\ op[t].value = blob[b]
         /\ Doing(t, b, {"pool", "routers"}) => op[t].to <= blobKV[b].size
    /\ \A s, t \in Threads : Doing(s, b, {"put"}) /\ Doing(t, b, {"put"}) => s = t
    /\ (\A t \in Threads : ~ Doing(t, b, {"put"})) => blobKV[b].size = blob[b].size
    /\ acked[b] <= blobKV[b].size

(* All that was ever routed, told or held is within the stored size.       *)
RoutedWithin ==
  \A e \in routers \cup cache \cup filling \cup known \cup UNION {held[n] : n \in Replicas} :
    e[1] \in overtaken \/ e[2] <= blobKV[e[1]].size

(* Every extent of the stored size has a router, or a thread that will put *)
(* it.                                                                     *)
RoutesOK ==
  \A b \in Blobs : Clean(b) /\ Usable(b) =>
    \A i \in 1..blobKV[b].size :
      \/ <<b, i>> \in routers
      \/ \E t \in Threads : Doing(t, b, {"pool", "routers"}) /\ op[t].from <= i /\ i <= op[t].to

(* A restart would bring back the status of the map, except while the      *)
(* collector erases the entry; a deletion of the user or the pool is       *)
(* stored.                                                                 *)
StatusOK ==
  \A b \in Blobs : Clean(b) =>
    /\ Recovered(b).status = blob[b].status \/ Erasing(b)
    /\ Erasing(b) => blobKV[b].status = "gone" \/ \E t \in Threads : Doing(t, b, {"routers"})
    /\ InMap(blob[b]) =>
         /\ userKV[blob[b].user].status = "created" => UserExist(blob[b].user)
         /\ poolKV[blob[b].pool] = "created" => pool[blob[b].pool] = "created"

(* A blob in the map has a record, or the collector is erasing it.         *)
KeptOK == \A b \in Blobs : InMap(blob[b]) => InMap(blobKV[b]) \/ Erasing(b) \/ b \in overtaken

(* The walk of deleteOneBlob covers all extents, and those behind it have  *)
(* no router.                                                              *)
WalkOK ==
  Working /\ gc.blob \notin overtaken =>
    /\ blobKV[gc.blob].size <= gc.last /\ blob[gc.blob].size <= gc.last
    /\ \A e \in routers : e[1] = gc.blob => e[2] >= gc.idx

(* Extents behind the walk hold no space, and a removed blob holds some    *)
(* only in a pool that is not enabled.                                     *)
LeakOK ==
  \A n \in Replicas : \A e \in held[n] : Clean(e[1]) =>
    /\ Working /\ gc.blob = e[1] /\ gc.remote => e[2] >= gc.idx /\ (gc.pc = "router" => e[2] # gc.idx)
    /\ blob[e[1]].status = "gone" => poolKV[blob[e[1]].pool] # "created"

(* Every blob is in a pool that its user's map entry names, and while the  *)
(* collector deletes the user it still has the blob before it.             *)
UsersInv ==
  \A b \in Blobs : Clean(b) /\ InMap(blob[b]) =>
    \/ \E t \in Threads : Doing(t, b, {"pool"})
    \/ /\ blob[b].pool \in user[blob[b].user].pools
       /\ user[blob[b].user].status # "gone"
       /\ gc.phase = "users" /\ gc.pc \notin {"idle", "list"} /\ gc.success /\ gc.item = blob[b].user =>
            \/ blob[b].pool \in gc.pools \/ b \in gc.blobs \/ (Working /\ gc.blob = b)

(* A crash forgets the pools that add_pool has added to the map only.      *)
UsersOK == "crash" \in Faults \/ UsersInv

(* The inductive invariant.                                                *)
Inv == /\ TypeOK /\ OpsOK /\ RecordsOK /\ PoolsOK /\ GcOK /\ SizesOK
       /\ RoutedWithin /\ RoutesOK /\ StatusOK /\ KeptOK /\ RoutersHaveBlob
       /\ WalkOK /\ LeakOK /\ UsersOK

-----------------------------------------------------------------------------
(* The histories grow.                                                     *)
Grows == troubled \subseteq troubled' /\ overtaken \subseteq overtaken'

(* OpsOK depends on the variables named here only.                         *)
LEMMA OpsOKFrame ==
  ASSUME OpsOK, UNCHANGED <<op, blob, pool>>
  PROVE  OpsOK'
BY DEF OpsOK, On

(* RecordsOK depends on the variables named here only.                     *)
LEMMA RecordsOKFrame ==
  ASSUME RecordsOK, UNCHANGED <<blob, blobKV>>
  PROVE  RecordsOK'
BY DEF RecordsOK

(* PoolsOK depends on the variables named here only.                       *)
LEMMA PoolsOKFrame ==
  ASSUME PoolsOK, UNCHANGED <<pool, poolKV, blob>>
  PROVE  PoolsOK'
BY DEF PoolsOK

(* GcOK depends on the variables named here only.                          *)
LEMMA GcOKFrame ==
  ASSUME GcOK, UNCHANGED <<gc, pool, user, blob>>
  PROVE  GcOK'
BY DEF GcOK, Usable, UserExist, BlobValid, Working

(* SizesOK depends on the variables named here only.                       *)
LEMMA SizesOKFrame ==
  ASSUME SizesOK, UNCHANGED <<op, blob, blobKV, acked>>, Grows
  PROVE  SizesOK'
BY DEF SizesOK, Doing, On, Grows

(* RoutedWithin depends on the variables named here only.                  *)
LEMMA RoutedWithinFrame ==
  ASSUME RoutedWithin, UNCHANGED <<routers, cache, filling, known, held, blobKV>>, Grows
  PROVE  RoutedWithin'
BY DEF RoutedWithin, Grows

(* RoutesOK depends on the variables named here only.                      *)
LEMMA RoutesOKFrame ==
  ASSUME RoutesOK, UNCHANGED <<user, pool, blob, blobKV, routers, op>>, Grows
  PROVE  RoutesOK'
BY DEF RoutesOK, Clean, Usable, UserExist, BlobValid, Doing, On, Grows

(* StatusOK depends on the variables named here only.                      *)
LEMMA StatusOKFrame ==
  ASSUME StatusOK, UNCHANGED <<blob, blobKV, poolKV, gc, op, user, userKV, pool>>, Grows
  PROVE  StatusOK'
BY DEF StatusOK, Clean, Recovered, Erasing, Doing, On, UserExist, Grows

(* KeptOK depends on the variables named here only.                        *)
LEMMA KeptOKFrame ==
  ASSUME KeptOK, UNCHANGED <<blob, blobKV, gc>>, Grows
  PROVE  KeptOK'
BY DEF KeptOK, Erasing, Grows

(* RoutersHaveBlob depends on the variables named here only.               *)
LEMMA RoutersHaveBlobFrame ==
  ASSUME RoutersHaveBlob, UNCHANGED <<routers, blobKV>>, Grows
  PROVE  RoutersHaveBlob'
BY DEF RoutersHaveBlob, Grows

(* WalkOK depends on the variables named here only.                        *)
LEMMA WalkOKFrame ==
  ASSUME WalkOK, UNCHANGED <<gc, blobKV, blob, routers>>, Grows
  PROVE  WalkOK'
BY DEF WalkOK, Working, Grows

(* LeakOK depends on the variables named here only.                        *)
LEMMA LeakOKFrame ==
  ASSUME LeakOK, UNCHANGED <<held, gc, blob, poolKV>>, Grows
  PROVE  LeakOK'
BY DEF LeakOK, Clean, Working, Grows

(* UsersOK depends on the variables named here only.                       *)
LEMMA UsersOKFrame ==
  ASSUME UsersOK, UNCHANGED <<blob, op, user, gc>>, Grows
  PROVE  UsersOK'
BY DEF UsersOK, UsersInv, Clean, Doing, On, Working, Grows

-----------------------------------------------------------------------------
(* Facts that many steps need.                                             *)

(* The fields of a request.                                                *)
LEMMA OpFacts ==
  ASSUME NEW o \in OpRecs
  PROVE  /\ o # Idle /\ o.pc \in {"create", "pool", "routers", "set", "put"}
         /\ o.user \in Users /\ o.pool \in Pools /\ o.blob \in Blobs
         /\ o.from \in Nat /\ o.to \in Sizes /\ o.to \in Nat /\ o.value \in BlobRecs
<1>1. o.pc # Idle.pc
  BY DEF OpRecs, Idle
<1> QED
  BY <1>1, ConstantsAssumption DEF OpRecs, Sizes

(* A thread that is not idle has a request.                                *)
LEMMA Busy ==
  ASSUME TypeOK, NEW t \in Threads, op[t] # Idle
  PROVE  op[t] \in OpRecs
BY DEF TypeOK

(* An idle thread is at no step.                                           *)
LEMMA IdlePC == Idle.pc = "idle"
BY DEF Idle

(* The entry of an unused id is well typed.                                *)
LEMMA NoBlobRec == NoBlob \in BlobRecs
BY ConstantsAssumption DEF NoBlob, BlobRecs, Statuses

(* The maps at one blob.                                                   *)
LEMMA BlobFacts ==
  ASSUME TypeOK, NEW b \in Blobs
  PROVE  /\ blob[b] \in BlobRecs /\ blobKV[b] \in BlobRecs
         /\ blob[b].size \in Nat /\ blobKV[b].size \in Nat
         /\ blob[b].size <= MaxSize /\ acked[b] \in Nat
         /\ blob[b].status \in Statuses /\ blobKV[b].status \in Statuses
BY ConstantsAssumption DEF TypeOK, BlobRecs

(* An extent is a blob and an index from 1.                                *)
LEMMA ExtentFacts ==
  ASSUME NEW e \in Extents
  PROVE  e[1] \in Blobs /\ e[2] \in Nat /\ e = <<e[1], e[2]>> /\ e[2] >= 1
BY ConstantsAssumption DEF Extents, Sizes

(* What the collector has listed stays unusable, whatever requests do.     *)
LEMMA GcStays ==
  ASSUME TypeOK, RecordsOK, GcOK, UNCHANGED gc,
         \A p \in Pools : pool'[p] = "created" => pool[p] = "created",
         \A u \in Users : user'[u].status = "created" => user[u].status = "created",
         \A b \in Blobs : blob[b].status # "none" =>
            /\ blob'[b].user = blob[b].user /\ blob'[b].pool = blob[b].pool
            /\ blob'[b].status # "none"
            /\ blob'[b].status = "created" => blob[b].status = "created",
         Working => InMap(blob'[gc.blob])
  PROVE  GcOK'
<1>1. gc.blobs \subseteq Blobs
  BY DEF TypeOK, GcRecs
<1>2. \A b \in Blobs : blob[b].status # "none" => blob[b].user \in Users /\ blob[b].pool \in Pools
  BY DEF RecordsOK
<1>3. ASSUME NEW b \in Blobs, blob[b].status # "none"
      PROVE  /\ ~ Usable(b) => ~ Usable(b)'
             /\ pool[blob[b].pool] # "created" => pool'[blob'[b].pool] # "created"
  BY <1>2, <1>3 DEF Usable, UserExist, BlobValid
<1>4. /\ gc.phase # "users" => gc.todo \subseteq Pools
      /\ gc.phase = "users" => gc.todo \subseteq Users
      /\ gc.phase = "pools" => \A p \in gc.todo : pool'[p] # "created"
      /\ gc.phase = "users" => \A u \in gc.todo : user'[u].status # "created"
      /\ gc.pc \notin {"idle", "list"} =>
           /\ gc.phase = "pools" => gc.item \in Pools /\ pool'[gc.item] # "created" /\ ~ gc.remote
           /\ gc.phase = "users" => gc.item \in Users /\ user'[gc.item].status # "created"
           /\ gc.phase = "blobs" => gc.item \in Pools /\ gc.remote
      /\ gc.pc = "pools" => gc.phase = "users"
      /\ gc.pc \in {"idle", "list", "pools"} => gc.blobs = {}
  BY DEF GcOK
<1>5. \A b \in gc.blobs : /\ blob'[b].status # "none" /\ ~ Usable(b)'
                          /\ ~ gc.remote => pool'[blob'[b].pool] # "created"
  BY <1>1, <1>3 DEF GcOK
<1>6. Working => /\ gc.blob \in Blobs /\ InMap(blob'[gc.blob]) /\ ~ Usable(gc.blob)'
                 /\ ~ gc.remote => pool'[blob'[gc.blob].pool] # "created"
  BY <1>3 DEF GcOK, InMap
<1> QED
  BY <1>4, <1>5, <1>6 DEF GcOK, Working

-----------------------------------------------------------------------------
(* Requests.                                                               *)

(* CreateBlob picks an id that nobody uses.                                *)
LEMMA CreateBlobInv ==
  ASSUME Inv, NEW t \in Threads, NEW u \in Users, NEW p \in Pools, NEW b \in Blobs,
         NEW n \in Sizes, CreateBlob(t, u, p, b, n)
  PROVE  Inv'
<1> USE DEF Inv
<1>1. PICK o : o = [pc |-> "create", user |-> u, pool |-> p, blob |-> b,
                    from |-> 1, to |-> n, value |-> NoBlob]
  OBVIOUS
<1>2. /\ op[t] = Idle /\ pool[p] = "created" /\ blob[b] = NoBlob
      /\ \A s \in Threads : ~ On(s, b)
      /\ op' = [op EXCEPT ![t] = o]
      /\ UNCHANGED <<user, userKV, pool, poolKV, blob, blobKV, routers, cache, filling,
                     known, held, gc, acked, troubled, overtaken>>
  BY <1>1 DEF CreateBlob, Serving, On, meta, history
<1>3. o \in OpRecs
  BY <1>1, ConstantsAssumption DEF OpRecs, NoBlob, BlobRecs, Statuses, Sizes
<1>4. op'[t] = o /\ \A s \in Threads : s # t => op'[s] = op[s]
  BY <1>2 DEF TypeOK
<1>6. Grows
  BY <1>2 DEF Grows
<1>7. TypeOK'
  BY <1>2, <1>3 DEF TypeOK
<1>8. OpsOK'
  BY <1>1, <1>2, <1>4, OpFacts, ConstantsAssumption DEF OpsOK, On, Sizes
<1>9. SizesOK'
  BY <1>1, <1>2, <1>4 DEF SizesOK, Doing, On
<1>10. RoutesOK'
  BY <1>1, <1>2, <1>4 DEF RoutesOK, Clean, Usable, UserExist, BlobValid, Doing, On
<1>11. StatusOK'
  BY <1>1, <1>2, <1>4 DEF StatusOK, Clean, Recovered, Erasing, Doing, On, UserExist
<1>12. UsersOK'
  BY <1>1, <1>2, <1>4 DEF UsersOK, UsersInv, Clean, Doing, On, Working
<1> QED
  BY <1>2, <1>6, <1>7, <1>8, <1>9, <1>10, <1>11, <1>12, RecordsOKFrame, PoolsOKFrame, GcOKFrame,
     RoutedWithinFrame, KeptOKFrame, RoutersHaveBlobFrame, WalkOKFrame, LeakOKFrame

(* ResizeBlob reads the old size.                                          *)
LEMMA ResizeBlobInv ==
  ASSUME Inv, NEW t \in Threads, NEW u \in Users, NEW b \in Blobs,
         NEW n \in Sizes, ResizeBlob(t, u, b, n)
  PROVE  Inv'
<1> USE DEF Inv
<1>0. PICK m \in 0..MaxSize : m = blob[b].size
  BY DEF TypeOK, BlobRecs
<1>1. PICK o : o = [pc |-> "set", user |-> u, pool |-> blob[b].pool, blob |-> b,
                    from |-> m + 1, to |-> n, value |-> NoBlob]
  OBVIOUS
<1>2. /\ op[t] = Idle /\ blob[b].status = "created" /\ blob[b].user = u /\ n > m
      /\ op' = [op EXCEPT ![t] = o]
      /\ UNCHANGED <<user, userKV, pool, poolKV, blob, blobKV, routers, cache, filling,
                     known, held, gc, acked, troubled, overtaken>>
  BY <1>0, <1>1 DEF ResizeBlob, BlobValid, meta, history
<1>3. o \in OpRecs
  <2>1. blob[b].pool \in Pools
    BY <1>2 DEF RecordsOK
  <2> QED
    BY <1>0, <1>1, <2>1, ConstantsAssumption DEF OpRecs, NoBlob, BlobRecs, Statuses, Sizes
<1>4. op'[t] = o /\ \A s \in Threads : s # t => op'[s] = op[s]
  BY <1>2 DEF TypeOK
<1>6. Grows
  BY <1>2 DEF Grows
<1>7. TypeOK'
  BY <1>2, <1>3 DEF TypeOK
<1>8. OpsOK'
  BY <1>0, <1>1, <1>2, <1>4, OpFacts, ConstantsAssumption DEF OpsOK, On, Sizes, NoBlob, InMap
<1>9. SizesOK'
  BY <1>0, <1>1, <1>2, <1>4 DEF SizesOK, Doing, On
<1>10. RoutesOK'
  BY <1>1, <1>2, <1>4 DEF RoutesOK, Clean, Usable, UserExist, BlobValid, Doing, On
<1>11. StatusOK'
  BY <1>1, <1>2, <1>4 DEF StatusOK, Clean, Recovered, Erasing, Doing, On, UserExist
<1>12. UsersOK'
  BY <1>1, <1>2, <1>4 DEF UsersOK, UsersInv, Clean, Doing, On, Working
<1> QED
  BY <1>2, <1>6, <1>7, <1>8, <1>9, <1>10, <1>11, <1>12, RecordsOKFrame, PoolsOKFrame, GcOKFrame,
     RoutedWithinFrame, KeptOKFrame, RoutersHaveBlobFrame, WalkOKFrame, LeakOKFrame

(* add_pool makes the blob known to the deletion of its user.              *)
LEMMA AddPoolInv ==
  ASSUME Inv, NEW t \in Threads, AddPool(t)
  PROVE  Inv'
<1> USE DEF Inv
<1>0. PICK o : o = op[t]
  OBVIOUS
<1>1. o \in OpRecs /\ o.pc = "pool"
  BY <1>0, Busy, IdlePC DEF AddPool
<1>2. /\ user' = [user EXCEPT ![o.user].pools = IF UserExist(o.user) THEN @ \cup {o.pool} ELSE @]
      /\ op' = [op EXCEPT ![t].pc = "routers"]
      /\ overtaken' = IF Usable(o.blob) THEN overtaken ELSE overtaken \cup {o.blob}
      /\ UNCHANGED <<userKV, pool, poolKV, blob, blobKV, routers, cache, filling,
                     known, held, gc, acked, troubled>>
  BY <1>0 DEF AddPool, Overtake
<1>3. /\ op'[t] = [o EXCEPT !.pc = "routers"] /\ op'[t] \in OpRecs
      /\ \A s \in Threads : s # t => op'[s] = op[s]
  <2>1. op'[t] = [o EXCEPT !.pc = "routers"] /\ \A s \in Threads : s # t => op'[s] = op[s]
    BY <1>0, <1>2 DEF TypeOK
  <2> QED
    BY <2>1, <1>1 DEF OpRecs
<1>4. /\ op'[t].pc = "routers" /\ op'[t].blob = o.blob /\ op'[t].from = o.from
      /\ op'[t].to = o.to /\ op'[t] # Idle
  BY <1>1, <1>3, OpFacts DEF OpRecs
<1>5. /\ \A v \in Users : user'[v].status = user[v].status /\ user[v].pools \subseteq user'[v].pools
      /\ UserExist(o.user) => o.pool \in user'[o.user].pools
      /\ user' \in [Users -> [status : Statuses, pools : SUBSET Pools]]
  BY <1>1, <1>2, OpFacts DEF TypeOK
<1>6. Grows
  BY <1>2 DEF Grows
<1>7. TypeOK'
  <2>1. op' \in [Threads -> {Idle} \cup OpRecs]
    BY <1>2, <1>3 DEF TypeOK
  <2>2. overtaken' \subseteq Blobs
    BY <1>1, <1>2, OpFacts DEF TypeOK
  <2> QED
    BY <1>2, <1>5, <2>1, <2>2 DEF TypeOK
<1>8. OpsOK'
  BY <1>0, <1>1, <1>2, <1>3, <1>4, OpFacts DEF OpsOK, On
<1>9. GcOK'
  BY <1>2, <1>5 DEF GcOK, Usable, UserExist, BlobValid, Working, RecordsOK, TypeOK
<1>10. SizesOK'
  BY <1>0, <1>1, <1>2, <1>3, <1>4, OpFacts DEF SizesOK, Doing, On
<1>11. RoutesOK'
  BY <1>0, <1>1, <1>2, <1>3, <1>4, <1>5, OpFacts
     DEF RoutesOK, RecordsOK, Clean, Usable, UserExist, BlobValid, Doing, On
<1>12. StatusOK'
  BY <1>0, <1>1, <1>2, <1>3, <1>4, <1>5, OpFacts
     DEF StatusOK, RecordsOK, Clean, Recovered, Erasing, Doing, On, UserExist, InMap
<1>13. UsersOK'
  <2> SUFFICES ASSUME UsersInv, NEW b \in Blobs, Clean(b)', InMap(blob[b])
               PROVE  \/ \E s \in Threads : Doing(s, b, {"pool"})'
                      \/ /\ blob[b].pool \in user'[blob[b].user].pools
                         /\ user'[blob[b].user].status # "gone"
                         /\ gc.phase = "users" /\ gc.pc \notin {"idle", "list"} /\ gc.success
                              /\ gc.item = blob[b].user =>
                              \/ blob[b].pool \in gc.pools \/ b \in gc.blobs
                              \/ (Working /\ gc.blob = b)
    BY <1>2 DEF UsersOK, UsersInv, Working
  <2>1. blob[b].user \in Users /\ Clean(b)
    BY <1>2 DEF RecordsOK, InMap, Clean
  <2>2. CASE b = o.blob
    <3>1. Usable(b)
      BY <2>2, <1>2 DEF Clean
    <3>2. o.user = blob[b].user /\ o.pool = blob[b].pool
      BY <2>2, <1>0, <1>1, OpFacts DEF OpsOK
    <3> QED
      BY <3>1, <3>2, <2>1, <1>5 DEF GcOK, Usable, UserExist
  <2>3. CASE b # o.blob
    BY <2>1, <2>3, <1>0, <1>3, <1>5 DEF UsersInv, Doing, On
  <2> QED
    BY <2>2, <2>3
<1> QED
  BY <1>2, <1>6, <1>7, <1>8, <1>9, <1>10, <1>11, <1>12, <1>13, RecordsOKFrame, PoolsOKFrame,
     RoutedWithinFrame, KeptOKFrame, RoutersHaveBlobFrame, WalkOKFrame, LeakOKFrame

(* A failed MultiPut leaves a troubled blob.                               *)
LEMMA PutRoutersFailsInv ==
  ASSUME Inv, NEW t \in Threads, PutRoutersFails(t)
  PROVE  Inv'
<1> USE DEF Inv
<1>0. PICK o : o = op[t]
  OBVIOUS
<1>1. o \in OpRecs /\ o.pc = "routers"
  BY <1>0, Busy, IdlePC DEF PutRoutersFails
<1>2. /\ op' = [op EXCEPT ![t] = Idle]
      /\ troubled' = troubled \cup {o.blob}
      /\ UNCHANGED <<user, userKV, pool, poolKV, blob, blobKV, routers, cache, filling,
                     known, held, gc, acked, overtaken>>
  BY <1>0 DEF PutRoutersFails, Reply, meta
<1>3. op'[t] = Idle /\ \A s \in Threads : s # t => op'[s] = op[s]
  BY <1>2 DEF TypeOK
<1>6. Grows
  BY <1>2 DEF Grows
<1>7. TypeOK'
  BY <1>1, <1>2, OpFacts DEF TypeOK
<1>8. OpsOK'
  BY <1>2, <1>3 DEF OpsOK, On
<1>10. SizesOK'
  BY <1>0, <1>1, <1>2, <1>3 DEF SizesOK, Doing, On
<1>11. RoutesOK'
  BY <1>0, <1>1, <1>2, <1>3 DEF RoutesOK, Clean, Usable, UserExist, BlobValid, Doing, On
<1>12. StatusOK'
  BY <1>0, <1>1, <1>2, <1>3 DEF StatusOK, Clean, Recovered, Erasing, Doing, On, UserExist
<1>13. UsersOK'
  BY <1>0, <1>1, <1>2, <1>3 DEF UsersOK, UsersInv, Clean, Doing, On, Working
<1> QED
  BY <1>2, <1>6, <1>7, <1>8, <1>10, <1>11, <1>12, <1>13, RecordsOKFrame, PoolsOKFrame, GcOKFrame,
     RoutedWithinFrame, KeptOKFrame, RoutersHaveBlobFrame, WalkOKFrame, LeakOKFrame

(* create_blob stores the blob before anybody can resize or delete it.     *)
LEMMA PersistBlobInv ==
  ASSUME Inv, NEW t \in Threads, PersistBlob(t)
  PROVE  Inv'
<1> USE DEF Inv
<1>0. PICK o, b : o = op[t] /\ b = o.blob
  OBVIOUS
<1>1. o \in OpRecs /\ o.pc = "create" /\ b \in Blobs /\ o.user \in Users /\ o.pool \in Pools
  BY <1>0, Busy, IdlePC, OpFacts DEF PersistBlob
<1>2. /\ blob[b] = NoBlob /\ blobKV[b] = NoBlob /\ o.from = 1 /\ pool[o.pool] # "gone"
      /\ \A s \in Threads : On(s, b) => s = t
      /\ o.to \in 1 .. MaxSize
  BY <1>0, <1>1, OpFacts DEF OpsOK, RecordsOK, NoBlob, Sizes
<1>3. UNCHANGED <<user, userKV, pool, poolKV, routers, cache, filling, known, held, gc, acked>>
  BY DEF PersistBlob, history
<1>4. CASE op' = [op EXCEPT ![t] = Idle] /\ UNCHANGED <<blob, blobKV, history>>
  <2>1. op'[t] = Idle /\ \A s \in Threads : s # t => op'[s] = op[s]
    BY <1>4 DEF TypeOK
  <2>2. Grows /\ UNCHANGED <<blob, blobKV, troubled, overtaken>>
    BY <1>4 DEF Grows, history
  <2>3. TypeOK'
    BY <1>3, <1>4, <2>2 DEF TypeOK
  <2>4. OpsOK'
    BY <2>1, <2>2, <1>3 DEF OpsOK, On
  <2>5. SizesOK'
    BY <1>0, <1>1, <1>3, <2>1, <2>2 DEF SizesOK, Doing, On
  <2>6. RoutesOK'
    BY <1>0, <1>1, <1>3, <2>1, <2>2 DEF RoutesOK, Clean, Usable, UserExist, BlobValid, Doing, On
  <2>7. StatusOK'
    BY <1>0, <1>1, <1>3, <2>1, <2>2 DEF StatusOK, Clean, Recovered, Erasing, Doing, On, UserExist
  <2>8. UsersOK'
    BY <1>0, <1>1, <1>3, <2>1, <2>2 DEF UsersOK, UsersInv, Clean, Doing, On, Working
  <2> QED
    BY <1>3, <2>2, <2>3, <2>4, <2>5, <2>6, <2>7, <2>8, RecordsOKFrame, PoolsOKFrame, GcOKFrame,
       RoutedWithinFrame, KeptOKFrame, RoutersHaveBlobFrame, WalkOKFrame, LeakOKFrame
<1>5. CASE ~ (op' = [op EXCEPT ![t] = Idle] /\ UNCHANGED <<blob, blobKV, history>>)
  <2>0. PICK x : x = [status |-> "created", user |-> o.user, pool |-> o.pool, size |-> o.to]
    OBVIOUS
  <2>1. /\ blob' = [blob EXCEPT ![b] = x] /\ blobKV' = [blobKV EXCEPT ![b] = x]
        /\ overtaken' = IF UserExist(o.user) /\ pool[o.pool] = "created"
                        THEN overtaken ELSE overtaken \cup {b}
        /\ \/ op' = [op EXCEPT ![t].pc = "pool"] /\ troubled' = troubled
           \/ op' = [op EXCEPT ![t] = Idle] /\ troubled' = troubled \cup {b}
    BY <1>0, <1>5, <2>0 DEF PersistBlob, Reply, Overtake
  <2>2. x \in BlobRecs /\ x.status = "created" /\ x.user = o.user /\ x.pool = o.pool
        /\ x.size = o.to
    BY <2>0, <1>1, <1>2, ConstantsAssumption DEF BlobRecs, Statuses
  <2>3. /\ blob'[b] = x /\ blobKV'[b] = x
        /\ \A c \in Blobs : c # b => blob'[c] = blob[c] /\ blobKV'[c] = blobKV[c]
    BY <2>1, <1>1 DEF TypeOK
  <2>4. /\ \A s \in Threads : s # t => op'[s] = op[s]
        /\ \/ /\ op'[t] # Idle /\ op'[t].pc = "pool" /\ op'[t].blob = b /\ op'[t].from = 1
              /\ op'[t].to = o.to /\ op'[t].user = o.user /\ op'[t].pool = o.pool
              /\ op'[t] \in OpRecs /\ troubled' = troubled
           \/ op'[t] = Idle /\ troubled' = troubled \cup {b}
    <3>1. CASE op' = [op EXCEPT ![t].pc = "pool"] /\ troubled' = troubled
      <4>1. op'[t] = [o EXCEPT !.pc = "pool"] /\ \A s \in Threads : s # t => op'[s] = op[s]
        BY <3>1, <1>0 DEF TypeOK
      <4>2. op'[t] \in OpRecs /\ op'[t].pc = "pool" /\ op'[t].blob = b /\ op'[t].from = 1
            /\ op'[t].to = o.to /\ op'[t].user = o.user /\ op'[t].pool = o.pool
        BY <4>1, <1>0, <1>1, <1>2 DEF OpRecs
      <4> QED
        BY <3>1, <4>1, <4>2, OpFacts
    <3>2. CASE op' = [op EXCEPT ![t] = Idle] /\ troubled' = troubled \cup {b}
      BY <3>2 DEF TypeOK
    <3> QED
      BY <2>1, <3>1, <3>2
  <2>5. Grows
    BY <2>1 DEF Grows
  <2>6. TypeOK'
    <3>1. op' \in [Threads -> {Idle} \cup OpRecs]
      BY <2>1, <2>4 DEF TypeOK
    <3>2. overtaken' \subseteq Blobs /\ troubled' \subseteq Blobs
      BY <1>1, <2>1 DEF TypeOK
    <3>3. blob' \in [Blobs -> BlobRecs] /\ blobKV' \in [Blobs -> BlobRecs]
      BY <2>1, <2>2 DEF TypeOK
    <3> QED
      BY <1>3, <3>1, <3>2, <3>3 DEF TypeOK
  <2>7. OpsOK'
    BY <1>0, <1>1, <1>2, <1>3, <2>2, <2>3, <2>4, OpFacts, Busy DEF OpsOK, On
  <2>8. RecordsOK'
    BY <1>1, <2>2, <2>3 DEF RecordsOK
  <2>9. PoolsOK'
    BY <1>2, <1>3, <2>2, <2>3 DEF PoolsOK
  <2>10. GcOK'
    <3>1. Working => gc.blob \in Blobs /\ gc.blob # b /\ InMap(blob'[gc.blob])
      BY <1>2, <2>3 DEF GcOK, InMap, NoBlob
    <3>2. \A c \in Blobs : blob[c].status # "none" => blob'[c] = blob[c]
      BY <1>2, <2>3 DEF NoBlob
    <3> QED
      BY <1>3, <3>1, <3>2, GcStays
  <2>11. SizesOK'
    <3>1. \A c \in Blobs, s \in Threads : c # b /\ On(s, c)' => s # t /\ On(s, c) /\ op'[s] = op[s]
      BY <1>0, <2>4 DEF On
    <3>2. \A s \in Threads : On(s, b)' => s = t /\ op'[s].pc = "pool" /\ op'[s].to = o.to
      BY <1>0, <1>2, <2>4 DEF On
    <3>3. acked[b] <= o.to \/ b \in overtaken
      BY <1>1, <1>2, <1>0, BlobFacts DEF SizesOK, Doing, On, NoBlob
    <3>4. \A c \in Blobs : c # b => (\A s \in Threads : On(s, c) => On(s, c)' /\ op'[s] = op[s])
      BY <1>0, <2>4 DEF On
    <3> QED
      BY <1>1, <1>2, <1>3, <2>2, <2>3, <2>5, <3>1, <3>2, <3>3, <3>4 DEF SizesOK, Doing, Grows
  <2>12. RoutedWithin'
    BY <1>2, <1>3, <2>2, <2>3, <2>5, ExtentFacts DEF RoutedWithin, NoBlob, Grows, TypeOK
  <2>13. RoutesOK'
    BY <1>0, <1>1, <1>2, <1>3, <2>2, <2>3, <2>4, <2>5
       DEF RoutesOK, Clean, Usable, UserExist, BlobValid, Doing, On, Grows
  <2>14. StatusOK'
    BY <1>0, <1>1, <1>2, <1>3, <2>2, <2>3, <2>1, <2>4, <2>5
       DEF StatusOK, GcOK, PoolsOK, Clean, Recovered, Erasing, Working, Doing, On, UserExist,
          InMap, Grows, NoBlob
  <2>15. KeptOK'
    BY <1>2, <1>3, <2>2, <2>3, <2>5 DEF KeptOK, Erasing, InMap, NoBlob, Grows
  <2>16. RoutersHaveBlob'
    BY <1>2, <1>3, <2>2, <2>3, <2>5, ExtentFacts DEF RoutersHaveBlob, InMap, NoBlob, Grows, TypeOK
  <2>17. WalkOK'
    BY <1>2, <1>3, <2>3, <2>5 DEF WalkOK, GcOK, Working, InMap, NoBlob, Grows
  <2>18. LeakOK'
    BY <1>2, <1>3, <2>2, <2>3, <2>5, ExtentFacts DEF LeakOK, Clean, Working, Grows, NoBlob, TypeOK
  <2>19. UsersOK'
    BY <1>0, <1>1, <1>2, <1>3, <2>2, <2>3, <2>4, <2>5
       DEF UsersOK, UsersInv, Clean, Doing, On, Working, Grows, InMap
  <2> QED
    BY <2>6, <2>7, <2>8, <2>9, <2>10, <2>11, <2>12, <2>13, <2>14, <2>15, <2>16, <2>17, <2>18, <2>19
<1> QED
  BY <1>4, <1>5

(* The routers of a MultiPut are within the stored size, and the router of *)
(* every extent before the next batch is there.                            *)
LEMMA PutRoutersInv ==
  ASSUME Inv, NEW t \in Threads, PutRouters(t)
  PROVE  Inv'
<1> USE DEF Inv
<1>0. PICK o, b : o = op[t] /\ b = o.blob
  OBVIOUS
<1>1. o \in OpRecs /\ o.pc = "routers" /\ b \in Blobs /\ o.from \in Nat /\ o.from >= 1
      /\ o.to \in Sizes /\ o.to \in Nat /\ BatchSize \in Nat /\ o.from <= o.to /\ o # Idle
      /\ blob[b].status # "none"
  BY <1>0, Busy, IdlePC, OpFacts, ConstantsAssumption DEF PutRouters, OpsOK
<1>2. /\ routers' = routers \cup ({b} \X Batch(o))
      /\ overtaken' = IF Usable(b) THEN overtaken ELSE overtaken \cup {b}
      /\ UNCHANGED <<user, userKV, pool, poolKV, blob, blobKV, cache, filling, known, held, gc,
                     troubled>>
  BY <1>0 DEF PutRouters, Overtake, meta
<1>3. \A s \in Threads : s # t => op'[s] = op[s]
  BY DEF PutRouters, Reply, TypeOK
<1>4. \/ /\ o.from + BatchSize > o.to /\ op'[t] = Idle
         /\ acked' = [acked EXCEPT ![b] = IF @ > o.to THEN @ ELSE o.to]
      \/ /\ o.from + BatchSize <= o.to
         /\ op'[t] = [o EXCEPT !.from = o.from + BatchSize] /\ acked' = acked
  BY <1>0, <1>1 DEF PutRouters, Reply, TypeOK
<1>5. \/ /\ o.from + BatchSize > o.to /\ op'[t] = Idle
      \/ /\ o.from + BatchSize <= o.to
         /\ op'[t] \in OpRecs /\ op'[t] # Idle /\ op'[t].pc = "routers" /\ op'[t].blob = b
         /\ op'[t].from = o.from + BatchSize /\ op'[t].to = o.to
  <2>1. ASSUME o.from + BatchSize <= o.to, op'[t] = [o EXCEPT !.from = o.from + BatchSize]
        PROVE  op'[t] \in OpRecs /\ op'[t].pc = "routers" /\ op'[t].blob = b
               /\ op'[t].from = o.from + BatchSize /\ op'[t].to = o.to
    BY <2>1, <1>0, <1>1 DEF OpRecs
  <2> QED
    BY <1>4, <2>1, OpFacts
<1>6. Grows
  BY <1>2 DEF Grows
<1>7. /\ \A c \in Blobs : acked'[c] \in 0..MaxSize
      /\ \A c \in Blobs : acked'[c] = acked[c] \/ (c = b /\ acked'[c] = o.to)
      /\ acked' \in [Blobs -> 0..MaxSize]
  <2>1. o.to \in 0..MaxSize /\ acked \in [Blobs -> 0..MaxSize]
    BY <1>1, ConstantsAssumption DEF TypeOK, Sizes
  <2>2. acked' = acked \/ acked' = [acked EXCEPT ![b] = acked[b]] \/ acked' = [acked EXCEPT ![b] = o.to]
    BY <1>4, <1>1, <2>1
  <2>3. \A c \in Blobs : acked'[c] = acked[c] \/ (c = b /\ acked'[c] = o.to)
    BY <1>1, <2>1, <2>2
  <2>4. acked' \in [Blobs -> 0..MaxSize]
    BY <1>1, <2>1, <2>2
  <2> QED
    BY <2>3, <2>4
<1>8. TypeOK'
  <2>1. op' \in [Threads -> {Idle} \cup OpRecs]
    <3>1. op' = [op EXCEPT ![t] = op'[t]]
      BY DEF PutRouters, Reply, TypeOK
    <3> QED
      BY <3>1, <1>5 DEF TypeOK
  <2>2. overtaken' \subseteq Blobs
    BY <1>1, <1>2 DEF TypeOK
  <2>3. routers' \subseteq Extents
    BY <1>1, <1>2 DEF TypeOK, Batch, Extents
  <2> QED
    BY <1>2, <1>7, <2>1, <2>2, <2>3 DEF TypeOK
<1>9. OpsOK'
  BY <1>0, <1>1, <1>2, <1>3, <1>5 DEF OpsOK, On
<1>10. SizesOK'
  BY <1>0, <1>1, <1>2, <1>3, <1>5, <1>6, <1>7 DEF SizesOK, Doing, On, Grows
<1>11. RoutedWithin'
  <2>1. \A e \in routers' : e \in routers \/ (e[1] = b /\ e[2] <= o.to /\ e[2] \in Nat)
    BY <1>1, <1>2, ConstantsAssumption DEF Batch, Sizes
  <2>2. b \in overtaken \/ o.to <= blobKV[b].size
    BY <1>0, <1>1 DEF SizesOK, Doing, On
  <2>3. blobKV[b].size \in Nat
    BY <1>1, BlobFacts
  <2> QED
    BY <1>1, <1>2, <1>6, <2>1, <2>2, <2>3 DEF RoutedWithin, Grows
<1>12. RoutesOK'
  <2> SUFFICES ASSUME NEW c \in Blobs, Clean(c)', Usable(c)', NEW i \in 1..blobKV[c].size
               PROVE  \/ <<c, i>> \in routers'
                      \/ \E s \in Threads : /\ Doing(s, c, {"pool", "routers"})'
                                            /\ op'[s].from <= i /\ i <= op'[s].to
    BY <1>2 DEF RoutesOK
  <2>1. /\ Clean(c) /\ Usable(c) /\ i \in Nat /\ i >= 1 /\ i <= MaxSize
    BY <1>2, <1>6, BlobFacts, ConstantsAssumption
       DEF Clean, Grows, Usable, UserExist, BlobValid, TypeOK, BlobRecs
  <2>2. CASE <<c, i>> \in routers
    BY <2>2, <1>2
  <2>3. ASSUME NEW s \in Threads, s # t, Doing(s, c, {"pool", "routers"}),
               op[s].from <= i, i <= op[s].to
        PROVE  Doing(s, c, {"pool", "routers"})' /\ op'[s].from <= i /\ i <= op'[s].to
    BY <2>3, <1>3 DEF Doing, On
  <2>4. CASE c = b /\ o.from <= i /\ i <= o.to
    <3>1. CASE i < o.from + BatchSize
      BY <3>1, <2>1, <2>4, <1>1, <1>2, ConstantsAssumption DEF Batch, Sizes
    <3>2. CASE i >= o.from + BatchSize
      BY <3>2, <2>4, <1>1, <1>5 DEF Doing, On
    <3> QED
      BY <3>1, <3>2, <2>1, <1>1
  <2> QED
    BY <2>1, <2>2, <2>3, <2>4, <1>0 DEF RoutesOK, Doing, On
<1>13. StatusOK'
  <2>1. \A c \in Blobs : Clean(c)' => Clean(c)
    BY <1>6 DEF Clean, Grows
  <2>2. ASSUME NEW c \in Blobs, Clean(c)', Erasing(c)
        PROVE  c # b
    BY <1>2, <2>2 DEF GcOK, Working, Erasing, Clean
  <2> QED
    BY <1>0, <1>2, <1>3, <2>1, <2>2 DEF StatusOK, Recovered, Erasing, Doing, On, UserExist
<1>14. RoutersHaveBlob'
  <2>1. \A e \in routers' : e \in routers \/ e[1] = b
    BY <1>2
  <2>2. b \in overtaken' \/ InMap(blobKV[b])
    BY <1>1, <1>2, <1>6 DEF KeptOK, GcOK, Usable, BlobValid, InMap, Erasing, Working, Grows
  <2> QED
    BY <1>2, <1>6, <2>1, <2>2 DEF RoutersHaveBlob, Grows
<1>15. WalkOK'
  <2>1. \A e \in routers' : e \in routers \/ e[1] = b
    BY <1>2
  <2>2. Working => b \in overtaken' \/ gc.blob # b
    BY <1>2 DEF GcOK
  <2> QED
    BY <1>2, <1>6, <2>1, <2>2 DEF WalkOK, Working, Grows
<1>16. UsersOK'
  BY <1>0, <1>1, <1>2, <1>3, <1>6 DEF UsersOK, UsersInv, Clean, Doing, On, Working, Grows
<1> QED
  BY <1>2, <1>6, <1>8, <1>9, <1>10, <1>11, <1>12, <1>13, <1>14, <1>15, <1>16, RecordsOKFrame,
     PoolsOKFrame, GcOKFrame, KeptOKFrame, LeakOKFrame

(* A resize that nobody overtakes is the only one at its Put.              *)
LEMMA SetSizeInv ==
  ASSUME Inv, NEW t \in Threads, SetSize(t)
  PROVE  Inv'
<1> USE DEF Inv
<1>0. PICK o, b : o = op[t] /\ b = o.blob
  OBVIOUS
<1>1. o \in OpRecs /\ o.pc = "set" /\ b \in Blobs /\ o.from \in Nat /\ o.from >= 1
      /\ o.to \in 0..MaxSize /\ o.from <= o.to /\ o # Idle /\ InMap(blob[b])
      /\ o.pool = blob[b].pool /\ o.user = blob[b].user
  BY <1>0, Busy, IdlePC, OpFacts, ConstantsAssumption DEF SetSize, OpsOK, Sizes
<1>2. PICK x : x = [blob[b] EXCEPT !.size = o.to]
  OBVIOUS
<1>3. /\ x \in BlobRecs /\ x.size = o.to /\ x.status = blob[b].status /\ x.user = blob[b].user
      /\ x.pool = blob[b].pool
  BY <1>1, <1>2 DEF TypeOK, BlobRecs
<1>4. /\ blob' = [blob EXCEPT ![b] = x]
      /\ overtaken' = IF Usable(b) /\ Resizing(b) = {t} THEN overtaken ELSE overtaken \cup {b}
      /\ UNCHANGED <<user, userKV, pool, poolKV, blobKV, routers, cache, filling, known, held,
                     gc, acked, troubled>>
  BY <1>0, <1>1, <1>2 DEF SetSize, Overtake, TypeOK
<1>5. blob'[b] = x /\ \A c \in Blobs : c # b => blob'[c] = blob[c]
  BY <1>1, <1>4 DEF TypeOK
<1>6. /\ op' = [op EXCEPT ![t] = op'[t]]
      /\ op'[t] = [o EXCEPT !.pc = "put", !.value = x]
      /\ \A s \in Threads : s # t => op'[s] = op[s]
  <2>1. op' = [op EXCEPT ![t] = [o EXCEPT !.pc = "put", !.value = x]]
    BY <1>0, <1>1, <1>5 DEF SetSize, TypeOK
  <2> QED
    BY <2>1 DEF TypeOK
<1>7. /\ op'[t] \in OpRecs /\ op'[t] # Idle /\ op'[t].pc = "put" /\ op'[t].blob = b
      /\ op'[t].from = o.from /\ op'[t].to = o.to /\ op'[t].value = x
      /\ op'[t].user = o.user /\ op'[t].pool = o.pool
      /\ \A s \in Threads : s # t => op'[s] = op[s]
  <2>1. op'[t] \in OpRecs
    BY <1>1, <1>3, <1>6 DEF OpRecs
  <2> QED
    BY <2>1, <1>0, <1>1, <1>6, OpFacts DEF OpRecs
<1>8. /\ \A c \in Blobs : /\ blob'[c].status = blob[c].status /\ blob'[c].user = blob[c].user
                          /\ blob'[c].pool = blob[c].pool /\ (c # b => blob'[c] = blob[c])
      /\ \A c \in Blobs : InMap(blob'[c]) <=> InMap(blob[c])
  BY <1>3, <1>5 DEF InMap
<1>9. Grows
  BY <1>4 DEF Grows
<1>10. TypeOK'
  <2>1. op' \in [Threads -> {Idle} \cup OpRecs]
    BY <1>6, <1>7 DEF TypeOK
  <2>2. overtaken' \subseteq Blobs
    BY <1>1, <1>4 DEF TypeOK
  <2>3. blob' \in [Blobs -> BlobRecs]
    BY <1>3, <1>4 DEF TypeOK
  <2> QED
    BY <1>4, <2>1, <2>2, <2>3 DEF TypeOK
<1>11. OpsOK'
  BY <1>0, <1>1, <1>3, <1>4, <1>5, <1>7, <1>8, OpFacts, Busy DEF OpsOK, On, InMap, NoBlob
<1>12. RecordsOK'
  BY <1>1, <1>3, <1>4, <1>5 DEF RecordsOK, InMap, NoBlob
<1>13. PoolsOK'
  BY <1>4, <1>8 DEF PoolsOK
<1>14. GcOK'
  BY <1>4, <1>8, GcStays DEF GcOK
<1>15. SizesOK'
  <2> SUFFICES ASSUME NEW c \in Blobs \ overtaken'
               PROVE  /\ \A s \in Threads :
                           /\ Doing(s, c, {"set"})' => op'[s].from = blob'[c].size + 1
                           /\ Doing(s, c, {"put"})' => /\ op'[s].to = blob'[c].size
                                                       /\ op'[s].from = blobKV[c].size + 1
                                                       /\ op'[s].value = blob'[c]
                           /\ Doing(s, c, {"pool", "routers"})' => op'[s].to <= blobKV[c].size
                      /\ \A r, s \in Threads : Doing(r, c, {"put"})' /\ Doing(s, c, {"put"})' => r = s
                      /\ (\A s \in Threads : ~ Doing(s, c, {"put"})') => blobKV[c].size = blob'[c].size
                      /\ acked[c] <= blobKV[c].size
    BY <1>4 DEF SizesOK
  <2>1. c \in Blobs \ overtaken
    BY <1>9 DEF Grows
  <2>2. CASE c = b
    <3>1. Resizing(b) = {t}
      BY <2>2, <1>4
    <3>2. \A s \in Threads : s # t => ~ Doing(s, b, {"set", "put"})
      BY <3>1, <1>0, OpFacts, Busy DEF Resizing, Serving, Doing, On
    <3>3. \A s \in Threads : ~ Doing(s, b, {"put"})
      BY <3>2, <1>0, <1>1 DEF Doing, On
    <3>4. blobKV[b].size = blob[b].size /\ o.from = blob[b].size + 1
      BY <2>1, <2>2, <3>3, <1>0, <1>1 DEF SizesOK, Doing, On
    <3> QED
      BY <2>1, <2>2, <3>2, <3>4, <1>0, <1>3, <1>5, <1>7 DEF SizesOK, Doing, On
  <2>3. CASE c # b
    BY <2>1, <2>3, <1>0, <1>1, <1>5, <1>7 DEF SizesOK, Doing, On
  <2> QED
    BY <2>2, <2>3
<1>16. RoutesOK'
  BY <1>0, <1>1, <1>4, <1>7, <1>8, <1>9
     DEF RoutesOK, Clean, Usable, UserExist, BlobValid, Doing, On, Grows
<1>17. StatusOK'
  BY <1>0, <1>1, <1>4, <1>7, <1>8, <1>9
     DEF StatusOK, Clean, Recovered, Erasing, Doing, On, UserExist, Grows
<1>18. KeptOK'
  BY <1>4, <1>8, <1>9 DEF KeptOK, Erasing, Grows
<1>19. WalkOK'
  BY <1>4, <1>8, <1>9 DEF WalkOK, GcOK, Working, Grows
<1>20. LeakOK'
  BY <1>4, <1>8, <1>9, ExtentFacts DEF LeakOK, Clean, Working, Grows, TypeOK
<1>21. UsersOK'
  BY <1>0, <1>1, <1>4, <1>7, <1>8, <1>9 DEF UsersOK, UsersInv, Clean, Doing, On, Working, Grows
<1> QED
  BY <1>4, <1>9, <1>10, <1>11, <1>12, <1>13, <1>14, <1>15, <1>16, <1>17, <1>18, <1>19, <1>20, <1>21,
     RoutedWithinFrame, RoutersHaveBlobFrame

(* The roll-back restores what is stored, unless another resize has read   *)
(* the new size.                                                           *)
LEMMA PersistSizeFailsInv ==
  ASSUME Inv, NEW t \in Threads, PersistSizeFails(t)
  PROVE  Inv'
<1> USE DEF Inv
<1>0. PICK o, b : o = op[t] /\ b = o.blob
  OBVIOUS
<1>1. o \in OpRecs /\ o.pc = "put" /\ b \in Blobs /\ o.from \in Nat /\ o.from >= 1
      /\ o.to \in 0..MaxSize /\ o.from <= o.to /\ o # Idle /\ InMap(blob[b])
  BY <1>0, Busy, IdlePC, OpFacts, ConstantsAssumption DEF PersistSizeFails, OpsOK, Sizes
<1>2. PICK x : x = [blob[b] EXCEPT !.size = o.from - 1]
  OBVIOUS
<1>3. /\ x \in BlobRecs /\ x.size = o.from - 1 /\ x.status = blob[b].status
      /\ x.user = blob[b].user /\ x.pool = blob[b].pool
  <2>1. o.from - 1 \in 0..MaxSize
    BY <1>1, ConstantsAssumption
  <2> QED
    BY <1>1, <1>2, <2>1, ZenonT(30) DEF TypeOK, BlobRecs
<1>4. /\ blob' = [blob EXCEPT ![b] = x]
      /\ op' = [op EXCEPT ![t] = Idle]
      /\ overtaken' = IF Resizing(b) = {t} THEN overtaken ELSE overtaken \cup {b}
      /\ UNCHANGED <<user, userKV, pool, poolKV, blobKV, routers, cache, filling, known, held,
                     gc, acked, troubled>>
  BY <1>0, <1>1, <1>2 DEF PersistSizeFails, Overtake, Reply, TypeOK
<1>5. blob'[b] = x /\ \A c \in Blobs : c # b => blob'[c] = blob[c]
  BY <1>1, <1>4 DEF TypeOK
<1>6. op'[t] = Idle /\ \A s \in Threads : s # t => op'[s] = op[s]
  BY <1>4 DEF TypeOK
<1>8. /\ \A c \in Blobs : /\ blob'[c].status = blob[c].status /\ blob'[c].user = blob[c].user
                          /\ blob'[c].pool = blob[c].pool /\ (c # b => blob'[c] = blob[c])
      /\ \A c \in Blobs : InMap(blob'[c]) <=> InMap(blob[c])
  BY <1>3, <1>5 DEF InMap
<1>9. Grows
  BY <1>4 DEF Grows
<1>10. TypeOK'
  <2>1. op' \in [Threads -> {Idle} \cup OpRecs]
    BY <1>4 DEF TypeOK
  <2>2. overtaken' \subseteq Blobs
    BY <1>1, <1>4 DEF TypeOK
  <2>3. blob' \in [Blobs -> BlobRecs]
    BY <1>3, <1>4 DEF TypeOK
  <2> QED
    BY <1>4, <2>1, <2>2, <2>3 DEF TypeOK
<1>11. OpsOK'
  BY <1>0, <1>1, <1>3, <1>4, <1>5, <1>6, <1>8, OpFacts, Busy DEF OpsOK, On, InMap, NoBlob
<1>12. RecordsOK'
  BY <1>1, <1>3, <1>4, <1>5 DEF RecordsOK, InMap, NoBlob
<1>13. PoolsOK'
  BY <1>4, <1>8 DEF PoolsOK
<1>14. GcOK'
  BY <1>4, <1>8, GcStays DEF GcOK
<1>15. SizesOK'
  <2> SUFFICES ASSUME NEW c \in Blobs \ overtaken'
               PROVE  /\ \A s \in Threads :
                           /\ Doing(s, c, {"set"})' => op'[s].from = blob'[c].size + 1
                           /\ Doing(s, c, {"put"})' => /\ op'[s].to = blob'[c].size
                                                       /\ op'[s].from = blobKV[c].size + 1
                                                       /\ op'[s].value = blob'[c]
                           /\ Doing(s, c, {"pool", "routers"})' => op'[s].to <= blobKV[c].size
                      /\ \A r, s \in Threads : Doing(r, c, {"put"})' /\ Doing(s, c, {"put"})' => r = s
                      /\ (\A s \in Threads : ~ Doing(s, c, {"put"})') => blobKV[c].size = blob'[c].size
                      /\ acked[c] <= blobKV[c].size
    BY <1>4 DEF SizesOK
  <2>1. c \in Blobs \ overtaken
    BY <1>9 DEF Grows
  <2>2. CASE c = b
    <3>1. Resizing(b) = {t}
      BY <2>2, <1>4
    <3>2. \A s \in Threads : s # t => ~ Doing(s, b, {"set", "put"})
      BY <3>1, <1>0, OpFacts, Busy DEF Resizing, Serving, Doing, On
    <3>4. blobKV[b].size \in Nat /\ o.from = blobKV[b].size + 1
      BY <2>1, <2>2, <1>0, <1>1, BlobFacts DEF SizesOK, Doing, On
    <3> QED
      BY <2>1, <2>2, <3>2, <3>4, <1>0, <1>3, <1>5, <1>6 DEF SizesOK, Doing, On
  <2>3. CASE c # b
    BY <2>1, <2>3, <1>0, <1>1, <1>5, <1>6 DEF SizesOK, Doing, On
  <2> QED
    BY <2>2, <2>3
<1>16. RoutesOK'
  BY <1>0, <1>1, <1>4, <1>6, <1>8, <1>9
     DEF RoutesOK, Clean, Usable, UserExist, BlobValid, Doing, On, Grows
<1>17. StatusOK'
  BY <1>0, <1>1, <1>4, <1>6, <1>8, <1>9
     DEF StatusOK, Clean, Recovered, Erasing, Doing, On, UserExist, Grows
<1>18. KeptOK'
  BY <1>4, <1>8, <1>9 DEF KeptOK, Erasing, Grows
<1>19. WalkOK'
  BY <1>0, <1>1, <1>3, <1>4, <1>5, <1>8, <1>9, BlobFacts
     DEF WalkOK, GcOK, SizesOK, Doing, On, Working, Grows, TypeOK, GcRecs
<1>20. LeakOK'
  BY <1>4, <1>8, <1>9, ExtentFacts DEF LeakOK, Clean, Working, Grows, TypeOK
<1>21. UsersOK'
  BY <1>0, <1>1, <1>4, <1>6, <1>8, <1>9 DEF UsersOK, UsersInv, Clean, Doing, On, Working, Grows
<1> QED
  BY <1>4, <1>9, <1>10, <1>11, <1>12, <1>13, <1>14, <1>15, <1>16, <1>17, <1>18, <1>19, <1>20, <1>21,
     RoutedWithinFrame, RoutersHaveBlobFrame

(* The stored size grows by what this thread will put routers for.         *)
LEMMA PersistSizeInv ==
  ASSUME Inv, NEW t \in Threads, PersistSize(t)
  PROVE  Inv'
<1> USE DEF Inv
<1>0. PICK o, b, x : o = op[t] /\ b = o.blob /\ x = o.value
  OBVIOUS
<1>1. o \in OpRecs /\ o.pc = "put" /\ b \in Blobs /\ o.from \in Nat /\ o.from >= 1
      /\ o.to \in 0..MaxSize /\ o.from <= o.to /\ o # Idle /\ InMap(blob[b]) /\ x \in BlobRecs
      /\ InMap(x) /\ x.pool = blob[b].pool /\ x.user = blob[b].user
  BY <1>0, Busy, IdlePC, OpFacts, ConstantsAssumption DEF PersistSize, OpsOK, Sizes
<1>2. /\ blobKV' = [blobKV EXCEPT ![b] = x]
      /\ UNCHANGED <<user, userKV, pool, poolKV, blob, routers, cache, filling, known, held,
                     gc, acked, overtaken>>
  BY <1>0 DEF PersistSize
<1>3. \/ op' = [op EXCEPT ![t] = [o EXCEPT !.pc = "routers", !.value = NoBlob]] /\ troubled' = troubled
      \/ op' = [op EXCEPT ![t] = Idle] /\ troubled' = troubled \cup {b}
  <2>1. CASE op' = [op EXCEPT ![t].pc = "routers", ![t].value = NoBlob] /\ troubled' = troubled
    BY <2>1, <1>0, <1>1 DEF TypeOK
  <2> QED
    BY <2>1, <1>0 DEF PersistSize, Reply
<1>4. /\ op' = [op EXCEPT ![t] = op'[t]]
      /\ \/ op'[t] = [o EXCEPT !.pc = "routers", !.value = NoBlob] /\ troubled' = troubled
         \/ op'[t] = Idle /\ troubled' = troubled \cup {b}
  BY <1>3 DEF TypeOK
<1>5. /\ \A s \in Threads : s # t => op'[s] = op[s]
      /\ \/ /\ op'[t] \in OpRecs /\ op'[t] # Idle /\ op'[t].pc = "routers" /\ op'[t].blob = b
            /\ op'[t].from = o.from /\ op'[t].to = o.to /\ troubled' = troubled
         \/ op'[t] = Idle /\ troubled' = troubled \cup {b}
  <2>1. \A s \in Threads : s # t => op'[s] = op[s]
    BY <1>4 DEF TypeOK
  <2>2. ASSUME op'[t] = [o EXCEPT !.pc = "routers", !.value = NoBlob]
        PROVE  /\ op'[t] \in OpRecs /\ op'[t].pc = "routers" /\ op'[t].blob = b
               /\ op'[t].from = o.from /\ op'[t].to = o.to
    BY <2>2, <1>0, <1>1, NoBlobRec DEF OpRecs
  <2> QED
    BY <1>4, <2>1, <2>2, OpFacts
<1>6. blobKV'[b] = x /\ \A c \in Blobs : c # b => blobKV'[c] = blobKV[c]
  BY <1>1, <1>2 DEF TypeOK
<1>7. b \notin overtaken => /\ x = blob[b] /\ o.to = blob[b].size /\ o.from = blobKV[b].size + 1
                            /\ blobKV[b].size < blob[b].size
                            /\ \A s \in Threads : s # t => ~ Doing(s, b, {"put"})
  <2>1. b \notin overtaken => /\ x = blob[b] /\ o.to = blob[b].size /\ o.from = blobKV[b].size + 1
                              /\ \A s \in Threads : s # t => ~ Doing(s, b, {"put"})
    BY <1>0, <1>1 DEF SizesOK, Doing, On
  <2> QED
    BY <2>1, <1>1, BlobFacts
<1>9. Grows
  BY <1>2, <1>5 DEF Grows
<1>10. TypeOK'
  <2>1. op' \in [Threads -> {Idle} \cup OpRecs]
    BY <1>4, <1>5 DEF TypeOK
  <2>2. troubled' \subseteq Blobs
    BY <1>1, <1>5 DEF TypeOK
  <2>3. blobKV' \in [Blobs -> BlobRecs]
    BY <1>1, <1>2 DEF TypeOK
  <2> QED
    BY <1>2, <2>1, <2>2, <2>3 DEF TypeOK
<1>11. OpsOK'
  BY <1>0, <1>1, <1>2, <1>5, OpFacts, Busy DEF OpsOK, On, InMap
<1>12. RecordsOK'
  BY <1>1, <1>2, <1>6 DEF RecordsOK, InMap
<1>15. SizesOK'
  <2> SUFFICES ASSUME NEW c \in Blobs \ overtaken
               PROVE  /\ \A s \in Threads :
                           /\ Doing(s, c, {"set"})' => op'[s].from = blob[c].size + 1
                           /\ Doing(s, c, {"put"})' => /\ op'[s].to = blob[c].size
                                                       /\ op'[s].from = blobKV'[c].size + 1
                                                       /\ op'[s].value = blob[c]
                           /\ Doing(s, c, {"pool", "routers"})' => op'[s].to <= blobKV'[c].size
                      /\ \A r, s \in Threads : Doing(r, c, {"put"})' /\ Doing(s, c, {"put"})' => r = s
                      /\ (\A s \in Threads : ~ Doing(s, c, {"put"})') => blobKV'[c].size = blob[c].size
                      /\ acked[c] <= blobKV'[c].size
    BY <1>2 DEF SizesOK
  <2>1. CASE c = b
    <3>1. \A s \in Threads : ~ Doing(s, b, {"put"})'
      BY <2>1, <1>5, <1>7 DEF Doing, On
    <3>2. \A s \in Threads : Doing(s, b, {"pool", "routers"})' => op'[s].to <= blob[b].size
      <4> SUFFICES ASSUME NEW s \in Threads, Doing(s, b, {"pool", "routers"})'
                   PROVE  op'[s].to <= blob[b].size
        OBVIOUS
      <4>1. CASE s = t
        BY <4>1, <2>1, <1>5, <1>7, <1>1 DEF Doing, On
      <4>2. CASE s # t
        <5>1. Doing(s, b, {"pool", "routers"}) /\ op'[s] = op[s] /\ op[s].to \in Nat
          BY <4>2, <1>5, Busy, OpFacts DEF Doing, On
        <5> QED
          BY <5>1, <2>1, <1>7, <1>1, BlobFacts DEF SizesOK
      <4> QED
        BY <4>1, <4>2
    <3>3. \A s \in Threads : Doing(s, b, {"set"})' => op'[s].from = blob[b].size + 1
      BY <2>1, <1>5 DEF SizesOK, Doing, On
    <3>4. acked[b] <= blob[b].size
      BY <2>1, <1>1, <1>7, BlobFacts DEF SizesOK
    <3> QED
      BY <2>1, <1>6, <1>7, <3>1, <3>2, <3>3, <3>4
  <2>2. CASE c # b
    BY <2>2, <1>0, <1>5, <1>6 DEF SizesOK, Doing, On
  <2> QED
    BY <2>1, <2>2
<1>16. RoutedWithin'
  <2>1. \A c \in Blobs : c \notin overtaken => blobKV[c].size <= blobKV'[c].size
    BY <1>1, <1>6, <1>7, BlobFacts
  <2>2. \A c \in Blobs : blobKV[c].size \in Nat /\ blobKV'[c].size \in Nat
    BY <1>10, BlobFacts DEF TypeOK, BlobRecs
  <2>3. ASSUME NEW e \in routers \cup cache \cup filling \cup known \cup UNION {held[n] : n \in Replicas}
        PROVE  e[1] \in Blobs /\ e[2] \in Nat
    BY <2>3, ExtentFacts DEF TypeOK
  <2> QED
    BY <1>2, <2>1, <2>2, <2>3 DEF RoutedWithin
<1>17. RoutesOK'
  <2> SUFFICES ASSUME NEW c \in Blobs, Clean(c)', Usable(c), NEW i \in 1..blobKV'[c].size
               PROVE  \/ <<c, i>> \in routers
                      \/ \E s \in Threads : /\ Doing(s, c, {"pool", "routers"})'
                                            /\ op'[s].from <= i /\ i <= op'[s].to
    BY <1>2 DEF RoutesOK, Usable, UserExist, BlobValid
  <2>1. Clean(c)
    BY <1>2, <1>9 DEF Clean, Grows
  <2>2. ASSUME i <= blobKV[c].size
        PROVE  \/ <<c, i>> \in routers
               \/ \E s \in Threads : /\ Doing(s, c, {"pool", "routers"})
                                     /\ op[s].from <= i /\ i <= op[s].to
    BY <2>1, <2>2, BlobFacts DEF RoutesOK
  <2>3. ASSUME NEW s \in Threads, Doing(s, c, {"pool", "routers"}), op[s].from <= i, i <= op[s].to
        PROVE  Doing(s, c, {"pool", "routers"})' /\ op'[s].from <= i /\ i <= op'[s].to
    BY <2>3, <1>0, <1>1, <1>5 DEF Doing, On
  <2>4. CASE i > blobKV[c].size
    <3>1. c = b /\ b \notin overtaken /\ b \notin troubled'
      BY <2>4, <1>2, <1>6, BlobFacts DEF Clean
    <3>2. Doing(t, b, {"pool", "routers"})' /\ op'[t].from = o.from /\ op'[t].to = o.to
      BY <3>1, <1>5 DEF Doing, On
    <3>3. i <= o.to /\ o.from <= i
      BY <3>1, <2>4, <1>1, <1>6, <1>7, BlobFacts
    <3> QED
      BY <3>1, <3>2, <3>3
  <2> QED
    BY <2>2, <2>3, <2>4, BlobFacts
<1>18. StatusOK'
  <2> SUFFICES ASSUME NEW c \in Blobs, Clean(c)'
               PROVE  /\ Recovered(c)'.status = blob[c].status \/ Erasing(c)
                      /\ Erasing(c) => blobKV'[c].status = "gone" \/ \E s \in Threads : Doing(s, c, {"routers"})'
                      /\ InMap(blob[c]) =>
                           /\ userKV[blob[c].user].status = "created" => UserExist(blob[c].user)
                           /\ poolKV[blob[c].pool] = "created" => pool[blob[c].pool] = "created"
    BY <1>2 DEF StatusOK, Erasing, UserExist
  <2>1. Clean(c)
    BY <1>9 DEF Clean, Grows
  <2>2. CASE c = b
    <3>1. b \notin overtaken /\ b \notin troubled'
      BY <2>2, <1>2 DEF Clean
    <3>2. Doing(t, b, {"routers"})'
      BY <3>1, <1>5 DEF Doing, On
    <3>3. blobKV'[b] = blob[b] /\ poolKV[blob[b].pool] # "gone"
      BY <3>1, <1>1, <1>6, <1>7 DEF PoolsOK, RecordsOK, InMap
    <3>4. Recovered(b)' = blob[b]
      BY <3>3, <1>2 DEF Recovered
    <3> QED
      BY <2>1, <2>2, <3>2, <3>4 DEF StatusOK
  <2>3. CASE c # b
    <3>1. Recovered(c)' = Recovered(c)
      BY <2>3, <1>2, <1>6 DEF Recovered
    <3>2. \A s \in Threads : Doing(s, c, {"routers"}) => Doing(s, c, {"routers"})'
      BY <2>3, <1>0, <1>5 DEF Doing, On
    <3> QED
      BY <2>1, <2>3, <3>1, <3>2, <1>6 DEF StatusOK
  <2> QED
    BY <2>2, <2>3
<1>19. KeptOK'
  BY <1>1, <1>2, <1>6 DEF KeptOK, Erasing
<1>20. RoutersHaveBlob'
  BY <1>1, <1>2, <1>6, ExtentFacts DEF RoutersHaveBlob, TypeOK
<1>21. WalkOK'
  BY <1>1, <1>2, <1>6, <1>7 DEF WalkOK, GcOK, Working
<1>22. UsersOK'
  BY <1>0, <1>1, <1>2, <1>5, <1>9 DEF UsersOK, UsersInv, Clean, Doing, On, Working, Grows
<1> QED
  BY <1>2, <1>9, <1>10, <1>11, <1>12, <1>15, <1>16, <1>17, <1>18, <1>19, <1>20, <1>21, <1>22,
     PoolsOKFrame, GcOKFrame, LeakOKFrame

(* soft_delete_blob of a blob that nobody resizes or erases.               *)
LEMMA DeleteBlobInv ==
  ASSUME Inv, NEW b \in Blobs, DeleteBlob(b)
  PROVE  Inv'
<1> USE DEF Inv
<1>1. PICK x : x = [blob[b] EXCEPT !.status = "deleted"]
  OBVIOUS
<1>2. /\ blob[b].status = "created" /\ user[blob[b].user].status = "created"
      /\ blob' = [blob EXCEPT ![b] = x]
      /\ overtaken' = IF Resizing(b) = {} /\ ~ Erasing(b) THEN overtaken ELSE overtaken \cup {b}
      /\ UNCHANGED <<user, userKV, pool, poolKV, routers, cache, filling, known, held, op, gc, acked>>
  BY <1>1 DEF DeleteBlob, BlobValid, UserExist, Overtake
<1>3. blob'[b] = x /\ \A c \in Blobs : c # b => blob'[c] = blob[c]
  BY <1>2 DEF TypeOK
<1>4. \/ blobKV' = [blobKV EXCEPT ![b] = x] /\ troubled' = troubled
      \/ blobKV' = blobKV /\ troubled' = troubled \cup {b}
  BY <1>3 DEF DeleteBlob
<1>5. /\ \A c \in Blobs : c # b => blobKV'[c] = blobKV[c]
      /\ \/ blobKV'[b] = x /\ troubled' = troubled
         \/ blobKV'[b] = blobKV[b] /\ troubled' = troubled \cup {b}
  BY <1>4 DEF TypeOK
<1>6. /\ x \in BlobRecs /\ x.status = "deleted" /\ x.user = blob[b].user /\ x.pool = blob[b].pool
      /\ x.size = blob[b].size
  <2>1. blob[b] \in BlobRecs
    BY BlobFacts
  <2> QED
    BY <1>1, <2>1 DEF BlobRecs, Statuses
<1>7. /\ InMap(blob[b]) /\ InMap(x) /\ blob[b].user \in Users /\ blob[b].pool \in Pools
      /\ pool[blob[b].pool] # "gone" /\ poolKV[blob[b].pool] # "gone"
  BY <1>2, <1>6 DEF InMap, RecordsOK, PoolsOK
<1>8. b \notin overtaken' => /\ b \notin overtaken /\ ~ Erasing(b) /\ blobKV'[b].size = blobKV[b].size
                             /\ blobKV[b].size = blob[b].size
                             /\ \A t \in Threads : ~ Doing(t, b, {"set", "put"})
  <2> SUFFICES ASSUME b \notin overtaken'
               PROVE  /\ b \notin overtaken /\ ~ Erasing(b) /\ blobKV'[b].size = blobKV[b].size
                      /\ blobKV[b].size = blob[b].size
                      /\ \A t \in Threads : ~ Doing(t, b, {"set", "put"})
    OBVIOUS
  <2>1. b \notin overtaken /\ ~ Erasing(b) /\ Resizing(b) = {}
    BY <1>2
  <2>2. \A t \in Threads : ~ Doing(t, b, {"set", "put"})
    BY <2>1 DEF Resizing, Serving, Doing, On
  <2>3. blobKV[b].size = blob[b].size
    BY <2>1, <2>2 DEF SizesOK, Doing
  <2> QED
    BY <2>1, <2>2, <2>3, <1>5, <1>6
<1>9. Grows
  BY <1>2, <1>5 DEF Grows
<1>10. TypeOK'
  <2>1. blob' \in [Blobs -> BlobRecs] /\ blobKV' \in [Blobs -> BlobRecs]
    BY <1>2, <1>4, <1>6 DEF TypeOK
  <2>2. troubled' \subseteq Blobs /\ overtaken' \subseteq Blobs
    BY <1>2, <1>5 DEF TypeOK
  <2> QED
    BY <1>2, <2>1, <2>2 DEF TypeOK
<1>11. OpsOK'
  BY <1>2, <1>3, <1>6, <1>7, Busy, OpFacts DEF OpsOK, On, NoBlob, InMap
<1>12. RecordsOK'
  BY <1>2, <1>3, <1>5, <1>6, <1>7 DEF RecordsOK
<1>13. PoolsOK'
  BY <1>2, <1>3, <1>6, <1>7 DEF PoolsOK
<1>14. GcOK'
  <2>1. Working => InMap(blob'[gc.blob])
    BY <1>3, <1>7 DEF GcOK
  <2> QED
    BY <2>1, <1>2, <1>3, <1>6, GcStays
<1>15. SizesOK'
  BY <1>2, <1>3, <1>5, <1>6, <1>8, <1>9 DEF SizesOK, Doing, On, Grows
<1>16. RoutedWithin'
  BY <1>2, <1>5, <1>8, <1>9, ExtentFacts DEF RoutedWithin, Grows, TypeOK
<1>17. RoutesOK'
  BY <1>2, <1>3, <1>5, <1>6, <1>9
     DEF RoutesOK, Clean, Usable, UserExist, BlobValid, Doing, On, Grows
<1>18. StatusOK'
  <2> SUFFICES ASSUME NEW c \in Blobs, Clean(c)'
               PROVE  /\ Recovered(c)'.status = blob'[c].status \/ Erasing(c)
                      /\ Erasing(c) => blobKV'[c].status = "gone" \/ \E s \in Threads : Doing(s, c, {"routers"})
                      /\ InMap(blob'[c]) =>
                           /\ userKV[blob'[c].user].status = "created" => UserExist(blob'[c].user)
                           /\ poolKV[blob'[c].pool] = "created" => pool[blob'[c].pool] = "created"
    BY <1>2 DEF StatusOK, Erasing, UserExist, Doing, On
  <2>1. Clean(c)
    BY <1>9 DEF Clean, Grows
  <2>2. CASE c = b
    <3>1. ~ Erasing(b) /\ blobKV'[b] = x
      BY <2>2, <1>5, <1>8 DEF Clean
    <3>2. Recovered(b)' = x
      BY <3>1, <1>2, <1>6, <1>7 DEF Recovered
    <3> QED
      BY <2>1, <2>2, <3>1, <3>2, <1>3, <1>6, <1>7 DEF StatusOK
  <2>3. CASE c # b
    <3>1. Recovered(c)' = Recovered(c)
      BY <2>3, <1>2, <1>5 DEF Recovered
    <3> QED
      BY <2>1, <2>3, <3>1, <1>3, <1>5 DEF StatusOK
  <2> QED
    BY <2>2, <2>3
<1>19. KeptOK'
  BY <1>2, <1>3, <1>5, <1>7, <1>9 DEF KeptOK, Erasing, Grows
<1>20. RoutersHaveBlob'
  BY <1>2, <1>5, <1>7, <1>9, ExtentFacts DEF RoutersHaveBlob, Grows, TypeOK
<1>21. WalkOK'
  BY <1>2, <1>3, <1>5, <1>6, <1>8, <1>9 DEF WalkOK, GcOK, Working, Grows
<1>22. LeakOK'
  BY <1>2, <1>3, <1>6, <1>9, ExtentFacts DEF LeakOK, Clean, Working, Grows, TypeOK
<1>23. UsersOK'
  BY <1>2, <1>3, <1>6, <1>7, <1>9 DEF UsersOK, UsersInv, Clean, Doing, On, Working, Grows
<1> QED
  BY <1>10, <1>11, <1>12, <1>13, <1>14, <1>15, <1>16, <1>17, <1>18, <1>19, <1>20, <1>21, <1>22,
     <1>23

(* soft_delete_user: the user's blobs are unusable, in RocksDB too.        *)
LEMMA DeleteUserInv ==
  ASSUME Inv, NEW u \in Users, DeleteUser(u)
  PROVE  Inv'
<1> USE DEF Inv
<1>1. /\ user[u].status # "gone"
      /\ user' = [user EXCEPT ![u].status = "deleted"]
      /\ UNCHANGED <<pool, poolKV, blob, blobKV, routers, cache, filling, known, held, op, gc,
                     acked, overtaken>>
  BY DEF DeleteUser, InMap
<1>2. /\ user'[u].status = "deleted" /\ user'[u].pools = user[u].pools
      /\ \A v \in Users : v # u => user'[v] = user[v]
      /\ user' \in [Users -> [status : Statuses, pools : SUBSET Pools]]
  BY <1>1 DEF TypeOK, Statuses
<1>3. \/ userKV' = [userKV EXCEPT ![u] = user'[u]] /\ troubled' = troubled
      \/ userKV' = userKV /\ troubled' = troubled \cup UNION {BlobsOf(u, p) : p \in Pools}
  BY DEF DeleteUser
<1>4. /\ \A v \in Users : v # u => userKV'[v] = userKV[v]
      /\ userKV' \in [Users -> [status : Statuses, pools : SUBSET Pools]]
      /\ \/ userKV'[u].status = "deleted"
         \/ \A b \in Blobs : InMap(blob[b]) /\ blob[b].user = u => b \in troubled'
  <2>1. CASE userKV' = [userKV EXCEPT ![u] = user'[u]]
    BY <2>1, <1>2 DEF TypeOK
  <2>2. CASE userKV' = userKV /\ troubled' = troubled \cup UNION {BlobsOf(u, p) : p \in Pools}
    <3>1. \A b \in Blobs : InMap(blob[b]) /\ blob[b].user = u => b \in BlobsOf(u, blob[b].pool) /\ blob[b].pool \in Pools
      BY DEF BlobsOf, RecordsOK, InMap
    <3> QED
      BY <2>2, <3>1 DEF TypeOK
  <2> QED
    BY <1>3, <2>1, <2>2
<1>5. Grows /\ troubled' \subseteq Blobs
  BY <1>1, <1>3 DEF Grows, BlobsOf, TypeOK
<1>6. TypeOK'
  BY <1>1, <1>2, <1>4, <1>5 DEF TypeOK
<1>7. GcOK'
  BY <1>1, <1>2, GcStays DEF GcOK
<1>8. RoutesOK'
  BY <1>1, <1>2, <1>5 DEF RoutesOK, RecordsOK, Clean, Usable, UserExist, BlobValid, Doing, On, Grows
<1>9. StatusOK'
  BY <1>1, <1>2, <1>4, <1>5
     DEF StatusOK, RecordsOK, Clean, Recovered, Erasing, Doing, On, UserExist, Grows, InMap
<1>10. UsersOK'
  BY <1>1, <1>2, <1>5 DEF UsersOK, UsersInv, RecordsOK, Clean, Doing, On, Working, Grows, InMap
<1> QED
  BY <1>1, <1>5, <1>6, <1>7, <1>8, <1>9, <1>10, OpsOKFrame, RecordsOKFrame, PoolsOKFrame,
     SizesOKFrame,
     RoutedWithinFrame, KeptOKFrame, RoutersHaveBlobFrame, WalkOKFrame, LeakOKFrame

(* update_user stores an enabled user.                                     *)
LEMMA UpdateUserInv ==
  ASSUME Inv, NEW u \in Users, UpdateUser(u)
  PROVE  Inv'
<1> USE DEF Inv
<1>1. /\ user[u].status = "created"
      /\ userKV' = userKV \/ userKV' = [userKV EXCEPT ![u] = user[u]]
      /\ UNCHANGED <<user, pool, poolKV, blob, blobKV, routers, cache, filling, known, held, op, gc,
                     acked, troubled, overtaken>>
  BY DEF UpdateUser, UserExist, history
<1>2. /\ \A v \in Users : userKV'[v] = userKV[v] \/ v = u
      /\ userKV' \in [Users -> [status : Statuses, pools : SUBSET Pools]]
  BY <1>1 DEF TypeOK
<1>3. Grows
  BY <1>1 DEF Grows
<1>4. TypeOK'
  BY <1>1, <1>2 DEF TypeOK
<1>5. StatusOK'
  BY <1>1, <1>2 DEF StatusOK, RecordsOK, Clean, Recovered, Erasing, Doing, On, UserExist, InMap
<1> QED
  BY <1>1, <1>3, <1>4, <1>5, OpsOKFrame, RecordsOKFrame, PoolsOKFrame, GcOKFrame, SizesOKFrame,
     RoutedWithinFrame, RoutesOKFrame, KeptOKFrame, RoutersHaveBlobFrame, WalkOKFrame, LeakOKFrame,
     UsersOKFrame

(* soft_delete_pool: the pool's blobs are unusable, in RocksDB too.        *)
LEMMA DeletePoolInv ==
  ASSUME Inv, NEW p \in Pools, DeletePool(p)
  PROVE  Inv'
<1> USE DEF Inv
<1>1. /\ pool[p] = "created" /\ poolKV[p] = "created"
      /\ pool' = [pool EXCEPT ![p] = "deleted"]
      /\ UNCHANGED <<user, userKV, blob, blobKV, routers, cache, filling, known, held, op, gc,
                     acked, overtaken>>
  BY DEF DeletePool, PoolsOK
<1>2. /\ pool'[p] = "deleted" /\ pool' \in [Pools -> Statuses]
      /\ \A q \in Pools : q # p => pool'[q] = pool[q]
  BY <1>1 DEF TypeOK, Statuses
<1>3. \/ poolKV' = [poolKV EXCEPT ![p] = "deleted"] /\ troubled' = troubled
      \/ poolKV' = poolKV /\ troubled' = troubled \cup UNION {BlobsOf(u, p) : u \in Users}
  BY DEF DeletePool
<1>4. /\ poolKV' \in [Pools -> Statuses] /\ poolKV'[p] # "gone"
      /\ \A q \in Pools : q # p => poolKV'[q] = poolKV[q]
      /\ \/ poolKV'[p] = "deleted"
         \/ \A b \in Blobs : InMap(blob[b]) /\ blob[b].pool = p => b \in troubled'
  <2>1. CASE poolKV' = [poolKV EXCEPT ![p] = "deleted"]
    BY <2>1 DEF TypeOK, Statuses
  <2>2. CASE poolKV' = poolKV /\ troubled' = troubled \cup UNION {BlobsOf(u, p) : u \in Users}
    <3>1. \A b \in Blobs : InMap(blob[b]) /\ blob[b].pool = p => b \in BlobsOf(blob[b].user, p) /\ blob[b].user \in Users
      BY DEF BlobsOf, RecordsOK, InMap
    <3> QED
      BY <2>2, <3>1, <1>1 DEF TypeOK
  <2> QED
    BY <1>3, <2>1, <2>2
<1>5. Grows /\ troubled' \subseteq Blobs
  BY <1>1, <1>3 DEF Grows, BlobsOf, TypeOK
<1>6. TypeOK'
  BY <1>1, <1>2, <1>4, <1>5 DEF TypeOK
<1>7. OpsOK'
  BY <1>1, <1>2, Busy, OpFacts DEF OpsOK, On
<1>8. PoolsOK'
  BY <1>1, <1>2, <1>4 DEF PoolsOK, RecordsOK, InMap
<1>9. GcOK'
  BY <1>1, <1>2, GcStays DEF GcOK
<1>10. RoutesOK'
  BY <1>1, <1>2, <1>5 DEF RoutesOK, RecordsOK, Clean, Usable, UserExist, BlobValid, Doing, On, Grows
<1>11. StatusOK'
  <2>1. \A b \in Blobs : Recovered(b)' = Recovered(b)
    BY <1>1, <1>4 DEF Recovered, RecordsOK, InMap
  <2> QED
    BY <1>1, <1>2, <1>4, <1>5, <2>1
       DEF StatusOK, RecordsOK, Clean, Erasing, Doing, On, UserExist, Grows, InMap
<1>12. LeakOK'
  BY <1>1, <1>4, <1>5, ExtentFacts DEF LeakOK, RecordsOK, Clean, Working, Grows, TypeOK
<1> QED
  BY <1>1, <1>5, <1>6, <1>7, <1>8, <1>9, <1>10, <1>11, <1>12, RecordsOKFrame, SizesOKFrame,
     RoutedWithinFrame, KeptOKFrame, RoutersHaveBlobFrame, WalkOKFrame, UsersOKFrame

-----------------------------------------------------------------------------
(* Routers and writes.                                                     *)

(* query_router gives out routers that exist or are cached.                *)
LEMMA QueryRouterInv ==
  ASSUME Inv, NEW e \in Extents, QueryRouter(e)
  PROVE  Inv'
<1> USE DEF Inv
<1>1. /\ e \in routers \cup cache /\ known' = known \cup {e}
      /\ filling' = filling \/ filling' = filling \cup {e}
      /\ UNCHANGED <<user, userKV, pool, poolKV, blob, blobKV, routers, cache, held, op, gc,
                     acked, troubled, overtaken>>
  BY DEF QueryRouter, meta, history
<1>2. Grows
  BY <1>1 DEF Grows
<1>3. TypeOK'
  BY <1>1 DEF TypeOK
<1>4. RoutedWithin'
  BY <1>1 DEF RoutedWithin
<1> QED
  BY <1>1, <1>2, <1>3, <1>4, OpsOKFrame, RecordsOKFrame, PoolsOKFrame, GcOKFrame, SizesOKFrame,
     RoutesOKFrame, StatusOKFrame, KeptOKFrame, RoutersHaveBlobFrame, WalkOKFrame, LeakOKFrame,
     UsersOKFrame

(* put_in_cache keeps what was read.                                       *)
LEMMA PutInCacheInv ==
  ASSUME Inv, NEW e \in Extents, PutInCache(e)
  PROVE  Inv'
<1> USE DEF Inv
<1>1. /\ e \in filling /\ filling' = filling \ {e} /\ cache' = cache \cup {e}
      /\ UNCHANGED <<user, userKV, pool, poolKV, blob, blobKV, routers, known, held, op, gc,
                     acked, troubled, overtaken>>
  BY DEF PutInCache, meta, history
<1>2. Grows
  BY <1>1 DEF Grows
<1>3. TypeOK'
  BY <1>1 DEF TypeOK
<1>4. RoutedWithin'
  BY <1>1 DEF RoutedWithin
<1> QED
  BY <1>1, <1>2, <1>3, <1>4, OpsOKFrame, RecordsOKFrame, PoolsOKFrame, GcOKFrame, SizesOKFrame,
     RoutesOKFrame, StatusOKFrame, KeptOKFrame, RoutersHaveBlobFrame, WalkOKFrame, LeakOKFrame,
     UsersOKFrame

(* A write behind the walk of the collector overtakes it.                  *)
LEMMA WriteInv ==
  ASSUME Inv, NEW e \in Extents, Write(e)
  PROVE  Inv'
<1> USE DEF Inv
<1>1. /\ e \in known
      /\ overtaken' = IF ~ Reclaimed(e) THEN overtaken ELSE overtaken \cup {e[1]}
      /\ UNCHANGED <<user, userKV, pool, poolKV, blob, blobKV, routers, cache, filling, known, op, gc,
                     acked, troubled>>
  BY DEF Write, Overtake, meta
<1>2. PICK S \in SUBSET Replicas :
        held' = [n \in Replicas |-> IF n \in S THEN held[n] \cup {e} ELSE held[n]]
  BY DEF Write
<1>3. \A n \in Replicas : held'[n] \subseteq held[n] \cup {e}
  BY <1>2
<1>4. Grows
  BY <1>1 DEF Grows
<1>5. TypeOK'
  BY <1>1, <1>2, ExtentFacts DEF TypeOK
<1>6. RoutedWithin'
  BY <1>1, <1>3, <1>4 DEF RoutedWithin, Grows
<1>7. LeakOK'
  <2> SUFFICES ASSUME NEW n \in Replicas, NEW f \in held'[n], Clean(f[1])'
               PROVE  /\ Working /\ gc.blob = f[1] /\ gc.remote =>
                           f[2] >= gc.idx /\ (gc.pc = "router" => f[2] # gc.idx)
                      /\ blob[f[1]].status = "gone" => poolKV[blob[f[1]].pool] # "created"
    BY <1>1 DEF LeakOK, Working
  <2>1. CASE f \in held[n]
    BY <2>1, <1>4 DEF LeakOK, Clean, Grows
  <2>2. CASE f = e
    <3>1. ~ Reclaimed(e)
      BY <2>2, <1>1 DEF Clean
    <3>2. e[2] \in Nat /\ gc.idx \in Nat
      BY ExtentFacts, ConstantsAssumption DEF TypeOK, GcRecs
    <3> QED
      BY <2>2, <3>1, <3>2 DEF Reclaimed, InMap, Working
  <2> QED
    BY <2>1, <2>2, <1>3
<1> QED
  BY <1>1, <1>4, <1>5, <1>6, <1>7, OpsOKFrame, RecordsOKFrame, PoolsOKFrame, GcOKFrame,
     SizesOKFrame,
     RoutesOKFrame, StatusOKFrame, KeptOKFrame, RoutersHaveBlobFrame, WalkOKFrame, UsersOKFrame

-----------------------------------------------------------------------------
(* The garbage collector.                                                  *)

(* A step of the collector's own progress, outside delete_blob.            *)
LEMMA GcQuiet ==
  ASSUME Inv, gc.pc # "erase", gc'.pc # "erase", gc' \in GcRecs,
         GcOK', WalkOK', LeakOK', UsersOK',
         UNCHANGED <<user, userKV, pool, poolKV, blob, blobKV, routers, cache, filling, known, held,
                     op, acked, troubled, overtaken>>
  PROVE  Inv'
<1> USE DEF Inv
<1>1. Grows
  BY DEF Grows
<1>2. TypeOK'
  BY DEF TypeOK
<1>3. StatusOK'
  BY DEF StatusOK, Clean, Recovered, Erasing, Doing, On, UserExist
<1>4. KeptOK'
  BY DEF KeptOK, Erasing
<1> QED
  BY <1>1, <1>2, <1>3, <1>4, OpsOKFrame, RecordsOKFrame, PoolsOKFrame, SizesOKFrame,
     RoutedWithinFrame, RoutesOKFrame, RoutersHaveBlobFrame

(* The same between two blobs.                                             *)
LEMMA GcBetween ==
  ASSUME Inv, gc.pc # "erase", gc'.pc \in {"idle", "list", "pools", "blobs"}, gc' \in GcRecs,
         GcOK', UsersOK',
         UNCHANGED <<user, userKV, pool, poolKV, blob, blobKV, routers, cache, filling, known, held,
                     op, acked, troubled, overtaken>>
  PROVE  Inv'
<1>1. WalkOK'
  BY DEF WalkOK, Working
<1>2. LeakOK'
  BY DEF Inv, LeakOK, Working, Clean
<1> QED
  BY <1>1, <1>2, GcQuiet

(* The collector's idle state is well typed.                               *)
LEMMA GcIdleRec == GcIdle \in GcRecs
BY ConstantsAssumption DEF GcIdle, GcRecs

(* gc() lists the deleted pools.                                           *)
LEMMA GcStartInv ==
  ASSUME Inv, GcStart
  PROVE  Inv'
<1> USE DEF Inv
<1>1. /\ gc.pc = "idle"
      /\ gc' = [GcIdle EXCEPT !.pc = "list", !.todo = {p \in Pools : pool[p] = "deleted"}]
      /\ UNCHANGED <<user, userKV, pool, poolKV, blob, blobKV, routers, cache, filling, known, held,
                     op, acked, troubled, overtaken>>
  BY DEF GcStart, meta, history
<1>2. gc' \in GcRecs
  BY <1>1, GcIdleRec DEF GcRecs
<1>3. /\ gc'.pc = "list" /\ gc'.phase = "pools" /\ gc'.todo = {p \in Pools : pool[p] = "deleted"}
      /\ gc'.blobs = {}
  BY <1>1 DEF GcIdle
<1>4. GcOK'
  BY <1>1, <1>3 DEF GcOK, Working
<1>5. UsersOK'
  BY <1>1, <1>3 DEF UsersOK, UsersInv, Clean, Doing, On, Working
<1> QED
  BY <1>1, <1>2, <1>3, <1>4, <1>5, GcBetween

(* After the pools the users, after the users the enabled pools.           *)
LEMMA GcNextPhaseInv ==
  ASSUME Inv, GcNextPhase
  PROVE  Inv'
<1> USE DEF Inv
<1>1. /\ gc.pc = "list" /\ gc.todo = {} /\ gc.blobs = {}
      /\ UNCHANGED <<user, userKV, pool, poolKV, blob, blobKV, routers, cache, filling, known, held,
                     op, acked, troubled, overtaken>>
  BY DEF GcNextPhase, meta, history, GcOK
<1>2. \/ /\ gc' = [gc EXCEPT !.phase = "users", !.success = TRUE,
                             !.todo = {u \in Users : user[u].status = "deleted"}]
      \/ /\ gc' = [gc EXCEPT !.phase = "blobs", !.todo = {p \in Pools : pool[p] = "created"}]
      \/ gc' = GcIdle
  BY DEF GcNextPhase
<1>3. /\ gc' \in GcRecs /\ gc'.pc \in {"idle", "list"} /\ gc'.blobs = {}
      /\ \/ gc'.phase = "users" /\ gc'.todo = {u \in Users : user[u].status = "deleted"}
         \/ gc'.phase = "blobs" /\ gc'.todo = {p \in Pools : pool[p] = "created"}
         \/ gc'.phase = "pools" /\ gc'.todo = {}
  <2>0. gc \in GcRecs
    BY DEF TypeOK
  <2>1. CASE gc' = [gc EXCEPT !.phase = "users", !.success = TRUE,
                              !.todo = {u \in Users : user[u].status = "deleted"}]
    BY <2>0, <2>1, <1>1 DEF GcRecs
  <2>2. CASE gc' = [gc EXCEPT !.phase = "blobs", !.todo = {p \in Pools : pool[p] = "created"}]
    BY <2>0, <2>2, <1>1 DEF GcRecs
  <2>3. CASE gc' = GcIdle
    BY <2>3, GcIdleRec DEF GcIdle
  <2> QED
    BY <1>2, <2>1, <2>2, <2>3
<1>4. GcOK'
  BY <1>1, <1>3 DEF GcOK, Working
<1>5. UsersOK'
  BY <1>1, <1>3 DEF UsersOK, UsersInv, Clean, Doing, On, Working
<1> QED
  BY <1>1, <1>3, <1>4, <1>5, GcBetween

(* All blobs of a deleted pool are unusable, and so are the deleted ones   *)
(* of an enabled pool.                                                     *)
LEMMA GcTakePoolInv ==
  ASSUME Inv, NEW p \in Pools, GcTakePool(p)
  PROVE  Inv'
<1> USE DEF Inv
<1>1. PICK S : S = {b \in Blobs : /\ InMap(blob[b]) /\ blob[b].pool = p
                                  /\ (gc.phase = "blobs" => blob[b].status = "deleted")}
  OBVIOUS
<1>2. /\ gc.pc = "list" /\ gc.phase \in {"pools", "blobs"} /\ p \in gc.todo
      /\ gc' = [gc EXCEPT !.pc = "blobs", !.todo = gc.todo \ {p}, !.item = p, !.success = TRUE,
                          !.remote = (gc.phase = "blobs"), !.blobs = S]
      /\ UNCHANGED <<user, userKV, pool, poolKV, blob, blobKV, routers, cache, filling, known, held,
                     op, acked, troubled, overtaken>>
  BY <1>1 DEF GcTakePool, meta, history, TypeOK, GcRecs
<1>3. /\ gc' \in GcRecs /\ gc'.pc = "blobs" /\ gc'.phase = gc.phase /\ gc'.todo = gc.todo \ {p}
      /\ gc'.item = p /\ (gc'.remote <=> gc.phase = "blobs") /\ gc'.blobs = S
  <2>1. gc \in GcRecs /\ S \subseteq Blobs /\ (gc.phase = "blobs") \in BOOLEAN
    BY <1>1 DEF TypeOK
  <2> QED
    BY <1>2, <2>1 DEF GcRecs
<1>4. /\ gc.todo \subseteq Pools
      /\ gc.phase = "pools" => pool[p] # "created" /\ \A q \in gc.todo : pool[q] # "created"
  BY <1>2 DEF GcOK
<1>5. \A b \in S : blob[b].status # "none" /\ ~ Usable(b) /\ (gc.phase = "pools" => pool[blob[b].pool] # "created")
  BY <1>1, <1>2, <1>4 DEF Usable, BlobValid, InMap
<1>6. GcOK'
  BY <1>2, <1>3, <1>4, <1>5 DEF GcOK, Working, Usable, UserExist, BlobValid
<1>7. UsersOK'
  BY <1>2, <1>3 DEF UsersOK, UsersInv, Clean, Doing, On, Working
<1> QED
  BY <1>2, <1>3, <1>6, <1>7, GcBetween

(* The pools of a deleted user's map entry.                                *)
LEMMA GcTakeUserInv ==
  ASSUME Inv, NEW u \in Users, GcTakeUser(u)
  PROVE  Inv'
<1> USE DEF Inv
<1>1. /\ gc.pc = "list" /\ gc.phase = "users" /\ u \in gc.todo
      /\ gc' = [gc EXCEPT !.pc = "pools", !.todo = gc.todo \ {u}, !.item = u, !.pools = user[u].pools]
      /\ UNCHANGED <<user, userKV, pool, poolKV, blob, blobKV, routers, cache, filling, known, held,
                     op, acked, troubled, overtaken>>
  BY DEF GcTakeUser, meta, history, TypeOK, GcRecs
<1>2. /\ gc' \in GcRecs /\ gc'.pc = "pools" /\ gc'.phase = "users" /\ gc'.todo = gc.todo \ {u}
      /\ gc'.item = u /\ gc'.pools = user[u].pools /\ gc'.blobs = gc.blobs /\ gc'.remote = gc.remote
  <2>1. gc \in GcRecs /\ user[u].pools \subseteq Pools
    BY DEF TypeOK
  <2> QED
    BY <1>1, <2>1 DEF GcRecs
<1>3. gc.blobs = {}
  BY <1>1 DEF GcOK
<1>4. GcOK'
  BY <1>1, <1>2, <1>3 DEF GcOK, Working
<1>5. UsersOK'
  BY <1>1, <1>2 DEF UsersOK, UsersInv, Clean, Doing, On, Working
<1> QED
  BY <1>1, <1>2, <1>4, <1>5, GcBetween

(* A deleted user's blobs are unusable.                                    *)
LEMMA GcUserPoolInv ==
  ASSUME Inv, NEW p \in Pools, GcUserPool(p)
  PROVE  Inv'
<1> USE DEF Inv
<1>1. /\ gc.pc = "pools" /\ gc.phase = "users" /\ p \in gc.pools /\ gc.blobs = {}
      /\ gc.item \in Users /\ user[gc.item].status # "created"
      /\ UNCHANGED <<user, userKV, pool, poolKV, blob, blobKV, routers, cache, filling, known, held,
                     op, acked, troubled, overtaken>>
  BY DEF GcUserPool, meta, history, GcOK
<1>2. \/ gc' = [gc EXCEPT !.pc = "blobs", !.pools = gc.pools \ {p}, !.remote = TRUE,
                          !.blobs = BlobsOf(gc.item, p)]
      \/ gc' = [gc EXCEPT !.pools = gc.pools \ {p}, !.success = FALSE]
  BY DEF GcUserPool, TypeOK, GcRecs
<1>3. /\ gc' \in GcRecs /\ gc'.phase = "users" /\ gc'.item = gc.item /\ gc'.todo = gc.todo
      /\ gc'.pools = gc.pools \ {p}
      /\ \/ gc'.pc = "blobs" /\ gc'.remote /\ gc'.blobs = BlobsOf(gc.item, p) /\ gc'.success = gc.success
         \/ gc'.pc = "pools" /\ gc'.blobs = {} /\ ~ gc'.success
  <2>0. gc \in GcRecs /\ BlobsOf(gc.item, p) \subseteq Blobs
    BY DEF TypeOK, BlobsOf
  <2>1. CASE gc' = [gc EXCEPT !.pc = "blobs", !.pools = gc.pools \ {p}, !.remote = TRUE,
                              !.blobs = BlobsOf(gc.item, p)]
    BY <2>0, <2>1, <1>1 DEF GcRecs
  <2>2. CASE gc' = [gc EXCEPT !.pools = gc.pools \ {p}, !.success = FALSE]
    BY <2>0, <2>2, <1>1 DEF GcRecs
  <2> QED
    BY <1>2, <2>1, <2>2
<1>4. \A b \in BlobsOf(gc.item, p) : blob[b].status # "none" /\ ~ Usable(b)
  BY <1>1 DEF BlobsOf, InMap, Usable, UserExist
<1>5. GcOK'
  BY <1>1, <1>3, <1>4 DEF GcOK, Working, Usable, UserExist, BlobValid
<1>6. \A b \in Blobs : InMap(blob[b]) /\ blob[b].user = gc.item /\ blob[b].pool = p => b \in BlobsOf(gc.item, p)
  BY DEF BlobsOf
<1>7. UsersOK'
  BY <1>1, <1>3, <1>6 DEF UsersOK, UsersInv, Clean, Doing, On, Working
<1> QED
  BY <1>1, <1>3, <1>5, <1>7, GcBetween

(* The walk begins before the first extent and ends at size_, which is at  *)
(* least the stored size.                                                  *)
LEMMA GcTakeBlobInv ==
  ASSUME Inv, NEW b \in Blobs, GcTakeBlob(b)
  PROVE  Inv'
<1> USE DEF Inv
<1>1. /\ gc.pc = "blobs" /\ b \in gc.blobs
      /\ UNCHANGED <<user, userKV, pool, poolKV, blob, blobKV, routers, cache, filling, known, held,
                     op, acked, troubled, overtaken>>
  BY DEF GcTakeBlob, meta, history
<1>2. \/ InMap(blob[b]) /\ gc' = [gc EXCEPT !.pc = "extent", !.blobs = gc.blobs \ {b}, !.blob = b,
                                            !.idx = 1, !.last = blob[b].size]
      \/ gc' = [gc EXCEPT !.blobs = gc.blobs \ {b}, !.success = FALSE]
  BY DEF GcTakeBlob, TypeOK, GcRecs
<1>3. /\ gc' \in GcRecs /\ gc'.phase = gc.phase /\ gc'.item = gc.item /\ gc'.todo = gc.todo
      /\ gc'.pools = gc.pools /\ gc'.blobs = gc.blobs \ {b} /\ gc'.remote = gc.remote
      /\ \/ InMap(blob[b]) /\ gc'.pc = "extent" /\ gc'.blob = b /\ gc'.idx = 1
            /\ gc'.last = blob[b].size /\ gc'.success = gc.success
         \/ gc'.pc = "blobs" /\ ~ gc'.success
  <2>0. gc \in GcRecs /\ blob[b].size \in 0..MaxSize /\ 1 \in 0..MaxSize + 1
    BY ConstantsAssumption DEF TypeOK, BlobRecs
  <2>1. CASE InMap(blob[b]) /\ gc' = [gc EXCEPT !.pc = "extent", !.blobs = gc.blobs \ {b}, !.blob = b,
                                                !.idx = 1, !.last = blob[b].size]
    BY <2>0, <2>1, <1>1 DEF GcRecs
  <2>2. CASE gc' = [gc EXCEPT !.blobs = gc.blobs \ {b}, !.success = FALSE]
    BY <2>0, <2>2, <1>1 DEF GcRecs
  <2> QED
    BY <1>2, <2>1, <2>2
<1>4. GcOK'
  BY <1>1, <1>3, BlobFacts DEF GcOK, Working, Usable, UserExist, BlobValid
<1>5. UsersOK'
  BY <1>1, <1>3 DEF UsersOK, UsersInv, Clean, Doing, On, Working
<1>6. WalkOK'
  <2>1. b \notin overtaken => blobKV[b].size <= blob[b].size
    <3>1. CASE \E t \in Threads : Doing(t, b, {"put"})
      <4>1. PICK t \in Threads : Doing(t, b, {"put"})
        BY <3>1
      <4>2. op[t].from <= op[t].to
        BY <4>1 DEF OpsOK, Doing, On
      <4> QED
        BY <4>1, <4>2, BlobFacts DEF SizesOK
    <3>2. CASE \A t \in Threads : ~ Doing(t, b, {"put"})
      BY <3>2, BlobFacts DEF SizesOK
    <3> QED
      BY <3>1, <3>2
  <2>2. \A e \in routers : e[2] >= 1
    BY ExtentFacts DEF TypeOK
  <2> QED
    BY <1>1, <1>3, <2>1, <2>2, BlobFacts DEF WalkOK, Working
<1>7. LeakOK'
  <2>1. \A n \in Replicas : \A e \in held[n] : e[2] >= 1
    BY ExtentFacts DEF TypeOK
  <2> QED
    BY <1>1, <1>3, <2>1 DEF LeakOK, Working, Clean
<1> QED
  BY <1>1, <1>3, <1>4, <1>5, <1>6, <1>7, GcQuiet

(* Out of hours the user is kept.                                          *)
LEMMA GcOutOfHoursInv ==
  ASSUME Inv, GcOutOfHours
  PROVE  Inv'
<1> USE DEF Inv
<1>1. /\ gc.pc = "blobs"
      /\ gc' = [gc EXCEPT !.blobs = {}, !.success = FALSE]
      /\ UNCHANGED <<user, userKV, pool, poolKV, blob, blobKV, routers, cache, filling, known, held,
                     op, acked, troubled, overtaken>>
  BY DEF GcOutOfHours, meta, history
<1>2. /\ gc' \in GcRecs /\ gc'.pc = "blobs" /\ gc'.phase = gc.phase /\ gc'.todo = gc.todo
      /\ gc'.item = gc.item /\ gc'.remote = gc.remote /\ gc'.blobs = {} /\ ~ gc'.success
  <2>1. gc \in GcRecs
    BY DEF TypeOK
  <2> QED
    BY <1>1, <2>1 DEF GcRecs
<1>3. GcOK'
  BY <1>1, <1>2 DEF GcOK, Working
<1>4. UsersOK'
  BY <1>1, <1>2 DEF UsersOK, UsersInv, Clean, Doing, On, Working
<1> QED
  BY <1>1, <1>2, <1>3, <1>4, GcBetween

(* delete_user finds none of the user's blobs left.                        *)
LEMMA GcUserEndInv ==
  ASSUME Inv, GcUserEnd
  PROVE  Inv'
<1> USE DEF Inv
<1>1. /\ gc.pc = "pools" /\ gc.phase = "users" /\ gc.pools = {} /\ gc.blobs = {}
      /\ gc.item \in Users /\ user[gc.item].status # "created"
      /\ gc' = [gc EXCEPT !.pc = "list"]
      /\ UNCHANGED <<pool, poolKV, blob, blobKV, routers, cache, filling, known, held, op,
                     acked, troubled, overtaken>>
  BY DEF GcUserEnd, history, GcOK
<1>2. /\ gc' \in GcRecs /\ gc'.pc = "list" /\ gc'.phase = "users" /\ gc'.todo = gc.todo /\ gc'.blobs = {}
  <2>1. gc \in GcRecs
    BY DEF TypeOK
  <2> QED
    BY <1>1, <2>1 DEF GcRecs
<1>3. CASE user' = user /\ userKV' = userKV
  <2>1. GcOK'
    BY <1>1, <1>2, <1>3 DEF GcOK, Working
  <2>2. UsersOK'
    BY <1>1, <1>2, <1>3 DEF UsersOK, UsersInv, Clean, Doing, On, Working
  <2> QED
    BY <1>1, <1>2, <1>3, <2>1, <2>2, GcBetween
<1>4. CASE ~ (user' = user /\ userKV' = userKV)
  <2>1. /\ gc.success
        /\ user' = [user EXCEPT ![gc.item].status = "gone"]
        /\ userKV' = [userKV EXCEPT ![gc.item].status = "gone"]
    BY <1>4 DEF GcUserEnd
  <2>2. /\ user' \in [Users -> [status : Statuses, pools : SUBSET Pools]]
        /\ userKV' \in [Users -> [status : Statuses, pools : SUBSET Pools]]
        /\ user'[gc.item].status = "gone" /\ userKV'[gc.item].status = "gone"
        /\ \A u \in Users : user'[u].pools = user[u].pools
        /\ \A u \in Users : u # gc.item => user'[u] = user[u] /\ userKV'[u] = userKV[u]
    <3>1. PICK v \in Users : v = gc.item
      BY <1>1
    <3>2. /\ user' = [user EXCEPT ![v].status = "gone"]
          /\ userKV' = [userKV EXCEPT ![v].status = "gone"]
      BY <2>1, <3>1
    <3>3. /\ user' \in [Users -> [status : Statuses, pools : SUBSET Pools]]
          /\ user'[v].status = "gone" /\ user'[v].pools = user[v].pools
          /\ \A u \in Users : u # v => user'[u] = user[u]
      BY <3>2 DEF TypeOK, Statuses
    <3>4. /\ userKV' \in [Users -> [status : Statuses, pools : SUBSET Pools]]
          /\ userKV'[v].status = "gone"
          /\ \A u \in Users : u # v => userKV'[u] = userKV[u]
      BY <3>2 DEF TypeOK, Statuses
    <3> QED
      BY <3>1, <3>3, <3>4
  <2>3. Grows
    BY <1>1 DEF Grows
  <2>4. TypeOK'
    BY <1>1, <1>2, <2>2 DEF TypeOK
  <2>5. GcOK'
    BY <1>1, <1>2, <2>2 DEF GcOK, Working
  <2>6. RoutesOK'
    <3>1. \A b \in Blobs : Usable(b)' => Usable(b)
      BY <1>1, <2>2 DEF RecordsOK, Usable, UserExist, BlobValid
    <3> QED
      BY <3>1, <1>1 DEF RoutesOK, Clean, Doing, On
  <2>7. StatusOK'
    BY <1>1, <1>2, <2>2
       DEF StatusOK, RecordsOK, Clean, Recovered, Erasing, Doing, On, UserExist, InMap
  <2>8. KeptOK'
    BY <1>1, <1>2 DEF KeptOK, Erasing
  <2>9. WalkOK'
    BY <1>2 DEF WalkOK, Working
  <2>10. LeakOK'
    BY <1>1, <1>2 DEF LeakOK, Working, Clean
  <2>11. UsersOK'
    <3> SUFFICES ASSUME UsersInv, NEW b \in Blobs, Clean(b), InMap(blob[b]),
                        \A t \in Threads : ~ Doing(t, b, {"pool"})
                 PROVE  /\ blob[b].pool \in user'[blob[b].user].pools
                        /\ user'[blob[b].user].status # "gone"
      BY <1>1, <1>2 DEF UsersOK, UsersInv, Clean, Doing, On
    <3>1. blob[b].user \in Users
      BY DEF RecordsOK, InMap
    <3>2. blob[b].user # gc.item
      BY <1>1, <2>1 DEF UsersInv, Working
    <3> QED
      BY <3>1, <3>2, <2>2 DEF UsersInv
  <2> QED
    BY <1>1, <2>3, <2>4, <2>5, <2>6, <2>7, <2>8, <2>9, <2>10, <2>11, OpsOKFrame, RecordsOKFrame,
       PoolsOKFrame, SizesOKFrame, RoutedWithinFrame, RoutersHaveBlobFrame
<1> QED
  BY <1>3, <1>4

(* delete_pool takes the pool's blob map with it.                          *)
LEMMA GcBlobsEndInv ==
  ASSUME Inv, GcBlobsEnd
  PROVE  Inv'
<1> USE DEF Inv
<1>1. /\ gc.pc = "blobs" /\ gc.blobs = {}
      /\ gc' = [gc EXCEPT !.pc = IF gc.phase = "users" THEN "pools" ELSE "list", !.blob = "none"]
      /\ UNCHANGED <<user, userKV, blobKV, routers, cache, filling, known, held, op,
                     acked, troubled, overtaken>>
  BY DEF GcBlobsEnd, history
<1>2. /\ gc' \in GcRecs /\ gc'.phase = gc.phase /\ gc'.todo = gc.todo /\ gc'.blobs = {}
      /\ gc'.item = gc.item /\ gc'.pools = gc.pools /\ gc'.remote = gc.remote /\ gc'.success = gc.success
      /\ \/ gc'.pc = "pools" /\ gc.phase = "users"
         \/ gc'.pc = "list" /\ gc.phase # "users"
  <2>1. gc \in GcRecs
    BY DEF TypeOK
  <2> QED
    BY <1>1, <2>1 DEF GcRecs
<1>3. CASE pool' = pool /\ poolKV' = poolKV /\ blob' = blob
  <2>1. GcOK'
    BY <1>1, <1>2, <1>3 DEF GcOK, Working
  <2>2. UsersOK'
    BY <1>1, <1>2, <1>3 DEF UsersOK, UsersInv, Clean, Doing, On, Working
  <2> QED
    BY <1>1, <1>2, <1>3, <2>1, <2>2, GcBetween
<1>4. CASE ~ (pool' = pool /\ poolKV' = poolKV /\ blob' = blob)
  <2>0. PICK p : p = gc.item
    OBVIOUS
  <2>1. /\ gc.phase = "pools"
        /\ \A t \in Threads : op[t].pc \notin {"create", "set", "put"}
        /\ pool' = [pool EXCEPT ![p] = "gone"]
        /\ poolKV' = [poolKV EXCEPT ![p] = "gone"]
        /\ blob' = [b \in Blobs |-> IF blob[b].pool = p THEN Gone(blob[b]) ELSE blob[b]]
    BY <1>4, <2>0 DEF GcBlobsEnd
  <2>2. p \in Pools /\ p # "none" /\ gc'.pc = "list"
    BY <1>1, <1>2, <2>0, <2>1, ConstantsAssumption DEF GcOK
  <2>3. /\ pool' \in [Pools -> Statuses] /\ poolKV' \in [Pools -> Statuses]
        /\ pool'[p] = "gone" /\ poolKV'[p] = "gone"
        /\ \A q \in Pools : q # p => pool'[q] = pool[q] /\ poolKV'[q] = poolKV[q]
    BY <2>1, <2>2 DEF TypeOK, Statuses
  <2>4. \A b \in Blobs : /\ blob'[b] \in BlobRecs /\ blob'[b].user = blob[b].user
                         /\ blob'[b].pool = blob[b].pool /\ blob'[b].size = blob[b].size
                         /\ blob[b].pool = p => blob'[b].status = "gone"
                         /\ blob[b].pool # p => blob'[b] = blob[b]
    <3> SUFFICES ASSUME NEW b \in Blobs
                 PROVE  /\ blob'[b] \in BlobRecs /\ blob'[b].user = blob[b].user
                        /\ blob'[b].pool = blob[b].pool /\ blob'[b].size = blob[b].size
                        /\ blob[b].pool = p => blob'[b].status = "gone"
                        /\ blob[b].pool # p => blob'[b] = blob[b]
      OBVIOUS
    <3>1. blob[b] \in BlobRecs
      BY BlobFacts
    <3>2. blob'[b] = IF blob[b].pool = p THEN [blob[b] EXCEPT !.status = "gone"] ELSE blob[b]
      BY <2>1 DEF Gone
    <3> QED
      BY <3>1, <3>2 DEF BlobRecs, Statuses
  <2>5. Grows
    BY <1>1 DEF Grows
  <2>6. TypeOK'
    BY <1>1, <1>2, <2>1, <2>3, <2>4 DEF TypeOK
  <2>7. OpsOK'
    BY <1>1, <2>1, <2>3, <2>4, Busy, OpFacts DEF OpsOK, On
  <2>8. RecordsOK'
    BY <1>1, <2>2, <2>4 DEF RecordsOK, NoBlob
  <2>9. PoolsOK'
    BY <2>3, <2>4 DEF PoolsOK, InMap, RecordsOK
  <2>10. GcOK'
    BY <1>1, <1>2, <2>1, <2>2, <2>3 DEF GcOK, Working
  <2>11. SizesOK'
    BY <1>1, <2>1, <2>4 DEF SizesOK, Doing, On
  <2>12. RoutesOK'
    BY <1>1, <2>3, <2>4 DEF RoutesOK, RecordsOK, Clean, Usable, UserExist, BlobValid, Doing, On
  <2>13. StatusOK'
    <3> SUFFICES ASSUME NEW c \in Blobs, Clean(c)
                 PROVE  /\ Recovered(c)'.status = blob'[c].status
                        /\ InMap(blob'[c]) =>
                           /\ userKV[blob'[c].user].status = "created" => UserExist(blob'[c].user)
                           /\ poolKV'[blob'[c].pool] = "created" => pool'[blob'[c].pool] = "created"
      BY <1>1, <2>2 DEF StatusOK, Erasing, UserExist, Clean
    <3>1. Recovered(c).status = blob[c].status
      BY <1>1 DEF StatusOK, Erasing
    <3>2. CASE blob[c].pool = p
      <4>1. blob[c].status # "none" /\ blobKV[c].status \in {"created", "deleted", "gone"} /\ blobKV[c].pool = p
        BY <2>2, <3>2, BlobFacts DEF RecordsOK, NoBlob, Statuses
      <4>2. Recovered(c)'.status = "gone"
        <5>1. CASE InMap(blobKV[c])
          <6>1. Recovered(c)' = [blobKV[c] EXCEPT !.status = "gone"]
            BY <1>1, <4>1, <5>1, <2>3 DEF Recovered, Gone
          <6> QED
            BY <6>1, BlobFacts DEF BlobRecs
        <5>2. CASE ~ InMap(blobKV[c])
          BY <1>1, <4>1, <5>2 DEF Recovered, InMap
        <5> QED
          BY <5>1, <5>2
      <4> QED
        BY <4>2, <3>2, <2>4 DEF InMap
    <3>3. CASE blob[c].pool # p
      <4>1. CASE blob[c].status = "none"
        BY <4>1, <3>3, <1>1, <2>4 DEF Recovered, RecordsOK, InMap, NoBlob
      <4>2. CASE blob[c].status # "none"
        <5>1. blob[c].pool \in Pools /\ blobKV[c].pool = blob[c].pool
          BY <4>2 DEF RecordsOK
        <5>2. Recovered(c)' = Recovered(c)
          BY <5>1, <3>3, <1>1, <2>3 DEF Recovered
        <5> QED
          BY <3>1, <3>3, <5>1, <5>2, <2>3, <2>4 DEF StatusOK
      <4> QED
        BY <4>1, <4>2
    <3> QED
      BY <3>2, <3>3
  <2>14. KeptOK'
    BY <1>1, <2>2, <2>4 DEF KeptOK, Erasing, InMap
  <2>15. WalkOK'
    BY <2>2 DEF WalkOK, Working
  <2>16. LeakOK'
    BY <1>1, <2>2, <2>3, <2>4, ExtentFacts DEF LeakOK, Working, Clean, TypeOK, RecordsOK
  <2>17. UsersOK'
    BY <1>1, <1>2, <2>2, <2>4 DEF UsersOK, UsersInv, Clean, Doing, On, Working, InMap
  <2> QED
    BY <1>1, <2>5, <2>6, <2>7, <2>8, <2>9, <2>10, <2>11, <2>12, <2>13, <2>14, <2>15, <2>16, <2>17,
       RoutedWithinFrame, RoutersHaveBlobFrame
<1> QED
  BY <1>3, <1>4

(* A blob that could not be deleted: the walk is given up.                 *)
LEMMA BlobFailedInv ==
  ASSUME TypeOK, GcOK, UsersOK, BlobFailed, Working,
         UNCHANGED <<user, pool, blob, op, troubled, overtaken>>
  PROVE  /\ gc' \in GcRecs /\ gc'.pc = "blobs" /\ GcOK' /\ UsersOK' /\ WalkOK'
<1>1. /\ gc' \in GcRecs /\ gc'.pc = "blobs" /\ gc'.phase = gc.phase /\ gc'.todo = gc.todo
      /\ gc'.item = gc.item /\ gc'.remote = gc.remote /\ gc'.blobs = gc.blobs /\ ~ gc'.success
  <2>1. gc \in GcRecs
    BY DEF TypeOK
  <2> QED
    BY <2>1 DEF GcRecs, BlobFailed
<1>2. GcOK'
  BY <1>1 DEF GcOK, Working, Usable, UserExist, BlobValid
<1>3. UsersOK'
  BY <1>1 DEF UsersOK, UsersInv, Clean, Doing, On, Working
<1>4. WalkOK'
  BY <1>1 DEF WalkOK, Working
<1> QED
  BY <1>1, <1>2, <1>3, <1>4

(* The lookup caches a router that exists.                                 *)
LEMMA GcDeleteBlocksInv ==
  ASSUME Inv, GcDeleteBlocks
  PROVE  Inv'
<1> USE DEF Inv
<1>1. /\ gc.pc = "extent" /\ gc.idx <= gc.last /\ gc.remote /\ Working
      /\ cache' = cache \/ (<<gc.blob, gc.idx>> \in routers \cup cache /\ cache' = cache \cup {<<gc.blob, gc.idx>>})
      /\ UNCHANGED <<user, userKV, pool, poolKV, blob, blobKV, routers, filling, known, held,
                     op, acked, troubled, overtaken>>
  BY DEF GcDeleteBlocks, GcExtent, meta, history, Working
<1>2. Grows
  BY <1>1 DEF Grows
<1>3. gc' = [gc EXCEPT !.pc = "reclaim"] \/ BlobFailed
  BY DEF GcDeleteBlocks
<1>4. /\ gc' \in GcRecs /\ gc'.pc \in {"reclaim", "blobs"} /\ GcOK' /\ UsersOK' /\ WalkOK' /\ LeakOK'
  <2>1. CASE gc' = [gc EXCEPT !.pc = "reclaim"]
    <3>1. /\ gc' \in GcRecs /\ gc'.pc = "reclaim" /\ gc'.phase = gc.phase /\ gc'.todo = gc.todo
          /\ gc'.item = gc.item /\ gc'.pools = gc.pools /\ gc'.remote = gc.remote /\ gc'.blobs = gc.blobs
          /\ gc'.success = gc.success /\ gc'.blob = gc.blob /\ gc'.idx = gc.idx /\ gc'.last = gc.last
      BY <2>1 DEF TypeOK, GcRecs
    <3>2. GcOK'
      BY <1>1, <3>1 DEF GcOK, Working, Usable, UserExist, BlobValid
    <3>3. UsersOK'
      BY <1>1, <3>1 DEF UsersOK, UsersInv, Clean, Doing, On, Working
    <3>4. WalkOK' /\ LeakOK'
      BY <1>1, <3>1 DEF WalkOK, LeakOK, Working, Clean
    <3> QED
      BY <3>1, <3>2, <3>3, <3>4
  <2>2. CASE BlobFailed
    <3>1. gc' \in GcRecs /\ gc'.pc = "blobs" /\ GcOK' /\ UsersOK' /\ WalkOK'
      BY <2>2, <1>1, BlobFailedInv
    <3>2. LeakOK'
      BY <3>1, <1>1 DEF LeakOK, Working, Clean
    <3> QED
      BY <3>1, <3>2
  <2> QED
    BY <1>3, <2>1, <2>2
<1>5. TypeOK'
  BY <1>1, <1>4 DEF TypeOK
<1>6. RoutedWithin'
  BY <1>1 DEF RoutedWithin
<1>7. StatusOK'
  BY <1>1, <1>4 DEF StatusOK, Clean, Recovered, Erasing, Doing, On, UserExist
<1>8. KeptOK'
  BY <1>1, <1>4 DEF KeptOK, Erasing
<1> QED
  BY <1>1, <1>2, <1>4, <1>5, <1>6, <1>7, <1>8, OpsOKFrame, RecordsOKFrame, PoolsOKFrame,
     SizesOKFrame,
     RoutesOKFrame, RoutersHaveBlobFrame

(* After reclaimExtent no replica holds the extent.                        *)
LEMMA GcReclaimInv ==
  ASSUME Inv, GcReclaim
  PROVE  Inv'
<1> USE DEF Inv
<1>1. /\ gc.pc = "reclaim" /\ gc.idx <= gc.last /\ gc.remote /\ Working
      /\ UNCHANGED <<user, userKV, pool, poolKV, blob, blobKV, routers, cache, filling, known,
                     op, acked, troubled, overtaken>>
  BY DEF GcReclaim, meta, history, Working, GcOK
<1>2. PICK S \in SUBSET Replicas :
        /\ held' = [n \in Replicas |-> IF n \in S THEN held[n] \ {<<gc.blob, gc.idx>>} ELSE held[n]]
        /\ \/ S = Replicas /\ gc' = [gc EXCEPT !.pc = "router"]
           \/ BlobFailed
  BY DEF GcReclaim, GcExtent
<1>3. \A n \in Replicas : held'[n] \subseteq held[n]
  BY <1>2
<1>4. Grows
  BY <1>1 DEF Grows
<1>5. /\ gc' \in GcRecs /\ gc'.pc \in {"router", "blobs"} /\ GcOK' /\ UsersOK' /\ WalkOK' /\ LeakOK'
  <2>1. CASE S = Replicas /\ gc' = [gc EXCEPT !.pc = "router"]
    <3>1. /\ gc' \in GcRecs /\ gc'.pc = "router" /\ gc'.phase = gc.phase /\ gc'.todo = gc.todo
          /\ gc'.item = gc.item /\ gc'.pools = gc.pools /\ gc'.remote = gc.remote /\ gc'.blobs = gc.blobs
          /\ gc'.success = gc.success /\ gc'.blob = gc.blob /\ gc'.idx = gc.idx /\ gc'.last = gc.last
      BY <2>1 DEF TypeOK, GcRecs
    <3>2. GcOK'
      BY <1>1, <3>1 DEF GcOK, Working, Usable, UserExist, BlobValid
    <3>3. UsersOK'
      BY <1>1, <3>1 DEF UsersOK, UsersInv, Clean, Doing, On, Working
    <3>4. WalkOK'
      BY <1>1, <3>1 DEF WalkOK, Working
    <3>5. LeakOK'
      <4>1. \A n \in Replicas : \A e \in held'[n] : e \in held[n] /\ (e[1] = gc.blob => e[2] # gc.idx)
        <5> SUFFICES ASSUME NEW n \in Replicas, NEW e \in held'[n]
                     PROVE  e \in held[n] /\ (e[1] = gc.blob => e[2] # gc.idx)
          OBVIOUS
        <5>1. e \in held[n] /\ e # <<gc.blob, gc.idx>>
          BY <1>2, <2>1
        <5>2. e = <<e[1], e[2]>>
          BY <5>1, ExtentFacts DEF TypeOK
        <5> QED
          BY <5>1, <5>2
      <4> QED
        BY <4>1, <1>1, <3>1 DEF LeakOK, Working, Clean
    <3> QED
      BY <3>1, <3>2, <3>3, <3>4, <3>5
  <2>2. CASE BlobFailed
    <3>1. gc' \in GcRecs /\ gc'.pc = "blobs" /\ GcOK' /\ UsersOK' /\ WalkOK'
      BY <2>2, <1>1, BlobFailedInv
    <3>2. LeakOK'
      BY <3>1, <1>1, <1>3 DEF LeakOK, Working, Clean
    <3> QED
      BY <3>1, <3>2
  <2> QED
    BY <1>2, <2>1, <2>2
<1>6. TypeOK'
  BY <1>1, <1>2, <1>5 DEF TypeOK
<1>7. RoutedWithin'
  BY <1>1, <1>3 DEF RoutedWithin
<1>8. StatusOK'
  BY <1>1, <1>5 DEF StatusOK, Clean, Recovered, Erasing, Doing, On, UserExist
<1>9. KeptOK'
  BY <1>1, <1>5 DEF KeptOK, Erasing
<1> QED
  BY <1>1, <1>4, <1>5, <1>6, <1>7, <1>8, <1>9, OpsOKFrame, RecordsOKFrame, PoolsOKFrame,
     SizesOKFrame,
     RoutesOKFrame, RoutersHaveBlobFrame

(* The walk moves on by one extent, without router and without space.      *)
LEMMA GcDeleteRouterInv ==
  ASSUME Inv, GcDeleteRouter
  PROVE  Inv'
<1> USE DEF Inv
<1>0. PICK b, i : b = gc.blob /\ i = gc.idx
  OBVIOUS
<1>1. /\ gc.pc \in {"router", "extent"} /\ i <= gc.last /\ Working
      /\ gc.pc = "extent" => ~ gc.remote
      /\ UNCHANGED <<user, userKV, pool, poolKV, blob, blobKV, filling, known, held,
                     op, acked, troubled, overtaken>>
  BY <1>0 DEF GcDeleteRouter, meta, history, Working, GcOK
<1>2. /\ b \in Blobs /\ i \in Nat /\ gc.last \in Nat /\ gc.last <= MaxSize /\ i >= 1
      /\ ~ Usable(b)
  BY <1>0, <1>1, ConstantsAssumption DEF GcOK, TypeOK, GcRecs
<1>3. Grows
  BY <1>1 DEF Grows
<1>4. CASE BlobFailed /\ routers' = routers /\ cache' = cache
  <2>1. gc' \in GcRecs /\ gc'.pc = "blobs" /\ GcOK' /\ UsersOK' /\ WalkOK'
    BY <1>4, <1>1, BlobFailedInv
  <2> QED
    BY <1>1, <1>4, <2>1, GcBetween
<1>5. CASE ~ (BlobFailed /\ routers' = routers /\ cache' = cache)
  <2>1. /\ routers' = routers \ {<<b, i>>} /\ cache' = cache \ {<<b, i>>}
        /\ gc' = [gc EXCEPT !.pc = "extent", !.idx = i + 1]
    BY <1>0, <1>5, <1>1 DEF GcDeleteRouter, GcExtent, TypeOK, GcRecs
  <2>2. /\ gc' \in GcRecs /\ gc'.pc = "extent" /\ gc'.phase = gc.phase /\ gc'.todo = gc.todo
        /\ gc'.item = gc.item /\ gc'.pools = gc.pools /\ gc'.remote = gc.remote /\ gc'.blobs = gc.blobs
        /\ gc'.success = gc.success /\ gc'.blob = b /\ gc'.idx = i + 1 /\ gc'.last = gc.last
    <3>1. gc \in GcRecs /\ i + 1 \in 0..MaxSize + 1
      BY <1>1, <1>2, ConstantsAssumption DEF TypeOK
    <3> QED
      BY <2>1, <3>1, <1>0 DEF GcRecs
  <2>3. GcOK'
    BY <1>0, <1>1, <1>2, <2>2 DEF GcOK, Working, Usable, UserExist, BlobValid
  <2>4. UsersOK'
    BY <1>0, <1>1, <2>2 DEF UsersOK, UsersInv, Clean, Doing, On, Working
  <2>5. ASSUME NEW e \in Extents, e[1] = b, e[2] >= i, e # <<b, i>>
        PROVE  e[2] >= i + 1
    BY <2>5, <1>2, ExtentFacts
  <2>6. WalkOK'
    <3>1. \A e \in routers' : e \in routers /\ e \in Extents /\ e # <<b, i>>
      BY <2>1 DEF TypeOK
    <3> QED
      BY <1>0, <1>1, <2>2, <2>5, <3>1 DEF WalkOK, Working
  <2>7. LeakOK'
    <3>1. \A n \in Replicas : \A e \in held[n] : e \in Extents /\ (e[2] # i => e # <<b, i>>)
      BY DEF TypeOK
    <3> QED
      BY <1>0, <1>1, <2>2, <2>5, <3>1 DEF LeakOK, Working, Clean
  <2>8. TypeOK'
    BY <1>1, <2>1, <2>2 DEF TypeOK
  <2>9. RoutedWithin'
    BY <1>1, <2>1 DEF RoutedWithin
  <2>10. RoutesOK'
    BY <1>1, <1>2, <2>1 DEF RoutesOK, Clean, Usable, UserExist, BlobValid, Doing, On
  <2>11. StatusOK'
    BY <1>1, <2>2 DEF StatusOK, Clean, Recovered, Erasing, Doing, On, UserExist
  <2>12. KeptOK'
    BY <1>1, <2>2 DEF KeptOK, Erasing
  <2>13. RoutersHaveBlob'
    BY <1>1, <2>1 DEF RoutersHaveBlob
  <2> QED
    BY <1>1, <1>3, <2>3, <2>4, <2>6, <2>7, <2>8, <2>9, <2>10, <2>11, <2>12, <2>13, OpsOKFrame,
       RecordsOKFrame, PoolsOKFrame, SizesOKFrame
<1> QED
  BY <1>4, <1>5

(* The record goes after the last router.                                  *)
LEMMA GcDeleteRecordInv ==
  ASSUME Inv, GcDeleteRecord
  PROVE  Inv'
<1> USE DEF Inv
<1>0. PICK b : b = gc.blob
  OBVIOUS
<1>1. /\ gc.pc = "extent" /\ gc.idx > gc.last /\ Working
      /\ UNCHANGED <<user, userKV, pool, poolKV, blob, routers, cache, filling, known, held,
                     op, acked, troubled, overtaken>>
  BY DEF GcDeleteRecord, history, Working
<1>2. /\ b \in Blobs /\ gc.idx \in Nat /\ gc.last \in Nat /\ InMap(blob[b]) /\ ~ Usable(b)
  BY <1>0, <1>1, ConstantsAssumption DEF GcOK, TypeOK, GcRecs
<1>3. Grows
  BY <1>1 DEF Grows
<1>4. CASE BlobFailed /\ blobKV' = blobKV
  <2>1. gc' \in GcRecs /\ gc'.pc = "blobs" /\ GcOK' /\ UsersOK' /\ WalkOK'
    BY <1>4, <1>1, BlobFailedInv
  <2> QED
    BY <1>1, <1>4, <2>1, GcBetween
<1>5. CASE ~ (BlobFailed /\ blobKV' = blobKV)
  <2>1. blobKV' = [blobKV EXCEPT ![b] = Gone(@)] /\ gc' = [gc EXCEPT !.pc = "erase"]
    BY <1>0, <1>5 DEF GcDeleteRecord
  <2>2. /\ gc' \in GcRecs /\ gc'.pc = "erase" /\ gc'.phase = gc.phase /\ gc'.todo = gc.todo
        /\ gc'.item = gc.item /\ gc'.pools = gc.pools /\ gc'.remote = gc.remote /\ gc'.blobs = gc.blobs
        /\ gc'.success = gc.success /\ gc'.blob = b /\ gc'.idx = gc.idx /\ gc'.last = gc.last
    BY <2>1, <1>0 DEF TypeOK, GcRecs
  <2>3. /\ blobKV'[b] \in BlobRecs /\ blobKV'[b].status = "gone" /\ blobKV'[b].size = blobKV[b].size
        /\ blobKV'[b].user = blobKV[b].user /\ blobKV'[b].pool = blobKV[b].pool
    <3>1. blobKV'[b] = [blobKV[b] EXCEPT !.status = "gone"] /\ blobKV[b] \in BlobRecs
      BY <2>1, <1>2 DEF Gone, TypeOK
    <3> QED
      BY <3>1 DEF BlobRecs, Statuses
  <2>4. \A c \in Blobs : c # b => blobKV'[c] = blobKV[c]
    BY <2>1, <1>2 DEF TypeOK
  <2>5. GcOK'
    BY <1>0, <1>1, <1>2, <2>2 DEF GcOK, Working, Usable, UserExist, BlobValid
  <2>6. UsersOK'
    BY <1>0, <1>1, <2>2 DEF UsersOK, UsersInv, Clean, Doing, On, Working
  <2>7. WalkOK'
    BY <1>0, <1>1, <2>2, <2>3 DEF WalkOK, Working
  <2>8. LeakOK'
    BY <1>0, <1>1, <2>2 DEF LeakOK, Working, Clean
  <2>9. TypeOK'
    <3>1. blobKV' = [blobKV EXCEPT ![b] = blobKV'[b]]
      BY <2>1, <1>2 DEF TypeOK
    <3>2. blobKV' \in [Blobs -> BlobRecs]
      BY <3>1, <2>3, <1>2 DEF TypeOK
    <3> QED
      BY <1>1, <2>2, <3>2 DEF TypeOK
  <2>10. RecordsOK'
    BY <1>1, <1>2, <2>3, <2>4 DEF RecordsOK, InMap
  <2>11. \A c \in Blobs : blobKV'[c].size = blobKV[c].size
    BY <2>3, <2>4
  <2>12. SizesOK'
    BY <1>1, <2>11 DEF SizesOK, Doing, On
  <2>13. RoutedWithin'
    BY <1>1, <2>11, ExtentFacts DEF RoutedWithin, TypeOK
  <2>14. RoutesOK'
    BY <1>1, <2>11 DEF RoutesOK, Clean, Usable, UserExist, BlobValid, Doing, On
  <2>15. StatusOK'
    <3>1. \A c \in Blobs : c # b => Recovered(c)' = Recovered(c)
      BY <1>1, <2>4 DEF Recovered
    <3> QED
      BY <1>0, <1>1, <2>2, <2>3, <2>4, <3>1 DEF StatusOK, Clean, Erasing, Doing, On, UserExist
  <2>16. KeptOK'
    BY <1>0, <1>1, <2>2, <2>4 DEF KeptOK, Erasing
  <2>17. RoutersHaveBlob'
    <3> SUFFICES ASSUME NEW e \in routers, e[1] \notin overtaken
                 PROVE  InMap(blobKV'[e[1]])
      BY <1>1 DEF RoutersHaveBlob
    <3>1. e[1] \in Blobs /\ e[2] \in Nat /\ InMap(blobKV[e[1]]) /\ e[2] <= blobKV[e[1]].size
      BY ExtentFacts DEF TypeOK, RoutersHaveBlob, RoutedWithin
    <3>2. e[1] # b
      BY <3>1, <1>0, <1>1, <1>2, BlobFacts DEF WalkOK
    <3> QED
      BY <3>1, <3>2, <2>4
  <2> QED
    BY <1>1, <1>3, <2>5, <2>6, <2>7, <2>8, <2>9, <2>10, <2>12, <2>13, <2>14, <2>15, <2>16, <2>17,
       OpsOKFrame, PoolsOKFrame
<1> QED
  BY <1>4, <1>5

(* What the extent servers still hold of the blob whose record the         *)
(* collector has deleted is in a pool that is going too.                   *)
LEMMA ErasedIsReclaimed ==
  ASSUME Inv, NEW b \in Blobs, Clean(b), Erasing(b), NEW n \in Replicas, NEW e \in held[n], e[1] = b
  PROVE  poolKV[blob[b].pool] # "created"
<1> USE DEF Inv
<1>1. gc.pc = "erase" /\ gc.blob = b /\ Working /\ InMap(blob[b])
  BY DEF Erasing, Working, GcOK
<1>2. e[2] <= blobKV[b].size /\ blobKV[b].size <= gc.last /\ gc.idx > gc.last
  BY <1>1 DEF RoutedWithin, WalkOK, GcOK, Clean
<1>3. e[2] \in Nat /\ gc.idx \in Nat /\ gc.last \in Nat /\ blobKV[b].size \in Nat
  BY ExtentFacts, BlobFacts, ConstantsAssumption DEF TypeOK, GcRecs
<1>4. ~ gc.remote
  BY <1>1, <1>2, <1>3 DEF LeakOK
<1>5. pool[blob[b].pool] # "created"
  BY <1>1, <1>4 DEF GcOK
<1> QED
  BY <1>1, <1>5 DEF StatusOK

(* The map entry goes after the record.                                    *)
LEMMA GcEraseBlobInv ==
  ASSUME Inv, GcEraseBlob
  PROVE  Inv'
<1> USE DEF Inv
<1>0. PICK b : b = gc.blob
  OBVIOUS
<1>1. /\ gc.pc = "erase" /\ Resizing(b) = {} /\ Working
      /\ blob' = [blob EXCEPT ![b] = Gone(@)]
      /\ gc' = [gc EXCEPT !.pc = "blobs"]
      /\ overtaken' = IF Serving(b) = {} THEN overtaken ELSE overtaken \cup {b}
      /\ UNCHANGED <<user, userKV, pool, poolKV, blobKV, routers, cache, filling, known, held, op,
                     acked, troubled>>
  BY <1>0 DEF GcEraseBlob, Overtake, Working
<1>2. b \in Blobs /\ InMap(blob[b]) /\ ~ Usable(b) /\ Erasing(b)
  BY <1>0, <1>1 DEF GcOK, Erasing
<1>3. /\ gc' \in GcRecs /\ gc'.pc = "blobs" /\ gc'.phase = gc.phase /\ gc'.todo = gc.todo
      /\ gc'.item = gc.item /\ gc'.pools = gc.pools /\ gc'.remote = gc.remote /\ gc'.blobs = gc.blobs
      /\ gc'.success = gc.success /\ gc'.blob = b
  BY <1>1, <1>0 DEF TypeOK, GcRecs
<1>4. /\ blob'[b] \in BlobRecs /\ blob'[b].status = "gone" /\ blob'[b].size = blob[b].size
      /\ blob'[b].user = blob[b].user /\ blob'[b].pool = blob[b].pool
  <2>1. blob'[b] = [blob[b] EXCEPT !.status = "gone"] /\ blob[b] \in BlobRecs
    BY <1>1, <1>2 DEF Gone, TypeOK
  <2> QED
    BY <2>1 DEF BlobRecs, Statuses
<1>5. \A c \in Blobs : c # b => blob'[c] = blob[c]
  BY <1>1, <1>2 DEF TypeOK
<1>6. \A t \in Threads : ~ Doing(t, b, {"create", "set", "put"})
  <2>1. \A t \in Threads : ~ Doing(t, b, {"set", "put"})
    BY <1>1 DEF Resizing, Serving, Doing, On
  <2>2. \A t \in Threads : ~ Doing(t, b, {"create"})
    BY <1>2 DEF OpsOK, Doing, On, NoBlob, InMap
  <2> QED
    BY <2>1, <2>2 DEF Doing
<1>7. Grows
  BY <1>1 DEF Grows
<1>8. TypeOK'
  <2>1. blob' = [blob EXCEPT ![b] = blob'[b]]
    BY <1>1, <1>2 DEF TypeOK
  <2>2. blob' \in [Blobs -> BlobRecs]
    BY <2>1, <1>2, <1>4 DEF TypeOK
  <2>3. overtaken' \subseteq Blobs
    BY <1>1, <1>2 DEF TypeOK
  <2> QED
    BY <1>1, <1>3, <2>2, <2>3 DEF TypeOK
<1>9. OpsOK'
  BY <1>1, <1>4, <1>5, <1>6, Busy, OpFacts DEF OpsOK, Doing, On
<1>10. RecordsOK'
  BY <1>1, <1>2, <1>4, <1>5 DEF RecordsOK, InMap
<1>11. PoolsOK'
  BY <1>1, <1>4, <1>5 DEF PoolsOK, InMap
<1>12. GcOK'
  <2>1. gc.blobs \subseteq Blobs
    BY DEF TypeOK, GcRecs
  <2>2. \A c \in gc.blobs : /\ blob'[c].status # "none" /\ ~ Usable(c)'
                            /\ ~ gc.remote => pool[blob'[c].pool] # "created"
    BY <1>1, <1>4, <1>5, <2>1 DEF GcOK, Usable, UserExist, BlobValid
  <2> QED
    BY <1>1, <1>3, <2>2 DEF GcOK, Working
<1>13. SizesOK'
  BY <1>1, <1>4, <1>5, <1>6, <1>7 DEF SizesOK, Doing, On, Grows
<1>14. RoutesOK'
  BY <1>1, <1>4, <1>5, <1>7 DEF RoutesOK, Clean, Usable, UserExist, BlobValid, Doing, On, Grows
<1>15. StatusOK'
  <2> SUFFICES ASSUME NEW c \in Blobs, Clean(c)'
               PROVE  /\ Recovered(c).status = blob'[c].status
                      /\ InMap(blob'[c]) =>
                           /\ userKV[blob'[c].user].status = "created" => UserExist(blob'[c].user)
                           /\ poolKV[blob'[c].pool] = "created" => pool[blob'[c].pool] = "created"
    BY <1>1, <1>3 DEF StatusOK, Erasing, UserExist, Recovered
  <2>1. Clean(c)
    BY <1>7 DEF Clean, Grows
  <2>2. CASE c = b
    <3>1. Serving(b) = {}
      BY <2>2, <1>1 DEF Clean
    <3>2. \A t \in Threads : ~ Doing(t, b, {"routers"})
      BY <3>1 DEF Serving, Doing, On
    <3>3. blobKV[b].status = "gone"
      BY <2>1, <2>2, <3>2, <1>2 DEF StatusOK
    <3> QED
      BY <2>2, <3>3, <1>4 DEF Recovered, InMap
  <2>3. CASE c # b
    BY <2>1, <2>3, <1>0, <1>5 DEF StatusOK, Erasing
  <2> QED
    BY <2>2, <2>3
<1>16. KeptOK'
  BY <1>0, <1>1, <1>4, <1>5, <1>7 DEF KeptOK, Erasing, InMap, Grows
<1>17. WalkOK'
  BY <1>3 DEF WalkOK, Working
<1>18. LeakOK'
  <2> SUFFICES ASSUME NEW n \in Replicas, NEW e \in held[n], Clean(e[1])', blob'[e[1]].status = "gone"
               PROVE  poolKV[blob'[e[1]].pool] # "created"
    BY <1>1, <1>3 DEF LeakOK, Working
  <2>1. Clean(e[1]) /\ e[1] \in Blobs
    BY <1>7, ExtentFacts DEF Clean, Grows, TypeOK
  <2>2. CASE e[1] = b
    BY <2>1, <2>2, <1>2, <1>4, ErasedIsReclaimed
  <2>3. CASE e[1] # b
    BY <2>1, <2>3, <1>5 DEF LeakOK
  <2> QED
    BY <2>2, <2>3
<1>19. UsersOK'
  BY <1>0, <1>1, <1>3, <1>4, <1>5, <1>7
     DEF UsersOK, UsersInv, Clean, Doing, On, Working, InMap, Grows
<1> QED
  BY <1>1, <1>7, <1>8, <1>9, <1>10, <1>11, <1>12, <1>13, <1>14, <1>15, <1>16, <1>17, <1>18, <1>19,
     RoutedWithinFrame, RoutersHaveBlobFrame

-----------------------------------------------------------------------------
(* Recovery.                                                               *)

(* What DoRecovery makes of a record.                                      *)
LEMMA RecoveredFacts ==
  ASSUME TypeOK, NEW b \in Blobs
  PROVE  /\ Recovered(b) \in BlobRecs /\ Recovered(b).user = blobKV[b].user
         /\ Recovered(b).pool = blobKV[b].pool /\ Recovered(b).size = blobKV[b].size
         /\ Recovered(b).status = "none" <=> blobKV[b].status = "none"
         /\ InMap(Recovered(b)) <=> InMap(blobKV[b]) /\ poolKV[blobKV[b].pool] # "gone"
         /\ InMap(Recovered(b)) => Recovered(b) = blobKV[b]
         /\ blobKV[b].status = "gone" => Recovered(b).status = "gone"
<1>1. blobKV[b] \in BlobRecs
  BY BlobFacts
<1>2. CASE InMap(blobKV[b]) /\ poolKV[blobKV[b].pool] = "gone"
  <2>1. Recovered(b) = [blobKV[b] EXCEPT !.status = "gone"]
    BY <1>2 DEF Recovered, Gone
  <2>2. /\ Recovered(b) \in BlobRecs /\ Recovered(b).user = blobKV[b].user
        /\ Recovered(b).pool = blobKV[b].pool /\ Recovered(b).size = blobKV[b].size
        /\ Recovered(b).status = "gone"
    BY <1>1, <2>1 DEF BlobRecs, Statuses
  <2> QED
    BY <1>2, <2>2 DEF InMap
<1>3. CASE ~ (InMap(blobKV[b]) /\ poolKV[blobKV[b].pool] = "gone")
  <2>1. Recovered(b) = blobKV[b]
    BY <1>3 DEF Recovered
  <2> QED
    BY <1>1, <1>3, <2>1
<1> QED
  BY <1>2, <1>3

(* A blob that no request was serving recovers its status, unless the      *)
(* collector was about to erase it.                                        *)
LEMMA RecoveredStatus ==
  ASSUME Inv, NEW b \in Blobs, Clean(b), Serving(b) = {}
  PROVE  \/ Recovered(b).status = blob[b].status /\ ~ Erasing(b)
         \/ Recovered(b).status = "gone" /\ Erasing(b)
<1>1. \A t \in Threads : ~ Doing(t, b, {"routers"})
  BY DEF Serving, Doing, On
<1> QED
  BY <1>1, RecoveredFacts DEF Inv, StatusOK

(* Recovery brings back what the maps had.                                 *)
LEMMA CrashRestartInv ==
  ASSUME Inv, CrashRestart
  PROVE  Inv'
<1> USE DEF Inv
<1>1. /\ "crash" \in Faults /\ user' = userKV /\ pool' = poolKV
      /\ blob' = [b \in Blobs |-> Recovered(b)]
      /\ cache' = {} /\ filling' = {} /\ op' = [t \in Threads |-> Idle]
      /\ troubled' = troubled \cup {b \in Blobs : Serving(b) # {}}
      /\ UNCHANGED <<userKV, poolKV, blobKV, routers, known, held, acked, overtaken>>
  BY DEF CrashRestart
<1>2. gc' = GcIdle /\ gc' \in GcRecs
  BY GcIdleRec DEF CrashRestart
<1>3. gc'.pc = "idle" /\ gc'.phase = "pools" /\ gc'.todo = {} /\ gc'.blobs = {}
  BY <1>2 DEF GcIdle
<1>4. \A b \in Blobs : blob'[b] = Recovered(b)
  BY <1>1
<1>5. \A t \in Threads : op'[t] = Idle
  BY <1>1
<1>6. \A b \in Blobs : Clean(b)' => Clean(b) /\ Serving(b) = {}
  BY <1>1 DEF Clean
<1>7. Grows
  BY <1>1 DEF Grows
<1>8. TypeOK'
  <2>1. blob' \in [Blobs -> BlobRecs]
    BY <1>1, RecoveredFacts
  <2>2. op' \in [Threads -> {Idle} \cup OpRecs]
    BY <1>1
  <2>3. troubled' \subseteq Blobs
    BY <1>1 DEF TypeOK
  <2> QED
    BY <1>1, <1>2, <2>1, <2>2, <2>3 DEF TypeOK
<1>9. OpsOK'
  BY <1>5 DEF OpsOK
<1>10. RecordsOK'
  <2> SUFFICES ASSUME NEW b \in Blobs
               PROVE  IF blob'[b].status = "none" THEN blob'[b] = NoBlob /\ blobKV[b] = NoBlob
                      ELSE /\ blobKV[b].status # "none"
                           /\ blob'[b].user \in Users /\ blob'[b].pool \in Pools
                           /\ blobKV[b].user = blob'[b].user /\ blobKV[b].pool = blob'[b].pool
    BY <1>1 DEF RecordsOK
  <2>1. CASE blob'[b].status = "none"
    <3>1. blobKV[b].status = "none"
      BY <2>1, <1>4, RecoveredFacts
    <3>2. blobKV[b] = NoBlob
      BY <3>1 DEF RecordsOK
    <3> QED
      BY <2>1, <3>2, <1>4 DEF Recovered, InMap, NoBlob
  <2>2. CASE blob'[b].status # "none"
    <3>1. blobKV[b].status # "none"
      BY <2>2, <1>4, RecoveredFacts
    <3>2. blob[b].status # "none"
      BY <3>1 DEF RecordsOK, NoBlob
    <3> QED
      BY <2>2, <3>1, <3>2, <1>4, RecoveredFacts DEF RecordsOK
  <2> QED
    BY <2>1, <2>2
<1>11. PoolsOK'
  BY <1>1, <1>4, RecoveredFacts DEF PoolsOK
<1>12. GcOK'
  BY <1>3 DEF GcOK, Working
<1>13. SizesOK'
  BY <1>1, <1>4, <1>5, RecoveredFacts DEF SizesOK, Doing, On
<1>14. RoutedWithin'
  BY <1>1 DEF RoutedWithin
<1>15. RoutesOK'
  <2> SUFFICES ASSUME NEW b \in Blobs, Clean(b)', Usable(b)', NEW i \in 1..blobKV[b].size
               PROVE  <<b, i>> \in routers
    BY <1>1 DEF RoutesOK
  <2>1. Clean(b) /\ Serving(b) = {}
    BY <1>6
  <2>2. Recovered(b).status = "created" /\ Recovered(b) = blobKV[b]
    BY <1>4, RecoveredFacts DEF Usable, BlobValid, InMap
  <2>3. blob[b].status = "created" /\ blobKV[b].user = blob[b].user /\ blobKV[b].pool = blob[b].pool
    BY <2>1, <2>2, RecoveredStatus DEF RecordsOK
  <2>4. userKV[blob[b].user].status = "created" /\ poolKV[blob[b].pool] = "created"
    BY <1>1, <1>4, <2>2, <2>3 DEF Usable, UserExist
  <2>5. Usable(b)
    BY <2>1, <2>3, <2>4 DEF StatusOK, Usable, BlobValid, InMap
  <2>6. \A t \in Threads : ~ On(t, b)
    BY <2>1 DEF Serving, On
  <2> QED
    BY <2>1, <2>5, <2>6 DEF RoutesOK, Doing
<1>16. StatusOK'
  <2>1. \A b \in Blobs : Recovered(b)' = blob'[b]
    BY <1>1, <1>4 DEF Recovered
  <2> QED
    BY <1>1, <1>3, <2>1 DEF StatusOK, Erasing, UserExist
<1>17. KeptOK'
  BY <1>1, <1>4, RecoveredFacts DEF KeptOK
<1>18. WalkOK'
  BY <1>3 DEF WalkOK, Working
<1>19. LeakOK'
  <2> SUFFICES ASSUME NEW n \in Replicas, NEW e \in held[n], Clean(e[1])', blob'[e[1]].status = "gone"
               PROVE  poolKV[blob'[e[1]].pool] # "created"
    BY <1>1, <1>3 DEF LeakOK, Working
  <2>0. e[1] \in Blobs
    BY ExtentFacts DEF TypeOK
  <2>1. Clean(e[1]) /\ Serving(e[1]) = {} /\ Recovered(e[1]).status = "gone"
    BY <1>4, <1>6, <2>0
  <2>2. blobKV[e[1]].status # "none"
    BY <2>0, <2>1, RecoveredFacts
  <2>3. blob[e[1]].status # "none" /\ blob'[e[1]].pool = blob[e[1]].pool
    BY <1>4, <2>0, <2>2, RecoveredFacts DEF RecordsOK, NoBlob
  <2>4. CASE Erasing(e[1])
    BY <2>0, <2>1, <2>3, <2>4, ErasedIsReclaimed
  <2>5. CASE ~ Erasing(e[1])
    <3>1. blob[e[1]].status = "gone"
      BY <2>0, <2>1, <2>5, RecoveredStatus
    <3> QED
      BY <2>1, <2>3, <3>1 DEF LeakOK
  <2> QED
    BY <2>4, <2>5
<1>20. UsersOK'
  BY <1>1 DEF UsersOK
<1> QED
  BY <1>1, <1>7, <1>8, <1>9, <1>10, <1>11, <1>12, <1>13, <1>14, <1>15, <1>16, <1>17, <1>18, <1>19,
     <1>20,
     RoutersHaveBlobFrame

-----------------------------------------------------------------------------
(* The invariant holds at first.                                           *)
LEMMA InitInv ==
  ASSUME Init
  PROVE  Inv
<1>1. /\ user = [u \in Users |-> [status |-> "created", pools |-> {}]] /\ userKV = user
      /\ pool = [p \in Pools |-> "created"] /\ poolKV = pool
      /\ blob = [b \in Blobs |-> NoBlob] /\ blobKV = blob
      /\ routers = {} /\ cache = {} /\ filling = {} /\ known = {}
      /\ held = [n \in Replicas |-> {}]
      /\ op = [t \in Threads |-> Idle]
      /\ acked = [b \in Blobs |-> 0] /\ troubled = {} /\ overtaken = {}
  BY DEF Init
<1>2. gc = GcIdle /\ gc \in GcRecs
  BY GcIdleRec DEF Init
<1>3. gc.pc = "idle" /\ gc.phase = "pools" /\ gc.todo = {} /\ gc.blobs = {}
  BY <1>2 DEF GcIdle
<1>4. \A b \in Blobs : /\ blob[b] = NoBlob /\ blobKV[b] = NoBlob /\ blob[b].size = 0 /\ blobKV[b].size = 0
                       /\ blob[b].status = "none" /\ blobKV[b].status = "none" /\ acked[b] = 0
  BY <1>1 DEF NoBlob
<1>5. \A t \in Threads : op[t] = Idle
  BY <1>1
<1>6. \A n \in Replicas : held[n] = {}
  BY <1>1
<1>7. TypeOK
  <2>1. /\ user \in [Users -> [status : Statuses, pools : SUBSET Pools]]
        /\ userKV \in [Users -> [status : Statuses, pools : SUBSET Pools]]
        /\ pool \in [Pools -> Statuses] /\ poolKV \in [Pools -> Statuses]
    BY <1>1 DEF Statuses
  <2>2. blob \in [Blobs -> BlobRecs] /\ blobKV \in [Blobs -> BlobRecs]
    BY <1>1, NoBlobRec
  <2>3. acked \in [Blobs -> 0..MaxSize]
    BY <1>1, ConstantsAssumption
  <2> QED
    BY <1>1, <1>2, <2>1, <2>2, <2>3 DEF TypeOK
<1>8. OpsOK /\ SizesOK
  BY <1>4, <1>5 DEF OpsOK, SizesOK, Doing, On
<1>9. RecordsOK
  BY <1>4 DEF RecordsOK
<1>10. PoolsOK
  BY <1>1, <1>4 DEF PoolsOK, InMap
<1>11. GcOK /\ WalkOK
  BY <1>3 DEF GcOK, WalkOK, Working
<1>12. RoutedWithin /\ RoutersHaveBlob /\ LeakOK
  BY <1>1, <1>6 DEF RoutedWithin, RoutersHaveBlob, LeakOK
<1>13. RoutesOK /\ KeptOK
  BY <1>4 DEF RoutesOK, KeptOK, Usable, BlobValid, InMap
<1>14. StatusOK
  BY <1>3, <1>4 DEF StatusOK, Recovered, Erasing, InMap
<1>15. UsersOK
  BY <1>4 DEF UsersOK, UsersInv, InMap
<1> QED
  BY <1>7, <1>8, <1>9, <1>10, <1>11, <1>12, <1>13, <1>14, <1>15 DEF Inv

(* Each action keeps the invariant.                                        *)
LEMMA NextInv ==
  ASSUME Inv, [Next]_vars
  PROVE  Inv'
<1>1. CASE UNCHANGED vars
  <2>1. UNCHANGED <<user, userKV, pool, poolKV, blob, blobKV, routers, cache, filling, known, held, op,
                    gc, acked, troubled, overtaken>>
    BY <1>1 DEF vars, meta, history
  <2>2. Grows /\ TypeOK'
    BY <2>1 DEF Grows, TypeOK, Inv
  <2> QED
    BY <2>1, <2>2, OpsOKFrame, RecordsOKFrame, PoolsOKFrame, GcOKFrame, SizesOKFrame,
       RoutedWithinFrame,
       RoutesOKFrame, StatusOKFrame, KeptOKFrame, RoutersHaveBlobFrame, WalkOKFrame, LeakOKFrame,
       UsersOKFrame DEF Inv
<1>2. ASSUME NEW t \in Threads, Request(t)
      PROVE  Inv'
  BY <1>2, CreateBlobInv, ResizeBlobInv, PersistBlobInv, AddPoolInv, PutRoutersInv,
     PutRoutersFailsInv,
     SetSizeInv, PersistSizeInv, PersistSizeFailsInv DEF Request
<1>3. ASSUME NEW b \in Blobs, DeleteBlob(b)
      PROVE  Inv'
  BY <1>3, DeleteBlobInv
<1>4. ASSUME NEW u \in Users, DeleteUser(u) \/ UpdateUser(u)
      PROVE  Inv'
  BY <1>4, DeleteUserInv, UpdateUserInv
<1>5. ASSUME NEW p \in Pools, DeletePool(p)
      PROVE  Inv'
  BY <1>5, DeletePoolInv
<1>6. ASSUME NEW e \in Extents, QueryRouter(e) \/ PutInCache(e) \/ Write(e)
      PROVE  Inv'
  BY <1>6, QueryRouterInv, PutInCacheInv, WriteInv
<1>7. CASE Gc
  BY <1>7, GcNextPhaseInv, GcTakePoolInv, GcUserPoolInv, GcTakeUserInv, GcTakeBlobInv, GcUserEndInv,
     GcOutOfHoursInv, GcBlobsEndInv, GcDeleteBlocksInv, GcReclaimInv, GcDeleteRouterInv,
     GcDeleteRecordInv, GcEraseBlobInv DEF Gc
<1> QED
  BY <1>1, <1>2, <1>3, <1>4, <1>5, <1>6, <1>7, GcStartInv, CrashRestartInv DEF Next

-----------------------------------------------------------------------------
(* The inductive invariant holds in every state, for any faults.           *)
THEOREM BlobInvariance == Spec => []Inv
BY InitInv, NextInv, PTL DEF Spec

(* No router that a client was promised is missing once its requests are   *)
(* answered, and no router in RocksDB is out of gc()'s reach: create_router *)
(* and deleteOneBlob never cut each other short, whatever fails.           *)
THEOREM RoutersFollowBlobs == Spec => []RoutersMatchBlobs
<1>1. ASSUME Inv
      PROVE  AckedExtentsRouted
  <2> SUFFICES ASSUME NEW b \in Blobs \ (troubled \cup overtaken), Usable(b), Serving(b) = {},
                      NEW i \in 1..acked[b]
               PROVE  <<b, i>> \in routers
    BY DEF AckedExtentsRouted
  <2>1. Clean(b) /\ \A t \in Threads : ~ On(t, b)
    BY DEF Clean, Serving, On
  <2>2. acked[b] <= blobKV[b].size
    BY <1>1 DEF Inv, SizesOK
  <2>3. i \in 1..blobKV[b].size
    BY <1>1, <2>2, BlobFacts DEF Inv
  <2> QED
    BY <1>1, <2>1, <2>3 DEF Inv, RoutesOK, Doing
<1>2. Inv => RoutersMatchBlobs
  BY <1>1 DEF Inv, RoutersMatchBlobs
<1> QED
  BY <1>2, BlobInvariance, PTL

(* Between requests a restart would load exactly the blob maps: every      *)
(* change that BlobManager makes to size_ or status_ is in RocksDB.        *)
THEOREM MapsAreStored == Spec => []StoreFollowsMap
<1>1. ASSUME Inv
      PROVE  StoreFollowsMap
  <2> SUFFICES ASSUME NEW b \in Blobs \ (troubled \cup overtaken), Resizing(b) = {}, ~ Erasing(b)
               PROVE  blob[b] = Recovered(b)
    BY DEF StoreFollowsMap
  <2>1. Clean(b) /\ \A t \in Threads : ~ Doing(t, b, {"put"})
    BY DEF Clean, Resizing, Serving, Doing, On
  <2>2. Recovered(b).status = blob[b].status /\ blobKV[b].size = blob[b].size
    BY <1>1, <2>1 DEF Inv, StatusOK, SizesOK
  <2>3. blobKV[b].user = blob[b].user /\ blobKV[b].pool = blob[b].pool
    BY <1>1 DEF Inv, RecordsOK
  <2>4. /\ Recovered(b) \in BlobRecs /\ Recovered(b).user = blob[b].user
        /\ Recovered(b).pool = blob[b].pool /\ Recovered(b).size = blob[b].size
    BY <1>1, <2>2, <2>3, RecoveredFacts DEF Inv
  <2>5. blob[b] \in BlobRecs
    BY <1>1, BlobFacts DEF Inv
  <2> QED
    BY <2>2, <2>4, <2>5 DEF BlobRecs
<1> QED
  BY <1>1, BlobInvariance, PTL

(* When the collector has removed a blob of an enabled pool, no extent     *)
(* server has space allocated for it any more.                             *)
THEOREM SpaceReclaimed == Spec => []NoLeakedExtents
<1>1. ASSUME Inv
      PROVE  NoLeakedExtents
  <2> SUFFICES ASSUME NEW n \in Replicas, NEW e \in held[n], blob[e[1]].status = "gone",
                      pool[blob[e[1]].pool] = "created", Clean(e[1])
               PROVE  FALSE
    BY DEF NoLeakedExtents, Clean
  <2>1. e[1] \in Blobs
    BY <1>1, ExtentFacts DEF Inv, TypeOK
  <2>2. blob[e[1]].pool \in Pools
    BY <1>1, <2>1 DEF Inv, RecordsOK
  <2> QED
    BY <1>1, <2>2 DEF Inv, LeakOK, PoolsOK
<1> QED
  BY <1>1, BlobInvariance, PTL

(* Without a crash delete_user only removes a user none of whose blobs is  *)
(* left: the pools that add_pool put in the user map cover them all.       *)
THEOREM UsersGoLast ==
  ASSUME "crash" \notin Faults
  PROVE  Spec => []UserBlobsGone
<1>1. ASSUME Inv
      PROVE  UserBlobsGone
  <2> SUFFICES ASSUME NEW b \in Blobs \ (troubled \cup overtaken), InMap(blob[b]), Serving(b) = {}
               PROVE  user[blob[b].user].status # "gone"
    BY DEF UserBlobsGone
  <2>1. Clean(b) /\ \A t \in Threads : ~ Doing(t, b, {"pool"})
    BY DEF Clean, Serving, Doing, On
  <2> QED
    BY <1>1, <2>1 DEF Inv, UsersOK, UsersInv
<1> QED
  BY <1>1, BlobInvariance, PTL

(* What clients were told of blobs holds with any number of threads that   *)
(* serve requests beside the collector, and whatever fails: acknowledged   *)
(* extents have their routers, and map and RocksDB agree.                  *)
THEOREM AnswersKept == Spec => []AnswersHold
<1>1. RoutersMatchBlobs /\ StoreFollowsMap => AnswersHold
  BY DEF RoutersMatchBlobs, AnswersHold
<1> QED
  BY <1>1, RoutersFollowBlobs, MapsAreStored, PTL

(* Without a crash gc() removes space, routers, blobs and users in this    *)
(* order, with any number of pools and replicas and when calls to extent   *)
(* servers are lost.                                                       *)
THEOREM CollectedInOrder ==
  ASSUME "crash" \notin Faults
  PROVE  Spec => []RemovedInOrder
<1>1. RoutersMatchBlobs /\ NoLeakedExtents /\ UserBlobsGone => RemovedInOrder
  BY DEF RoutersMatchBlobs, RemovedInOrder
<1> QED
  BY <1>1, RoutersFollowBlobs, SpaceReclaimed, UsersGoLast, PTL

(* A deleted blob does not come back and a removed one does not either:    *)
(* the status only ever moves forward, recovery from RocksDB included.     *)
THEOREM DeletedStaysDeleted == Spec => DeletionIsFinal
<1>1. ASSUME Inv, NEW b \in Blobs
      PROVE  /\ blob'[b].status = blob[b].status => Rank(blob'[b]) >= Rank(blob[b])
             /\ blob'[b].status = "gone" => Rank(blob'[b]) >= Rank(blob[b])
             /\ blob[b].status = "none" => Rank(blob'[b]) >= Rank(blob[b])
             /\ blob[b].status = "created" /\ blob'[b].status = "deleted" => Rank(blob'[b]) >= Rank(blob[b])
  BY DEF Rank
<1>2. ASSUME Inv, [Next]_vars
      PROVE  [NoneComesBack]_vars
  <2>0. SUFFICES ASSUME NEW b \in Blobs, b \notin (troubled \cup overtaken)'
                 PROVE  \/ blob'[b].status = blob[b].status \/ blob'[b].status = "gone"
                        \/ blob[b].status = "none"
                        \/ blob[b].status = "created" /\ blob'[b].status = "deleted"
    BY <1>1, <1>2 DEF NoneComesBack
  <2>1. CASE UNCHANGED blob
    BY <2>1
  <2>3. ASSUME NEW t \in Threads, Request(t)
        PROVE  blob'[b].status = blob[b].status \/ blob[b].status = "none"
    <3>1. CASE PersistBlob(t)
      <4>1. op[t] \in OpRecs
        BY <3>1, <1>2, Busy, IdlePC DEF PersistBlob, Inv
      <4>2. op[t] # Idle /\ op[t].blob \in Blobs /\ op[t].pc = "create"
        BY <3>1, <4>1, OpFacts DEF PersistBlob
      <4>3. blob[op[t].blob].status = "none"
        BY <4>2, <1>2 DEF Inv, OpsOK, NoBlob
      <4> QED
        BY <3>1, <4>2, <4>3, <1>2 DEF PersistBlob, Inv, TypeOK
    <3>2. CASE SetSize(t)
      <4>1. op[t] \in OpRecs
        BY <3>2, <1>2, Busy, IdlePC DEF SetSize, Inv
      <4>2. PICK c \in Blobs : c = op[t].blob
        BY <4>1, OpFacts
      <4>3. blob' = [blob EXCEPT ![c].size = op[t].to]
        BY <3>2, <4>2 DEF SetSize
      <4> QED
        BY <4>3, <1>2, BlobFacts DEF Inv, TypeOK, BlobRecs
    <3>3. CASE PersistSizeFails(t)
      <4>1. op[t] \in OpRecs
        BY <3>3, <1>2, Busy, IdlePC DEF PersistSizeFails, Inv
      <4>2. PICK c \in Blobs : c = op[t].blob
        BY <4>1, OpFacts
      <4>3. blob' = [blob EXCEPT ![c].size = op[t].from - 1]
        BY <3>3, <4>2 DEF PersistSizeFails
      <4> QED
        BY <4>3, <1>2, BlobFacts DEF Inv, TypeOK, BlobRecs
    <3>4. CASE UNCHANGED blob
      BY <3>4
    <3> QED
      BY <2>3, <3>1, <3>2, <3>3, <3>4 DEF Request, CreateBlob, ResizeBlob, AddPool, PutRouters,
         PutRoutersFails, PersistSize, meta
  <2>4. ASSUME NEW c \in Blobs, DeleteBlob(c)
        PROVE  blob'[b].status = blob[b].status \/ (blob[b].status = "created" /\ blob'[b].status = "deleted")
    <3>1. blob' = [blob EXCEPT ![c].status = "deleted"] /\ blob[c].status = "created"
      BY <2>4 DEF DeleteBlob, BlobValid
    <3> QED
      BY <3>1, <1>2 DEF Inv, TypeOK, BlobRecs
  <2>5. CASE Gc
    <3>1. CASE GcBlobsEnd
      <4>1. CASE blob' = [c \in Blobs |-> IF blob[c].pool = gc.item THEN Gone(blob[c]) ELSE blob[c]]
        BY <4>1, <1>2 DEF Gone, Inv, TypeOK, BlobRecs
      <4> QED
        BY <3>1, <4>1 DEF GcBlobsEnd
    <3>2. CASE GcEraseBlob
      <4>1. blob' = [blob EXCEPT ![gc.blob] = Gone(@)]
        BY <3>2 DEF GcEraseBlob
      <4> QED
        BY <4>1, <1>2 DEF Gone, Inv, TypeOK, BlobRecs
    <3>3. CASE UNCHANGED blob
      BY <3>3
    <3> QED
      BY <2>5, <3>1, <3>2, <3>3 DEF Gc, GcNextPhase, GcTakePool, GcUserPool, GcTakeUser, GcTakeBlob,
         GcUserEnd, GcOutOfHours, GcDeleteBlocks, GcReclaim, GcDeleteRouter, GcDeleteRecord, meta
  <2>6. CASE CrashRestart
    <3>1. Clean(b) /\ Serving(b) = {} /\ blob'[b] = Recovered(b)
      BY <2>0, <2>6 DEF CrashRestart, Clean
    <3> QED
      BY <3>1, <1>2, RecoveredStatus
  <2> QED
    BY <1>2, <2>1, <2>3, <2>4, <2>5, <2>6 DEF Next, DeleteUser, UpdateUser, DeletePool, QueryRouter,
       PutInCache, Write, GcStart, meta, vars
<1> QED
  BY <1>2, BlobInvariance, PTL DEF Spec, DeletionIsFinal

=============================================================================
