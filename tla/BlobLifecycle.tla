---------------------------- MODULE BlobLifecycle ----------------------------
(***************************************************************************)
(* The life of a blob in the extent manager: ResourceServiceImpl creates,  *)
(* resizes and soft-deletes blobs and users, PoolManager soft-deletes      *)
(* pools, RouterManager keeps one router per extent, and GcManager later   *)
(* removes what was soft-deleted, first from the extent servers, then from *)
(* RocksDB.  Requests run concurrently with the GC timer, every store may  *)
(* fail, and the process may crash and recover its maps from RocksDB.      *)
(*                                                                         *)
(* A map entry and its RocksDB record have the same value here.  Names,    *)
(* sizes in bytes and the choice of replication groups are left out: the   *)
(* size of a blob is its number of extents, which are held by Replicas.    *)
(***************************************************************************)
EXTENDS Naturals

CONSTANTS
  Users, Pools, Blobs,
  Replicas,    \* the extent servers of the replication group
  Threads,     \* threads that serve resource requests
  MaxSize,     \* bound: extents of a blob
  BatchSize,   \* routers in one MultiPut (100 in create_router)
  Faults       \* the faults that may happen

ASSUME ConstantsAssumption ==
  /\ MaxSize \in Nat /\ BatchSize \in Nat \ {0}
  /\ Faults \subseteq {"crash", "store", "rpc", "rg", "time"}
  /\ "none" \notin Pools

Sizes   == 1..MaxSize
Extents == Blobs \X Sizes

VARIABLES
  user,     \* user_map_: status_ and pool_ids_ of every user
  userKV,   \* the user records of RocksDB
  pool,     \* pool_map_: status_ of every pool
  poolKV,
  blob,     \* blob_map_ of the pools: status_, user_id_, pool_id_ and size_
  blobKV,
  routers,  \* the extent router records of RocksDB
  cache,    \* multi_extent_router_map_
  filling,  \* routers that query_router has read and not yet cached
  known,    \* routers that clients have been given and keep
  held,     \* held[n]: the extents that extent server n has a location for
  op,       \* op[t]: the request that thread t is serving
  gc,       \* the GC timer's progress
  acked,    \* acked[b]: the size the client was told last (history)
  troubled, \* blobs of a request that failed halfway, or died in a crash (history)
  overtaken \* blobs that a request, a resize or a write still used while another
            \* request, or the GC, was changing or removing them (history)

meta    == <<user, userKV, pool, poolKV, blob, blobKV>>
history == <<acked, troubled, overtaken>>
vars    == <<meta, routers, cache, filling, known, held, op, gc, history>>

(* "none": the id was never used; "gone": removed for good (ids are UUIDs). *)
NoBlob   == [status |-> "none", user |-> "none", pool |-> "none", size |-> 0]
Gone(x)  == [x EXCEPT !.status = "gone"]
InMap(x) == x.status \in {"created", "deleted"}

Idle   == [pc |-> "idle"]
GcIdle == [pc |-> "idle", phase |-> "pools", todo |-> {}, item |-> "none", pools |-> {},
           blobs |-> {}, remote |-> FALSE, success |-> TRUE, blob |-> "none", idx |-> 0, last |-> 0]

(* The threads that are serving a request on blob b. *)
Serving(b) == {t \in Threads : op[t] # Idle /\ op[t].blob = b}

(* The threads inside BlobManager::resize_blob, which holds mutex_ shared. *)
Resizing(b) == {t \in Serving(b) : op[t].pc \in {"set", "put"}}

Init ==
  /\ user = [u \in Users |-> [status |-> "created", pools |-> {}]] /\ userKV = user
  /\ pool = [p \in Pools |-> "created"] /\ poolKV = pool
  /\ blob = [b \in Blobs |-> NoBlob] /\ blobKV = blob
  /\ routers = {} /\ cache = {} /\ filling = {} /\ known = {}
  /\ held = [n \in Replicas |-> {}]
  /\ op = [t \in Threads |-> Idle]
  /\ gc = GcIdle
  /\ acked = [b \in Blobs |-> 0]
  /\ troubled = {} /\ overtaken = {}

(* Does a RocksDB write succeed? *)
StoreOK == IF "store" \in Faults THEN BOOLEAN ELSE {TRUE}

UserExist(u) == user[u].status = "created"
BlobValid(b) == blob[b].status = "created"

(* Nobody has asked for the blob, its user or its pool to be deleted. *)
Usable(b) == BlobValid(b) /\ UserExist(blob[b].user) /\ pool[blob[b].pool] = "created"

(* overtaken after a step of a request on blob b that expects P. *)
Overtake(b, P) == overtaken' = IF P THEN overtaken ELSE overtaken \cup {b}

(* The GC has deleted the record of b and not yet its map entry. *)
Erasing(b) == gc.pc = "erase" /\ gc.blob = b

-----------------------------------------------------------------------------
(* Requests.  op[t] carries what the handler's locals carry.               *)

Reply(t) == op' = [op EXCEPT ![t] = Idle]

(* CreateBlob, up to the checks of the user and, in                       *)
(* PoolManager::create_blob, of the pool.                                  *)
CreateBlob(t, u, p, b, n) ==
  /\ op[t] = Idle
  /\ UserExist(u) /\ pool[p] = "created"
  /\ blob[b] = NoBlob /\ Serving(b) = {}
  /\ op' = [op EXCEPT ![t] = [pc |-> "create", user |-> u, pool |-> p, blob |-> b,
                              from |-> 1, to |-> n, value |-> NoBlob]]
  /\ UNCHANGED <<meta, routers, cache, filling, known, held, gc, history>>

(* BlobManager::create_blob stores the blob, then allocate_rgs picks the   *)
(* replication groups; if that fails the blob stays.                       *)
PersistBlob(t) ==
  /\ op[t].pc = "create"
  /\ LET o == op[t]
         x == [status |-> "created", user |-> o.user, pool |-> o.pool, size |-> o.to]
     IN  \/ /\ "store" \in Faults
            /\ Reply(t)
            /\ UNCHANGED <<blob, blobKV, history>>
         \/ /\ blob' = [blob EXCEPT ![o.blob] = x]
            /\ blobKV' = [blobKV EXCEPT ![o.blob] = x]
            /\ Overtake(o.blob, UserExist(o.user) /\ pool[o.pool] = "created")
            /\ UNCHANGED acked
            /\ \/ op' = [op EXCEPT ![t].pc = "pool"] /\ UNCHANGED troubled
               \/ "rg" \in Faults /\ Reply(t) /\ troubled' = troubled \cup {o.blob}
  /\ UNCHANGED <<user, userKV, pool, poolKV, routers, cache, filling, known, held, gc>>

(* UserManager::add_pool changes the map only. *)
AddPool(t) ==
  /\ op[t].pc = "pool"
  /\ user' = [user EXCEPT ![op[t].user].pools =
                IF UserExist(op[t].user) THEN @ \cup {op[t].pool} ELSE @]
  /\ op' = [op EXCEPT ![t].pc = "routers"]
  /\ Overtake(op[t].blob, Usable(op[t].blob))
  /\ UNCHANGED <<userKV, pool, poolKV, blob, blobKV, routers, cache, filling, known, held, gc,
                 acked, troubled>>

(* Mutant: the last extent of a batch is left out. *)
BatchWithoutLast(o) == {i \in Sizes : o.from <= i /\ i < o.to /\ i < o.from + BatchSize}

(* RouterManager::create_router, one MultiPut of BatchSize routers (in the *)
(* order of the extents here, of their keys there).  After the last one    *)
(* the request is answered.                                                *)
Batch(o) == {i \in Sizes : o.from <= i /\ i <= o.to /\ i < o.from + BatchSize}

PutRouters(t) ==
  /\ op[t].pc = "routers"
  /\ LET o == op[t]
     IN  /\ routers' = routers \cup ({o.blob} \X Batch(o))
         /\ Overtake(o.blob, Usable(o.blob))
         /\ IF o.from + BatchSize > o.to
            THEN Reply(t) /\ acked' = [acked EXCEPT ![o.blob] = IF @ > o.to THEN @ ELSE o.to]
            ELSE op' = [op EXCEPT ![t].from = @ + BatchSize] /\ UNCHANGED acked
  /\ UNCHANGED <<meta, cache, filling, known, held, gc, troubled>>

PutRoutersFails(t) ==
  /\ op[t].pc = "routers"
  /\ "store" \in Faults
  /\ Reply(t)
  /\ troubled' = troubled \cup {op[t].blob}
  /\ UNCHANGED <<meta, routers, cache, filling, known, held, gc, acked, overtaken>>

(* ResizeBlob, up to the checks of BlobManager::resize_blob, which reads   *)
(* the old size.  The mutex is held shared, so two resizes of one blob     *)
(* interleave.                                                             *)
ResizeBlob(t, u, b, n) ==
  /\ op[t] = Idle
  /\ UserExist(u) /\ BlobValid(b)
  /\ blob[b].user = u /\ n > blob[b].size
  /\ op' = [op EXCEPT ![t] = [pc |-> "set", user |-> u, pool |-> blob[b].pool, blob |-> b,
                              from |-> blob[b].size + 1, to |-> n, value |-> NoBlob]]
  /\ UNCHANGED <<meta, routers, cache, filling, known, held, gc, history>>

(* The new size is set and the record encoded. *)
SetSize(t) ==
  /\ op[t].pc = "set"
  /\ LET b == op[t].blob
     IN  /\ blob' = [blob EXCEPT ![b].size = op[t].to]
         /\ op' = [op EXCEPT ![t].pc = "put", ![t].value = blob'[b]]
         /\ Overtake(b, Usable(b) /\ Resizing(b) = {t})
  /\ UNCHANGED <<user, userKV, pool, poolKV, blobKV, routers, cache, filling, known, held, gc,
                 acked, troubled>>

(* The record is stored, and the new replication groups allocated. *)
PersistSize(t) ==
  /\ op[t].pc = "put"
  /\ LET b == op[t].blob
     IN  /\ blobKV' = [blobKV EXCEPT ![b] = op[t].value]
         /\ \/ /\ op' = [op EXCEPT ![t].pc = "routers", ![t].value = NoBlob]
               /\ UNCHANGED troubled
            \/ "rg" \in Faults /\ Reply(t) /\ troubled' = troubled \cup {b}
  /\ UNCHANGED <<user, userKV, pool, poolKV, blob, routers, cache, filling, known, held, gc,
                 acked, overtaken>>

(* The store fails: size_ gets the old value back, also when another       *)
(* resize has already read the new one.                                    *)
PersistSizeFails(t) ==
  /\ op[t].pc = "put"
  /\ "store" \in Faults
  /\ blob' = [blob EXCEPT ![op[t].blob].size = op[t].from - 1]
  /\ Reply(t)
  /\ Overtake(op[t].blob, Resizing(op[t].blob) = {t})
  /\ UNCHANGED <<user, userKV, pool, poolKV, blobKV, routers, cache, filling, known, held, gc,
                 acked, troubled>>

(* Mutant: soft_delete_blob without the Put. *)
DeleteBlobUnsaved(b) ==
  /\ BlobValid(b) /\ UserExist(blob[b].user)
  /\ blob' = [blob EXCEPT ![b].status = "deleted"]
  /\ Overtake(b, Resizing(b) = {} /\ ~ Erasing(b))
  /\ UNCHANGED <<user, userKV, pool, poolKV, blobKV, routers, cache, filling, known, held, op, gc,
                 acked, troubled>>

(* soft_delete_blob, soft_delete_user and soft_delete_pool change the map, *)
(* then store it; a failed store does not take the change back.            *)
DeleteBlob(b) ==
  /\ BlobValid(b) /\ UserExist(blob[b].user)
  /\ blob' = [blob EXCEPT ![b].status = "deleted"]
  /\ \E ok \in StoreOK :
       /\ blobKV' = IF ok THEN [blobKV EXCEPT ![b] = blob'[b]] ELSE blobKV
       /\ troubled' = IF ok THEN troubled ELSE troubled \cup {b}
  /\ Overtake(b, Resizing(b) = {} /\ ~ Erasing(b))
  /\ UNCHANGED <<user, userKV, pool, poolKV, routers, cache, filling, known, held, op, gc, acked>>

BlobsOf(u, p) == {b \in Blobs : InMap(blob[b]) /\ blob[b].user = u /\ blob[b].pool = p}

DeleteUser(u) ==
  /\ InMap(user[u])
  /\ user' = [user EXCEPT ![u].status = "deleted"]
  /\ \E ok \in StoreOK :
       /\ userKV' = IF ok THEN [userKV EXCEPT ![u] = user'[u]] ELSE userKV
       /\ troubled' = IF ok THEN troubled ELSE troubled \cup UNION {BlobsOf(u, p) : p \in Pools}
  /\ UNCHANGED <<pool, poolKV, blob, blobKV, routers, cache, filling, known, held, op, gc, acked, overtaken>>

(* update_user stores the user, with the pools that add_pool has added. *)
UpdateUser(u) ==
  /\ UserExist(u)
  /\ \E ok \in StoreOK : userKV' = IF ok THEN [userKV EXCEPT ![u] = user[u]] ELSE userKV
  /\ UNCHANGED <<user, pool, poolKV, blob, blobKV, routers, cache, filling, known, held, op, gc, history>>

DeletePool(p) ==
  /\ pool[p] = "created"
  /\ pool' = [pool EXCEPT ![p] = "deleted"]
  /\ \E ok \in StoreOK :
       /\ poolKV' = IF ok THEN [poolKV EXCEPT ![p] = "deleted"] ELSE poolKV
       /\ troubled' = IF ok THEN troubled ELSE troubled \cup UNION {BlobsOf(u, p) : u \in Users}
  /\ UNCHANGED <<user, userKV, blob, blobKV, routers, cache, filling, known, held, op, gc, acked, overtaken>>

-----------------------------------------------------------------------------
(* Routers and the extent servers.                                         *)

(* query_router for a client: from the cache, or from RocksDB, and then    *)
(* put_in_cache.  The client and the extent servers keep the answer.       *)
QueryRouter(e) ==
  /\ e \in routers \cup cache
  /\ e \notin known
  /\ known' = known \cup {e}
  /\ filling' = IF e \in cache THEN filling ELSE filling \cup {e}
  /\ UNCHANGED <<meta, routers, cache, held, op, gc, history>>

PutInCache(e) ==
  /\ e \in filling
  /\ filling' = filling \ {e}
  /\ cache' = cache \cup {e}
  /\ UNCHANGED <<meta, routers, known, held, op, gc, history>>

(* A client's first write to an extent gives it a location on the replicas *)
(* it reaches: all of them, unless an RPC fails.                           *)
Reclaimed(e) ==
  \/ ~ InMap(blob[e[1]])
  \/ /\ gc.pc # "idle" /\ gc.blob = e[1] /\ gc.remote
     /\ gc.idx > e[2] \/ (gc.idx = e[2] /\ gc.pc = "router")

Write(e) ==
  /\ e \in known
  /\ \E S \in SUBSET Replicas :
       /\ S = Replicas \/ "rpc" \in Faults
       /\ \E n \in S : e \notin held[n]
       /\ held' = [n \in Replicas |-> IF n \in S THEN held[n] \cup {e} ELSE held[n]]
  /\ Overtake(e[1], ~ Reclaimed(e))
  /\ UNCHANGED <<meta, routers, cache, filling, known, op, gc, acked, troubled>>

-----------------------------------------------------------------------------
(* The garbage collector: deletePools, deleteUserBlobs, deleteBlobs.       *)

GcStart ==
  /\ gc.pc = "idle"
  /\ gc' = [GcIdle EXCEPT !.pc = "list", !.todo = {p \in Pools : pool[p] = "deleted"}]
  /\ UNCHANGED <<meta, routers, cache, filling, known, held, op, history>>

GcNextPhase ==
  /\ gc.pc = "list" /\ gc.todo = {}
  /\ gc' = CASE gc.phase = "pools" ->
                  [gc EXCEPT !.phase = "users", !.success = TRUE,
                             !.todo = {u \in Users : user[u].status = "deleted"}]
             [] gc.phase = "users" ->
                  [gc EXCEPT !.phase = "blobs", !.todo = {p \in Pools : pool[p] = "created"}]
             [] OTHER -> GcIdle
  /\ UNCHANGED <<meta, routers, cache, filling, known, held, op, history>>

(* Mutant: list_blobs leaves out the deleted blobs of an enabled pool. *)
GcTakePoolNoneDeleted(p) ==
  /\ gc.pc = "list" /\ gc.phase \in {"pools", "blobs"} /\ p \in gc.todo
  /\ gc' = [gc EXCEPT !.pc = "blobs", !.todo = @ \ {p}, !.item = p, !.success = TRUE,
                      !.remote = gc.phase = "blobs",
                      !.blobs = {b \in Blobs : InMap(blob[b]) /\ blob[b].pool = p
                                   /\ gc.phase = "pools"}]
  /\ UNCHANGED <<meta, routers, cache, filling, known, held, op, history>>

(* A deleted pool: all its blobs, without the extent servers' space.  An   *)
(* enabled pool: its deleted blobs.                                        *)
GcTakePool(p) ==
  /\ gc.pc = "list" /\ gc.phase \in {"pools", "blobs"} /\ p \in gc.todo
  /\ gc' = [gc EXCEPT !.pc = "blobs", !.todo = @ \ {p}, !.item = p, !.success = TRUE,
                      !.remote = gc.phase = "blobs",
                      !.blobs = {b \in Blobs : InMap(blob[b]) /\ blob[b].pool = p
                                   /\ (gc.phase = "blobs" => blob[b].status = "deleted")}]
  /\ UNCHANGED <<meta, routers, cache, filling, known, held, op, history>>

(* A deleted user: its blobs in the pools the user map names.  success is  *)
(* not set again for the next user.                                        *)
GcTakeUser(u) ==
  /\ gc.pc = "list" /\ gc.phase = "users" /\ u \in gc.todo
  /\ gc' = [gc EXCEPT !.pc = "pools", !.todo = @ \ {u}, !.item = u, !.pools = user[u].pools]
  /\ UNCHANGED <<meta, routers, cache, filling, known, held, op, history>>

GcUserPool(p) ==
  /\ gc.pc = "pools" /\ p \in gc.pools
  /\ gc' = IF pool[p] = "created"
           THEN [gc EXCEPT !.pc = "blobs", !.pools = @ \ {p}, !.remote = TRUE,
                           !.blobs = BlobsOf(gc.item, p)]
           ELSE [gc EXCEPT !.pools = @ \ {p}, !.success = FALSE]
  /\ UNCHANGED <<meta, routers, cache, filling, known, held, op, history>>

(* delete_user, unless something of the user's could not be deleted. *)
GcUserEnd ==
  /\ gc.pc = "pools" /\ gc.pools = {}
  /\ gc' = [gc EXCEPT !.pc = "list"]
  /\ \E ok \in StoreOK :
       IF gc.success /\ ok
       THEN /\ user' = [user EXCEPT ![gc.item].status = "gone"]
            /\ userKV' = [userKV EXCEPT ![gc.item].status = "gone"]
       ELSE UNCHANGED <<user, userKV>>
  /\ UNCHANGED <<pool, poolKV, blob, blobKV, routers, cache, filling, known, held, op, history>>

(* deleteBlobs, the next blob: out of hours the list is given up. *)
GcTakeBlob(b) ==
  /\ gc.pc = "blobs" /\ b \in gc.blobs
  /\ gc' = IF InMap(blob[b])
           THEN [gc EXCEPT !.pc = "extent", !.blobs = @ \ {b}, !.blob = b,
                           !.idx = 1, !.last = blob[b].size]
           ELSE [gc EXCEPT !.blobs = @ \ {b}, !.success = FALSE]
  /\ UNCHANGED <<meta, routers, cache, filling, known, held, op, history>>

GcOutOfHours ==
  /\ gc.pc = "blobs" /\ gc.blobs # {} /\ "time" \in Faults
  /\ gc' = [gc EXCEPT !.blobs = {}, !.success = FALSE]
  /\ UNCHANGED <<meta, routers, cache, filling, known, held, op, history>>

(* The list is done: delete_pool for a deleted pool whose blobs are gone.  *)
(* It waits for create_blob, which holds the pools' mutex_ shared, and     *)
(* takes the pool's blob map with it.                                      *)
GcBlobsEnd ==
  /\ gc.pc = "blobs" /\ gc.blobs = {}
  /\ gc' = [gc EXCEPT !.pc = IF gc.phase = "users" THEN "pools" ELSE "list", !.blob = "none"]
  /\ \E ok \in StoreOK :
       IF gc.phase = "pools" /\ gc.success /\ ok
       THEN /\ \A t \in Threads : op[t].pc \notin {"create", "set", "put"}
            /\ pool' = [pool EXCEPT ![gc.item] = "gone"]
            /\ poolKV' = [poolKV EXCEPT ![gc.item] = "gone"]
            /\ blob' = [b \in Blobs |-> IF blob[b].pool = gc.item THEN Gone(blob[b]) ELSE blob[b]]
       ELSE UNCHANGED <<pool, poolKV, blob>>
  /\ UNCHANGED <<user, userKV, blobKV, routers, cache, filling, known, held, op, history>>

BlobFailed == gc' = [gc EXCEPT !.pc = "blobs", !.success = FALSE]

GcExtent == <<gc.blob, gc.idx>>

(* deleteRemoteExtent: the router is looked up, and every block is deleted *)
(* on every replica.  A replica without a location refuses.                *)
GcDeleteBlocks ==
  /\ gc.pc = "extent" /\ gc.idx <= gc.last /\ gc.remote
  /\ LET found == GcExtent \in routers \cup cache
     IN  /\ cache' = IF found THEN cache \cup {GcExtent} ELSE cache
         /\ \/ /\ found /\ \A n \in Replicas : GcExtent \in held[n]
               /\ gc' = [gc EXCEPT !.pc = "reclaim"]
            \/ /\ ~ found \/ Faults \cap {"rpc", "store"} # {} \/ \E n \in Replicas : GcExtent \notin held[n]
               /\ BlobFailed
  /\ UNCHANGED <<meta, routers, filling, known, held, op, history>>

(* Mutant: the answers of ReclaimExtent are not looked at. *)
GcReclaimUnchecked ==
  /\ gc.pc = "reclaim"
  /\ \E S \in SUBSET Replicas :
       held' = [n \in Replicas |-> IF n \in S THEN held[n] \ {GcExtent} ELSE held[n]]
  /\ gc' = [gc EXCEPT !.pc = "router"]
  /\ UNCHANGED <<meta, routers, cache, filling, known, op, history>>

(* reclaimExtent on all replicas: an RPC may fail before or after the      *)
(* replica has reclaimed.                                                  *)
GcReclaim ==
  /\ gc.pc = "reclaim"
  /\ \E S \in SUBSET Replicas :
       /\ held' = [n \in Replicas |-> IF n \in S THEN held[n] \ {GcExtent} ELSE held[n]]
       /\ \/ S = Replicas /\ gc' = [gc EXCEPT !.pc = "router"]
          \/ "rpc" \in Faults /\ BlobFailed
  /\ UNCHANGED <<meta, routers, cache, filling, known, op, history>>

(* delete_router: RocksDB, then the cache. *)
GcDeleteRouter ==
  /\ gc.pc = "router" \/ (gc.pc = "extent" /\ gc.idx <= gc.last /\ ~ gc.remote)
  /\ \/ /\ routers' = routers \ {GcExtent}
        /\ cache' = cache \ {GcExtent}
        /\ gc' = [gc EXCEPT !.pc = "extent", !.idx = @ + 1]
     \/ /\ "store" \in Faults /\ BlobFailed
        /\ UNCHANGED <<routers, cache>>
  /\ UNCHANGED <<meta, filling, known, held, op, history>>

(* delete_blob: the record, then the map entry, which waits for the        *)
(* threads inside resize_blob.                                             *)
GcDeleteRecord ==
  /\ gc.pc = "extent" /\ gc.idx > gc.last
  /\ \/ /\ blobKV' = [blobKV EXCEPT ![gc.blob] = Gone(@)]
        /\ gc' = [gc EXCEPT !.pc = "erase"]
     \/ /\ "store" \in Faults /\ BlobFailed
        /\ UNCHANGED blobKV
  /\ UNCHANGED <<user, userKV, pool, poolKV, blob, routers, cache, filling, known, held, op, history>>

GcEraseBlob ==
  /\ gc.pc = "erase" /\ Resizing(gc.blob) = {}
  /\ blob' = [blob EXCEPT ![gc.blob] = Gone(@)]
  /\ gc' = [gc EXCEPT !.pc = "blobs"]
  /\ Overtake(gc.blob, Serving(gc.blob) = {})
  /\ UNCHANGED <<user, userKV, pool, poolKV, blobKV, routers, cache, filling, known, held, op,
                 acked, troubled>>

Gc ==
  \/ GcNextPhase
  \/ \E p \in Pools : GcTakePool(p) \/ GcUserPool(p)
  \/ \E u \in Users : GcTakeUser(u)
  \/ \E b \in Blobs : GcTakeBlob(b)
  \/ GcUserEnd \/ GcOutOfHours \/ GcBlobsEnd
  \/ GcDeleteBlocks \/ GcReclaim \/ GcDeleteRouter \/ GcDeleteRecord \/ GcEraseBlob

(* The process dies; DoRecovery loads the pools that RocksDB has, and for  *)
(* each of them its blobs.                                                 *)
Recovered(b) ==
  IF InMap(blobKV[b]) /\ poolKV[blobKV[b].pool] = "gone" THEN Gone(blobKV[b]) ELSE blobKV[b]

(* Mutant: recovery makes the blobs new, and saves them so. *)
CrashRestartRenews ==
  /\ "crash" \in Faults
  /\ user' = userKV /\ pool' = poolKV
  /\ blob' = [b \in Blobs |-> IF InMap(Recovered(b))
                              THEN [Recovered(b) EXCEPT !.status = "created"] ELSE Recovered(b)]
  /\ blobKV' = [b \in Blobs |-> IF InMap(blobKV[b]) THEN [blobKV[b] EXCEPT !.status = "created"]
                                ELSE blobKV[b]]
  /\ cache' = {} /\ filling' = {}
  /\ op' = [t \in Threads |-> Idle]
  /\ gc' = GcIdle
  /\ troubled' = troubled \cup {b \in Blobs : Serving(b) # {}}
  /\ UNCHANGED <<userKV, poolKV, routers, known, held, acked, overtaken>>

CrashRestart ==
  /\ "crash" \in Faults
  /\ user' = userKV /\ pool' = poolKV
  /\ blob' = [b \in Blobs |-> Recovered(b)]
  /\ cache' = {} /\ filling' = {}
  /\ op' = [t \in Threads |-> Idle]
  /\ gc' = GcIdle
  /\ troubled' = troubled \cup {b \in Blobs : Serving(b) # {}}
  /\ UNCHANGED <<userKV, poolKV, blobKV, routers, known, held, acked, overtaken>>

-----------------------------------------------------------------------------
Request(t) ==
  \/ \E u \in Users, b \in Blobs, n \in Sizes :
       (\E p \in Pools : CreateBlob(t, u, p, b, n)) \/ ResizeBlob(t, u, b, n)
  \/ PersistBlob(t) \/ AddPool(t) \/ PutRouters(t) \/ PutRoutersFails(t)
  \/ SetSize(t) \/ PersistSize(t) \/ PersistSizeFails(t)

Next ==
  \/ \E t \in Threads : Request(t)
  \/ \E b \in Blobs : DeleteBlob(b)
  \/ \E u \in Users : DeleteUser(u) \/ UpdateUser(u)
  \/ \E p \in Pools : DeletePool(p)
  \/ \E e \in Extents : QueryRouter(e) \/ PutInCache(e) \/ Write(e)
  \/ GcStart \/ Gc
  \/ CrashRestart

Spec == Init /\ [][Next]_vars

(* Handlers finish, clients write what they were given, and the timer runs *)
(* gc() again and again.                                                   *)
FairSpec ==
  /\ Spec
  /\ \A t \in Threads : WF_vars(op[t] # Idle /\ Request(t))
  /\ WF_vars(GcStart) /\ WF_vars(Gc)

-----------------------------------------------------------------------------
(* Properties.                                                             *)

Statuses == {"none", "created", "deleted", "gone"}
BlobRecs == [status : Statuses, user : Users \cup {"none"}, pool : Pools \cup {"none"},
             size : 0..MaxSize]
OpRecs   == [pc : {"create", "pool", "routers", "set", "put"}, user : Users, pool : Pools,
             blob : Blobs, from : Nat, to : Sizes, value : BlobRecs]
GcRecs   == [pc : {"idle", "list", "pools", "blobs", "extent", "reclaim", "router", "erase"},
             phase : {"pools", "users", "blobs"}, todo : SUBSET (Pools \cup Users),
             item : Pools \cup Users \cup {"none"}, pools : SUBSET Pools, blobs : SUBSET Blobs,
             remote : BOOLEAN, success : BOOLEAN, blob : Blobs \cup {"none"},
             idx : 0..MaxSize + 1, last : 0..MaxSize]

(* The types of the maps, the records and the actors' progress: the walk   *)
(* of deleteOneBlob stays within the extents of the blob.                  *)
TypeOK ==
  /\ user \in [Users -> [status : Statuses, pools : SUBSET Pools]]
  /\ userKV \in [Users -> [status : Statuses, pools : SUBSET Pools]]
  /\ pool \in [Pools -> Statuses] /\ poolKV \in [Pools -> Statuses]
  /\ blob \in [Blobs -> BlobRecs] /\ blobKV \in [Blobs -> BlobRecs]
  /\ routers \subseteq Extents /\ cache \subseteq Extents
  /\ filling \subseteq Extents /\ known \subseteq Extents
  /\ held \in [Replicas -> SUBSET Extents]
  /\ op \in [Threads -> {Idle} \cup OpRecs]
  /\ gc \in GcRecs
  /\ acked \in [Blobs -> 0..MaxSize]
  /\ troubled \subseteq Blobs /\ overtaken \subseteq Blobs

(* A client that was told a blob has n extents finds a router for each of  *)
(* them once the requests on the blob are answered, until somebody deletes *)
(* the blob, its user or its pool, unless a request on it failed halfway   *)
(* or two actors overlapped on it (CreateBlob, ResizeBlob and              *)
(* create_router against deleteOneBlob).                                   *)
AckedExtentsRouted ==
  \A b \in Blobs \ (troubled \cup overtaken) :
    Usable(b) /\ Serving(b) = {} => {b} \X (1..acked[b]) \subseteq routers

(* The GC removes a blob's record only after all its routers: a router in  *)
(* RocksDB always has a blob through which a later gc() can find it.       *)
RoutersHaveBlob ==
  \A e \in routers : e[1] \in overtaken \/ InMap(blobKV[e[1]])

(* Both: what clients were told and what the collector can find.           *)
RoutersMatchBlobs == TypeOK /\ AckedExtentsRouted /\ RoutersHaveBlob

(* When the GC has removed a blob of an enabled pool, no extent server     *)
(* still has space allocated for it ("delete remote es space" in gc()).    *)
NoLeakedExtents ==
  \A n \in Replicas : \A e \in held[n] :
    LET x == blob[e[1]]
    IN  x.status = "gone" /\ pool[x.pool] = "created" => e[1] \in troubled \cup overtaken

(* Between requests the blob maps hold what a restart would load, so a     *)
(* crash changes nothing that a client was told.                           *)
StoreFollowsMap ==
  \A b \in Blobs \ (troubled \cup overtaken) :
    blob[b] = Recovered(b) \/ Resizing(b) # {} \/ Erasing(b)

(* The GC removes a deleted user only when all its blobs are gone.  A blob *)
(* whose user is gone is listed by nobody: only the deletion of its whole  *)
(* pool would find it.                                                     *)
UserBlobsGone ==
  \A b \in Blobs \ (troubled \cup overtaken) :
    InMap(blob[b]) /\ Serving(b) = {} => user[blob[b].user].status # "gone"

(* What a client was told of a blob holds when no request on it is under   *)
(* way and no two changed it at once: the acknowledged extents have their  *)
(* routers, and map and RocksDB agree (resize_blob and delete_blob under   *)
(* the shared lock, gc() beside them).                                     *)
AnswersHold == AckedExtentsRouted /\ StoreFollowsMap

(* gc() removes things in order: a blob of an enabled pool only when no    *)
(* extent server has space allocated for it ("delete remote es space") and *)
(* no router is left, a deleted user only when all its blobs are gone.     *)
RemovedInOrder == NoLeakedExtents /\ RoutersHaveBlob /\ UserBlobsGone

(* A deleted blob does not come back, and a removed one does not either,   *)
(* not by a crash and a recovery from RocksDB.                             *)
Rank(x) == CASE x.status = "none" -> 0 [] x.status = "created" -> 1
             [] x.status = "deleted" -> 2 [] OTHER -> 3

NoneComesBack ==
  \A b \in Blobs : b \in (troubled \cup overtaken)' \/ Rank(blob'[b]) >= Rank(blob[b])
DeletionIsFinal == [][NoneComesBack]_vars

(* gc() removes every soft-deleted blob in the end. *)
DeletedBlobsGo ==
  \A b \in Blobs : blob[b].status = "deleted" ~> ~ InMap(blob[b])

(* The same for a blob whose extents have routers and space on all their   *)
(* replicas.                                                               *)
Written(b) ==
  /\ b \notin overtaken
  /\ {b} \X (1..blob[b].size) \subseteq routers
  /\ \A n \in Replicas : {b} \X (1..blob[b].size) \subseteq held[n]

DeletedAndWritten(b)  == blob[b].status = "deleted" /\ Written(b)
RemovedOrOvertaken(b) == ~ InMap(blob[b]) \/ b \in overtaken
=============================================================================
