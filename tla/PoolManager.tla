----------------------------- MODULE PoolManager -----------------------------
(***************************************************************************)
(* The pools of the extent manager: PoolManager and EsManager, called by   *)
(* ClusterService, HeartbeatService and RouterService, by the pool part of *)
(* GcManager and by the recovery at the start of the process.              *)
(*                                                                         *)
(* create_pool, update_pool and delete_pool hold the manager's lock alone. *)
(* Every other call shares it, from the check of the pool's status to what *)
(* it does after it, so that these calls interleave.  What the groups and  *)
(* the blobs are is the subject of RgManager and BlobLifecycle: here are   *)
(* the servers that the groups of a pool name, and which blobs it has.     *)
(***************************************************************************)
EXTENDS FiniteSets, Naturals

CONSTANTS
  PoolIds,     \* poolid-a .. poolid-z
  Beats,       \* <<id, address>> of the extent servers that report
  EsNums,      \* es_num
  Blobs,       \* blob ids
  Threads,     \* brpc workers
  MaxFaults,   \* bound: failed writes to RocksDB
  MaxRestarts, \* bound: stops of the process
  MaxPools     \* bound: pools created

(* CreatePool and UpdatePool refuse an es_count below 1. *)
ASSUME PoolsAssumption ==
  PoolIds # {} /\ Beats # {} /\ IsFiniteSet(Beats) /\ EsNums \subseteq Nat \ {0}

VARIABLES
  pool,    \* pool_map_: status_ and es_num_
  poolKV,
  es,      \* es_map_: the servers of every pool
  esKV,
  rg,      \* rg_map_: <<g, s>> when group g names server s
  rgKV,
  blob,    \* blob_map_
  blobKV,
  recov,   \* what DoRecovery has yet to read for the pool
  call,    \* the call that a thread is in
  gc,      \* the collector's timer callback
  count,   \* faults, restarts and pools so far
  told,    \* answers OK for the pool: "init", "delete" (history)
  mishap   \* what has happened to the pool that the code does not handle (history)

mem   == <<pool, es, rg, blob>>
kv    == <<poolKV, esKV, rgKV, blobKV>>
vars  == <<mem, kv, recov, call, gc, count, told, mishap>>

Ids(E)  == {x[1] : x \in E}
EsIds == Ids(Beats)
Named(R) == {x[2] : x \in R}
NoPool  == [status |-> "none", es_num |-> 0]
Idle    == [op |-> "none", pc |-> "none", pool |-> CHOOSE p \in PoolIds : TRUE,
            es |-> CHOOSE x \in Beats : TRUE, ess |-> {}, val |-> NoPool, era |-> 0]
GcIdle  == [pc |-> "idle", todo |-> {}, pool |-> CHOOSE p \in PoolIds : TRUE,
            blobs |-> {}, success |-> TRUE]
Empty   == [p \in PoolIds |-> {}]

Init ==
  /\ pool = [p \in PoolIds |-> NoPool] /\ poolKV = pool
  /\ es = Empty /\ esKV = Empty
  /\ rg = Empty /\ rgKV = Empty
  /\ blob = Empty /\ blobKV = Empty
  /\ recov = [p \in PoolIds |-> "done"]
  /\ call = [t \in Threads |-> Idle]
  /\ gc = GcIdle
  /\ count = [faults |-> 0, restarts |-> 0, pools |-> 0]
  /\ told = Empty /\ mishap = Empty

-----------------------------------------------------------------------------
(* The services start when the recovery is over. *)
Up == \A p \in PoolIds : recov[p] = "done"

(* The shared lock is held from a call's first step to its last, except    *)
(* between the calls that a heartbeat and a router query are made of.      *)
Unlocked == \A t \in Threads : call[t].pc \in {"none", "exist", "create", "update", "group", "router"}

(* A write to RocksDB succeeds, or is one of the failures allowed. *)
Writes(ok) == ok \/ (count.faults < MaxFaults)
Counted(ok) == count' = IF ok THEN count ELSE [count EXCEPT !.faults = @ + 1]

Begin(t, op, pc, p) == call' = [call EXCEPT ![t] = [Idle EXCEPT !.op = op, !.pc = pc, !.pool = p]]
Goto(t, pc) == call' = [call EXCEPT ![t].pc = pc]
Return(t) == call' = [call EXCEPT ![t] = Idle]
At(t, pc) == call[t].pc = pc

Note(p, what) == mishap' = [mishap EXCEPT ![p] = @ \cup what]

(* A call goes on, on a check of the status that no longer holds. *)
Late(p) == IF pool[p].status = "disabled" THEN {"late"} ELSE {}

-----------------------------------------------------------------------------
(* ClusterService.                                                         *)

(* What QueryExtentServer, ListExtentServers, QueryReplicationGroup and    *)
(* ListReplicationGroups answer: the first two while the pool is not       *)
(* deleted, the others while it is enabled.                                *)
pool_valid(p)  == pool[p].status \notin {"none", "disabled"}
list_es(p)     == IF pool_valid(p) THEN es[p] ELSE {}
query_es(p, i) == {x \in list_es(p) : x[1] = i}
list_rg(p)     == IF pool[p].status = "enabled" THEN Ids(rg[p]) ELSE {}
query_rg(p, g) == IF g \in list_rg(p) THEN Named({x \in rg[p] : x[1] = g}) ELSE {}
ListExtentServers(p)        == list_es(p)
QueryExtentServer(p, i)     == query_es(p, i)
ListReplicationGroups(p)    == list_rg(p)
QueryReplicationGroup(p, g) == query_rg(p, g)

(* CreatePool takes the first free id, that of a removed pool too.  The    *)
(* ids are alike, so any free one will do.                                 *)
create_pool(p, n) ==
  /\ Up /\ Unlocked
  /\ pool[p].status = "none" /\ count.pools < MaxPools
  /\ \E ok \in BOOLEAN :
       /\ Writes(ok)
       /\ count' = IF ok THEN [count EXCEPT !.pools = @ + 1] ELSE [count EXCEPT !.faults = @ + 1]
       /\ poolKV' = IF ok THEN [poolKV EXCEPT ![p] = [status |-> "created", es_num |-> n]] ELSE poolKV
       /\ pool' = IF ok THEN [pool EXCEPT ![p] = [status |-> "created", es_num |-> n]] ELSE pool
       /\ told' = IF ok THEN [told EXCEPT ![p] = {}] ELSE told
  /\ UNCHANGED <<es, esKV, rg, rgKV, blob, blobKV, recov, call, gc, mishap>>

(* UpdatePool changes the map before the store, whatever the status.  The  *)
(* request may keep es_num_ and change another field: type_ (Catalog has   *)
(* it), name_, or replica_num_ and failure_domain_, which only the placing *)
(* of the groups reads (RgManager); the record is stored as a whole.       *)
update_pool(p, n) ==
  /\ Up /\ Unlocked
  /\ pool[p].status \notin {"none", "disabled"}
  /\ pool' = [pool EXCEPT ![p].es_num = n]
  /\ \E ok \in BOOLEAN :
       /\ Writes(ok) /\ Counted(ok)
       /\ poolKV' = IF ok THEN [poolKV EXCEPT ![p] = pool'[p]] ELSE poolKV
  /\ UNCHANGED <<es, esKV, rg, rgKV, blob, blobKV, recov, call, gc, told, mishap>>

(* InitPool: the status is "created" and every server has reported. *)
InitPool(t, p) ==
  /\ Up /\ call[t] = Idle
  /\ pool[p].status = "created" /\ Cardinality(es[p]) = pool[p].es_num
  /\ Begin(t, "init", "list", p)
  /\ Note(p, IF \E u \in Threads : At(u, "erase") /\ call[u].pool = p THEN {"erased"} ELSE {})
  /\ UNCHANGED <<mem, kv, recov, gc, count, told>>

InitList(t) ==
  /\ At(t, "list")
  /\ call' = [call EXCEPT ![t].pc = "groups", ![t].ess = Ids(es[call[t].pool])]
  /\ UNCHANGED <<mem, kv, recov, gc, count, told, mishap>>

(* RgManager::init: one group per server is dealt out, and stored with     *)
(* those that an earlier attempt has left; or it fails after a part of it. *)
InitGroups(t) ==
  LET p == call[t].pool
      n == Cardinality(call[t].ess)
      left == {x \in rg[p] : x[1] > n}
      new == (1..n) \X call[t].ess
  IN  /\ At(t, "groups")
      /\ \E ok \in BOOLEAN :
           /\ Writes(ok) /\ Counted(ok)
           /\ rg' = [rg EXCEPT ![p] = new \cup left]
           /\ rgKV' \in (IF ok THEN {} ELSE {rgKV}) \cup
                         {[rgKV EXCEPT ![p] = new \cup left \cup {x \in @ : x[1] > n}]}
           /\ IF ok THEN Goto(t, "enable") ELSE Return(t)
      /\ Note(p, Late(p) \cup IF left # {} THEN {"leftover"} ELSE {})
      /\ UNCHANGED <<pool, poolKV, es, esKV, blob, blobKV, recov, gc, told>>

(* init_pool and soft_delete_pool: the status, then the value to store,    *)
(* then the store.                                                         *)
SetStatus(t) ==
  LET p == call[t].pool
  IN  /\ At(t, "enable") \/ At(t, "disable")
      /\ pool' = [pool EXCEPT ![p].status = IF At(t, "enable") THEN "enabled" ELSE "disabled"]
      /\ Note(p, IF At(t, "enable") THEN Late(p)
                 ELSE IF \E u \in Threads : At(u, "put") /\ call[u].pool = p THEN {"late"} ELSE {})
      /\ Goto(t, "encode")
      /\ UNCHANGED <<poolKV, es, esKV, rg, rgKV, blob, blobKV, recov, gc, count, told>>

Encode(t) ==
  /\ At(t, "encode")
  /\ call' = [call EXCEPT ![t].pc = "put", ![t].val = pool[call[t].pool]]
  /\ UNCHANGED <<mem, kv, recov, gc, count, told, mishap>>

(* A failure is answered, and the map is left as it is. *)
PutPool(t) ==
  LET p == call[t].pool
  IN  /\ At(t, "put")
      /\ \E ok \in BOOLEAN :
           /\ Writes(ok) /\ Counted(ok)
           /\ poolKV' = IF ok THEN [poolKV EXCEPT ![p] = call[t].val] ELSE poolKV
           /\ told' = IF ok THEN [told EXCEPT ![p] = @ \cup {call[t].op}] ELSE told
      /\ Return(t)
      /\ UNCHANGED <<mem, esKV, rgKV, blobKV, recov, gc, mishap>>

DeletePool(t, p) ==
  /\ Up /\ call[t] = Idle
  /\ pool[p].status \notin {"none", "disabled"}
  /\ Begin(t, "delete", "disable", p)
  /\ UNCHANGED <<mem, kv, recov, gc, count, told, mishap>>

(* DeleteExtentServer: only before InitPool, and not together with it. *)
DeleteExtentServer(t, p, x) ==
  /\ Up /\ call[t] = Idle
  /\ pool[p].status = "created"
  /\ call' = [call EXCEPT ![t] = [Idle EXCEPT !.op = "erase", !.pc = "erase", !.pool = p, !.es = x]]
  /\ Note(p, IF \E u \in Threads : call[u].op = "init" /\ call[u].pool = p THEN {"erased"} ELSE {})
  /\ UNCHANGED <<mem, kv, recov, gc, count, told>>

delete_es(t) ==
  LET p == call[t].pool  gone == {x \in es[p] : x[1] = call[t].es[1]}
  IN  /\ At(t, "erase")
      /\ \E ok \in BOOLEAN :
           /\ Writes(ok) /\ Counted(ok)
           /\ es' = IF ok THEN [es EXCEPT ![p] = @ \ gone] ELSE es
           /\ esKV' = IF ok THEN [esKV EXCEPT ![p] = @ \ gone] ELSE esKV
      /\ Return(t)
      /\ UNCHANGED <<pool, poolKV, rg, rgKV, blob, blobKV, recov, gc, told, mishap>>

-----------------------------------------------------------------------------
(* HeartbeatService::ReportHeartbeat of server x.                          *)

ReportHeartbeat(t, p, x) ==
  /\ Up /\ call[t] = Idle
  /\ pool_valid(p)
  /\ call' = [call EXCEPT ![t] = [Idle EXCEPT !.op = "beat", !.pc = "exist", !.pool = p, !.es = x]]
  /\ UNCHANGED <<mem, kv, recov, gc, count, told, mishap>>

es_exist(t) ==
  LET p == call[t].pool
  IN  /\ At(t, "exist")
      /\ Goto(t, IF pool_valid(p) /\ call[t].es[1] \in Ids(es[p])
                 THEN "update" ELSE "create")
      /\ UNCHANGED <<mem, kv, recov, gc, count, told, mishap>>

(* A known server: a new address is refused, and used_ is of no interest. *)
update_es(t) ==
  /\ At(t, "update")
  /\ Return(t)
  /\ UNCHANGED <<mem, kv, recov, gc, count, told, mishap>>

create_es(t) ==
  /\ At(t, "create")
  /\ IF pool[call[t].pool].status = "created" THEN Goto(t, "insert") ELSE Return(t)
  /\ UNCHANGED <<mem, kv, recov, gc, count, told, mishap>>

(* Mutant: the map is not looked at again under its own lock. *)
insert_es_unchecked(t) ==
  LET p == call[t].pool  x == call[t].es
  IN  /\ At(t, "insert")
      /\ es' = [es EXCEPT ![p] = @ \cup {x}] /\ esKV' = [esKV EXCEPT ![p] = @ \cup {x}]
      /\ Note(p, Late(p))
      /\ Return(t)
      /\ UNCHANGED <<pool, poolKV, rg, rgKV, blob, blobKV, recov, gc, count, told>>

(* EsManager::create_es with check_new_es, under the lock of its map. *)
insert_es(t) ==
  LET p == call[t].pool  x == call[t].es
      new == \A y \in es[p] : y[1] # x[1] /\ y[2] # x[2]
  IN  /\ At(t, "insert")
      /\ \E ok \in BOOLEAN :
           /\ Writes(ok) /\ (new \/ ok) /\ Counted(ok)
           /\ es' = IF new /\ ok THEN [es EXCEPT ![p] = @ \cup {x}] ELSE es
           /\ esKV' = IF new /\ ok THEN [esKV EXCEPT ![p] = @ \cup {x}] ELSE esKV
      /\ Note(p, Late(p))
      /\ Return(t)
      /\ UNCHANGED <<pool, poolKV, rg, rgKV, blob, blobKV, recov, gc, told>>

-----------------------------------------------------------------------------
(* CreateBlob, and RouterService::QueryRouter for an extent of the pool.   *)

CreateBlob(t, p) ==
  /\ Up /\ call[t] = Idle
  /\ pool[p].status = "enabled"
  /\ Begin(t, "blob", "blob", p)
  /\ UNCHANGED <<mem, kv, recov, gc, count, told, mishap>>

create_blob(t, b) ==
  LET p == call[t].pool
  IN  /\ At(t, "blob")
      /\ \A q \in PoolIds : b \notin blob[q] \cup blobKV[q]
      /\ \E ok \in BOOLEAN :
           /\ Writes(ok) /\ Counted(ok)
           /\ blob' = IF ok THEN [blob EXCEPT ![p] = @ \cup {b}] ELSE blob
           /\ blobKV' = IF ok THEN [blobKV EXCEPT ![p] = @ \cup {b}] ELSE blobKV
      /\ Note(p, Late(p) \cup IF poolKV[p].status = "created" THEN {"unstored"} ELSE {})
      /\ Return(t)
      /\ UNCHANGED <<pool, poolKV, es, esKV, rg, rgKV, recov, gc, told>>

(* pool_valid and blob_valid. *)
QueryRouter(t, p) ==
  /\ Up /\ call[t] = Idle
  /\ pool_valid(p) /\ blob[p] # {}
  /\ call' = [call EXCEPT ![t] = [Idle EXCEPT !.op = "query", !.pc = "group", !.pool = p, !.era = count.pools]]
  /\ UNCHANGED <<mem, kv, recov, gc, count, told, mishap>>

(* query_es_group looks at no status and expects the pool to be there. *)
query_es_group(t) ==
  LET p == call[t].pool
  IN  /\ At(t, "group") /\ pool[p].status # "none"
      /\ call' = [call EXCEPT ![t].pc = "router", ![t].ess = Named(rg[p])]
      /\ UNCHANGED <<mem, kv, recov, gc, count, told, mishap>>

(* query_es_router expects the servers to be there.  When the pool is not  *)
(* enabled it fails, and the answer is OK with no server in it.            *)
query_es_router(t) ==
  LET p == call[t].pool
  IN  /\ At(t, "router")
      /\ pool[p].status = "enabled" => call[t].ess \subseteq Ids(es[p])
      /\ Return(t)
      /\ UNCHANGED <<mem, kv, recov, gc, count, told, mishap>>

-----------------------------------------------------------------------------
(* GcManager::deletePools, on the timer's thread.  The timer is set before *)
(* the recovery and fires at once.                                         *)

GcStart ==
  /\ gc.pc = "idle" /\ \E p \in PoolIds : pool[p].status = "disabled"
  /\ gc' = [GcIdle EXCEPT !.pc = "take", !.todo = {p \in PoolIds : pool[p].status = "disabled"}]
  /\ UNCHANGED <<mem, kv, recov, call, count, told, mishap>>

(* list_blobs, or an error for a pool that is not there. *)
GcTake(p) ==
  /\ gc.pc = "take" /\ p \in gc.todo
  /\ gc' = [gc EXCEPT !.pc = IF pool[p].status = "none" THEN "take" ELSE "blobs", !.todo = @ \ {p},
                      !.pool = p, !.blobs = blob[p], !.success = TRUE]
  /\ Note(p, {w \in {"early", "ahead"} : IF w = "early" THEN ~ Up ELSE poolKV[p].status # "disabled"})
  /\ UNCHANGED <<mem, kv, recov, call, count, told>>

GcDone ==
  /\ gc.pc = "take" /\ gc.todo = {}
  /\ gc' = GcIdle
  /\ UNCHANGED <<mem, kv, recov, call, count, told, mishap>>

GcBlob(b) ==
  LET p == gc.pool
  IN  /\ gc.pc = "blobs" /\ b \in gc.blobs
      /\ \E ok \in BOOLEAN :
           /\ Writes(ok) /\ Counted(ok)
           /\ blob' = IF ok THEN [blob EXCEPT ![p] = @ \ {b}] ELSE blob
           /\ blobKV' = IF ok THEN [blobKV EXCEPT ![p] = @ \ {b}] ELSE blobKV
           /\ gc' = [gc EXCEPT !.blobs = @ \ {b}, !.success = @ /\ ok]
      /\ UNCHANGED <<pool, poolKV, es, esKV, rg, rgKV, recov, call, told, mishap>>

(* Mutant: the pool goes although a blob is left. *)
GcBlobsAlways ==
  /\ gc.pc = "blobs" /\ gc.blobs = {}
  /\ gc' = [gc EXCEPT !.pc = "es"]
  /\ UNCHANGED <<mem, kv, recov, call, count, told, mishap>>

(* A blob that could not be deleted keeps the pool for the next time. *)
GcBlobs ==
  /\ gc.pc = "blobs" /\ gc.blobs = {}
  /\ gc' = [gc EXCEPT !.pc = IF gc.success THEN "es" ELSE "take"]
  /\ UNCHANGED <<mem, kv, recov, call, count, told, mishap>>

(* delete_all_es and delete_all_rg empty the maps, and a record whose      *)
(* deletion fails stays in RocksDB.                                        *)
GcServers ==
  LET p == gc.pool
  IN  /\ gc.pc = "es"
      /\ \E ok \in BOOLEAN :
           /\ Writes(ok) /\ Counted(ok)
           /\ es' = [es EXCEPT ![p] = {}]
           /\ esKV' = [esKV EXCEPT ![p] = IF ok THEN @ \ es[p] ELSE @]
           /\ Note(p, IF ok THEN {} ELSE {"kept"})
      /\ gc' = [gc EXCEPT !.pc = "rg"]
      /\ UNCHANGED <<pool, poolKV, rg, rgKV, blob, blobKV, recov, call, told>>

GcGroups ==
  LET p == gc.pool
  IN  /\ gc.pc = "rg"
      /\ \E ok \in BOOLEAN :
           /\ Writes(ok) /\ Counted(ok)
           /\ rg' = [rg EXCEPT ![p] = {}]
           /\ rgKV' = [rgKV EXCEPT ![p] = IF ok THEN {x \in @ : x[1] \notin Ids(rg[p])} ELSE @]
           /\ Note(p, IF ok THEN {} ELSE {"kept"})
      /\ gc' = [gc EXCEPT !.pc = "pool"]
      /\ UNCHANGED <<pool, poolKV, es, esKV, blob, blobKV, recov, call, told>>

delete_pool ==
  LET p == gc.pool
  IN  /\ gc.pc = "pool" /\ Unlocked
      /\ \E ok \in BOOLEAN :
           /\ Writes(ok) /\ Counted(ok)
           /\ poolKV' = IF ok THEN [poolKV EXCEPT ![p] = NoPool] ELSE poolKV
           /\ pool' = IF ok THEN [pool EXCEPT ![p] = NoPool] ELSE pool
           /\ es' = IF ok THEN [es EXCEPT ![p] = {}] ELSE es
           /\ rg' = IF ok THEN [rg EXCEPT ![p] = {}] ELSE rg
           /\ blob' = IF ok THEN [blob EXCEPT ![p] = {}] ELSE blob
           /\ recov' = IF ok THEN [recov EXCEPT ![p] = "done"] ELSE recov
      /\ gc' = [gc EXCEPT !.pc = "take"]
      /\ UNCHANGED <<esKV, rgKV, blobKV, call, told, mishap>>

-----------------------------------------------------------------------------
(* The process stops, and DoRecovery reads the pools back: first all of    *)
(* them, then for each the servers, the groups and the blobs.              *)

Restart ==
  /\ count.restarts < MaxRestarts
  /\ count' = [count EXCEPT !.restarts = @ + 1]
  /\ pool' = poolKV /\ es' = Empty /\ rg' = Empty /\ blob' = Empty
  /\ recov' = [p \in PoolIds |-> IF poolKV[p].status = "none" THEN "done" ELSE "es"]
  /\ call' = [t \in Threads |-> Idle] /\ gc' = GcIdle
  /\ UNCHANGED <<kv, told, mishap>>

RecoverServers(p) ==
  /\ recov[p] = "es"
  /\ es' = [es EXCEPT ![p] = esKV[p]]
  /\ recov' = [recov EXCEPT ![p] = "rg"]
  /\ UNCHANGED <<pool, rg, blob, kv, call, gc, count, told, mishap>>

(* The result is dropped: the pool may come up without groups. *)
RecoverGroups(p) ==
  /\ recov[p] = "rg"
  /\ \E ok \in BOOLEAN :
       /\ Writes(ok) /\ Counted(ok)
       /\ rg' = [rg EXCEPT ![p] = IF ok THEN rgKV[p] ELSE {}]
       /\ Note(p, IF ok THEN {} ELSE {"groupless"})
  /\ recov' = [recov EXCEPT ![p] = "blob"]
  /\ UNCHANGED <<pool, es, blob, kv, call, gc, told>>

RecoverBlobs(p) ==
  /\ recov[p] = "blob"
  /\ blob' = [blob EXCEPT ![p] = blobKV[p]]
  /\ recov' = [recov EXCEPT ![p] = "done"]
  /\ UNCHANGED <<pool, es, rg, kv, call, gc, count, told, mishap>>

-----------------------------------------------------------------------------
Work(t) ==
  \/ InitList(t) \/ InitGroups(t) \/ SetStatus(t) \/ Encode(t) \/ PutPool(t)
  \/ delete_es(t) \/ es_exist(t) \/ update_es(t) \/ create_es(t) \/ insert_es(t)
  \/ \E b \in Blobs : create_blob(t, b)
  \/ query_es_group(t) \/ query_es_router(t)

Request(t, p) ==
  \/ InitPool(t, p) \/ DeletePool(t, p) \/ CreateBlob(t, p) \/ QueryRouter(t, p)
  \/ \E x \in Beats : DeleteExtentServer(t, p, x) \/ ReportHeartbeat(t, p, x)

GC ==
  \/ GcStart \/ GcDone \/ GcBlobs \/ GcServers \/ GcGroups \/ delete_pool
  \/ \E p \in PoolIds : GcTake(p)
  \/ \E b \in Blobs : GcBlob(b)

Recover == \E p \in PoolIds : RecoverServers(p) \/ RecoverGroups(p) \/ RecoverBlobs(p)

Next ==
  \/ \E p \in PoolIds, n \in EsNums : create_pool(p, n) \/ update_pool(p, n)
  \/ \E t \in Threads, p \in PoolIds : Request(t, p)
  \/ \E t \in Threads : Work(t)
  \/ GC \/ Recover \/ Restart

Spec == Init /\ [][Next]_vars
-----------------------------------------------------------------------------
(* Properties.                                                             *)

Clean(p, except) == mishap[p] \cap except = {}

(* Every variable has its type. *)
TypeOK ==
  /\ \A p \in PoolIds :
       /\ pool[p].status \in {"none", "created", "enabled", "disabled"}
       /\ es[p] \subseteq Beats /\ esKV[p] \subseteq Beats
       /\ Named(rg[p] \cup rgKV[p]) \subseteq EsIds
       /\ blob[p] \subseteq Blobs /\ blobKV[p] \subseteq Blobs
       /\ recov[p] \in {"es", "rg", "blob", "done"}
       /\ told[p] \subseteq {"init", "delete"}
  /\ gc.todo \subseteq PoolIds /\ gc.blobs \subseteq Blobs

(* The groups of an enabled pool name servers that the pool has, as both   *)
(* are answered and in RocksDB, at every point of InitPool and after a     *)
(* restart at any point: query_es_router does not look (extent_server.cpp).*)
GroupsKnown ==
  \A p \in PoolIds : Clean(p, {"erased", "leftover", "late", "kept", "early", "ahead", "groupless"}) =>
    /\ pool[p].status = "enabled" /\ recov[p] = "done" =>
         ListReplicationGroups(p) # {} /\ \A g \in ListReplicationGroups(p) :
           \A s \in QueryReplicationGroup(p, g) : QueryExtentServer(p, s) # {}
    /\ poolKV[p].status = "enabled" => rgKV[p] # {} /\ Named(rgKV[p]) \subseteq Ids(esKV[p])

(* Two servers of a pool have different ids and addresses, although two    *)
(* heartbeats may both have been told that the server is new.              *)
ServersDistinct ==
  \A p \in PoolIds : \A ess \in {esKV[p], ListExtentServers(p)} : \A x, y \in ess :
    Clean(p, {"late", "kept", "early"}) /\ x # y => x[1] # y[1] /\ x[2] # y[2]

(* After DeletePool has been answered the pool does not come back.  (It    *)
(* does when InitPool passed its check before: init_pool looks at the      *)
(* status only once.)                                                      *)
DeletedStays ==
  \A p \in PoolIds : "delete" \in told[p] /\ Clean(p, {"late"}) =>
    pool[p].status \in {"none", "disabled"} /\ poolKV[p].status \in {"none", "disabled"}

(* A blob is in a pool that RocksDB knows as initialised, so that InitPool *)
(* cannot deal out its groups again after a restart; and so is a pool      *)
(* whose InitPool has been answered.                                       *)
BlobsInInitedPool ==
  \A p \in PoolIds :
    Clean(p, {"unstored", "late", "early", "kept"}) /\ (blobKV[p] # {} \/ told[p] = {"init"}) =>
      poolKV[p].status # "created"

(* The collector leaves nothing of a pool behind, whatever step the        *)
(* process stops at, so that the next pool with the id starts empty.       *)
EmptyWhenGone ==
  \A p \in PoolIds : poolKV[p].status = "none" /\ Clean(p, {"late", "kept", "early", "groupless"}) =>
    esKV[p] = {} /\ rgKV[p] = {} /\ blobKV[p] = {}

(* A router query comes to an enabled pool whose servers are there, unless *)
(* the pool is deleted during it; it is then told OK with no server, or,   *)
(* when the id has gone to the next pool, that pool's servers.             *)
QueryFinds ==
  \A t \in Threads : LET p == call[t].pool IN
    Clean(p, {"erased", "leftover", "late", "kept", "early", "ahead", "groupless", "unstored"}) /\ call[t].era = count.pools =>
      /\ At(t, "group") \/ At(t, "router") => pool[p].status # "created"
      /\ At(t, "router") /\ pool[p].status = "enabled" => call[t].ess # {} /\ call[t].ess \subseteq Ids(es[p])

(* What QueryReplicationGroup and QueryRouter answer of an enabled pool    *)
(* names servers that are there, also after a restart at any point of      *)
(* InitPool; a blob is in a pool that RocksDB knows as initialised; and no *)
(* two servers of a pool share an id or an address, although two           *)
(* heartbeats may both have been told that the server is new.              *)
PoolsWhole == TypeOK /\ GroupsKnown /\ QueryFinds /\ BlobsInInitedPool /\ ServersDistinct

(* GcManager::deletePools leaves nothing of a pool behind, whatever step   *)
(* the process stops at: the next pool with the id starts empty.  A        *)
(* deleted pool does not come back, unless an InitPool had passed its only *)
(* look at the status.                                                     *)
NothingLeftBehind == EmptyWhenGone /\ DeletedStays
=============================================================================
