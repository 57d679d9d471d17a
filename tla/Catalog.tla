------------------------------- MODULE Catalog -------------------------------
(***************************************************************************)
(* What a client is told of pools and blobs: CreateBlob's choice of a pool *)
(* (allocate_pool), ListBlobs, QueryBlob, QueryPool, ListPools, RenameBlob *)
(* and DeleteBlob, while pools and servers change under them.              *)
(*                                                                         *)
(* A walk over the pools shares the PoolManager's lock with the calls that *)
(* change a pool's status or a blob, and looks at one pool at a time.      *)
(* Extents, groups and restarts are the subject of BlobLifecycle and       *)
(* PoolManager; here is which blob, in which pool, under which name.       *)
(***************************************************************************)
EXTENDS FiniteSets, Naturals, PbTransfer

CONSTANTS
  Pools, Blobs, Owners, BlobNames,
  Handlers,    \* brpc workers
  Walkers,     \* those that serve CreateBlob and ListBlobs too
  PoolTypes,   \* the pool types that requests carry
  BlobTypes,   \* the blob types that requests carry
  Capacity,    \* total_capacity() of a pool
  NoName, NoPool,
  MaxBeats,    \* bound: heartbeats that change what is in use
  MaxLost      \* bound: failed writes to RocksDB

ASSUME CatalogAssumption ==
  /\ Walkers \subseteq Handlers /\ NoPool \notin Pools
  /\ Capacity \in [Pools -> Nat]

VARIABLES
  pool,    \* pool_map_: status_ and type_; "pb" is the type asked for (history)
  used,    \* total_used() of a pool
  blob,    \* the blob_map_ of all pools; "pb" is the type asked for, "retyped"
           \* that the pool's type changed after it was chosen (history)
  blobKV,
  serving, \* the call that a thread is in
  beats,   \* heartbeats so far
  lost,    \* failed writes so far
  overlap  \* blobs that two calls were changing at once (history)

catalogVars == <<pool, used, blob, blobKV, serving, beats, lost, overlap>>

Nowhere == [status |-> "none", type |-> "Unknown", pb |-> "POOL_TYPE_UNKNOWN"]
NoBlob  == [status |-> "none", pool |-> NoPool, user |-> "none",
            type |-> "Unknown", pb |-> "BLOB_TYPE_UNKNOWN", name |-> NoName, retyped |-> FALSE]
NoCall  == [pc |-> "none", user |-> "none", blob |-> "none",
            name |-> NoName, old |-> NoName, val |-> NoBlob, todo |-> {}, best |-> NoPool, min |-> <<1, 1>>,
            res |-> {}, same |-> {}, had |-> {}, dead |-> {}]

CatalogInit ==
  /\ pool = [p \in Pools |-> Nowhere] /\ used = [p \in Pools |-> 0]
  /\ blob = [b \in Blobs |-> NoBlob] /\ blobKV = blob
  /\ serving = [t \in Handlers |-> NoCall]
  /\ beats = 0 /\ lost = 0 /\ overlap = {}

-----------------------------------------------------------------------------
In(t, pc) == serving[t].pc = pc
Ends(t) == serving' = [serving EXCEPT ![t] = NoCall]
Stores(ok) == (ok \/ lost < MaxLost) /\ lost' = lost + (IF ok THEN 0 ELSE 1)

(* The pools that a walk finds in the map, which no call leaves: GcManager *)
(* removes a pool under the lock alone.                                    *)
InMap == {p \in Pools : pool[p].status # "none"}

(* What stays the same for the walks under way (history). *)
Changed(p) == serving' = [t \in Handlers |-> [serving[t] EXCEPT !.same = @ \ {p}]]

(* CreatePool holds the lock alone; InitPool and DeletePool share it. *)
CreatePool(p, ty) ==
  /\ \A t \in Handlers : serving[t].pc \in {"none", "create"}
  /\ pool[p].status = "none" /\ pool_type_valid(ty)
  /\ pool' = [pool EXCEPT ![p] = [status |-> "created", type |-> FromPbPoolType(ty), pb |-> ty]]
  /\ Changed(p)
  /\ UNCHANGED <<used, blob, blobKV, beats, lost, overlap>>

(* UpdatePool with a new type, under the same lock: nothing asks whether   *)
(* the pool has blobs or is about to get one.  A failed write leaves the   *)
(* new type in the map all the same.  (PoolManager has the other fields.)  *)
Retyped(r, here) == IF here THEN [r EXCEPT !.retyped = TRUE] ELSE r

UpdatePool(p, ty) ==
  /\ \A t \in Handlers : serving[t].pc \in {"none", "create"}
  /\ pool[p].status \in {"created", "enabled"} /\ pool_type_valid(ty) /\ ty # pool[p].pb
  /\ pool' = [pool EXCEPT ![p].type = FromPbPoolType(ty), ![p].pb = ty]
  /\ blob' = [b \in Blobs |-> Retyped(blob[b], blob[b].pool = p)]
  /\ blobKV' = [b \in Blobs |-> Retyped(blobKV[b], blobKV[b].pool = p)]
  /\ serving' = [t \in Handlers |-> [serving[t] EXCEPT !.val = Retyped(@, serving[t].best = p)]]
  /\ UNCHANGED <<used, beats, lost, overlap>>

InitPool(p) ==
  /\ pool[p].status = "created"
  /\ pool' = [pool EXCEPT ![p].status = "enabled"]
  /\ Changed(p)
  /\ UNCHANGED <<used, blob, blobKV, beats, lost, overlap>>

DeletePool(p) ==
  /\ pool[p].status \in {"created", "enabled"}
  /\ pool' = [pool EXCEPT ![p].status = "disabled"]
  /\ Changed(p)
  /\ UNCHANGED <<used, blob, blobKV, beats, lost, overlap>>

(* update_es: a heartbeat brings what a server has in use. *)
update_es(p, n) ==
  /\ pool[p].status \in {"created", "enabled"} /\ n \in 0 .. Capacity[p] /\ n # used[p]
  /\ beats < MaxBeats /\ beats' = beats + 1
  /\ used' = [used EXCEPT ![p] = n]
  /\ Changed(p)
  /\ UNCHANGED <<pool, blob, blobKV, lost, overlap>>

-----------------------------------------------------------------------------
(* CreateBlob without a pool id. *)
CreateBlob(t, u, ty) ==
  /\ serving[t] = NoCall
  /\ blobtype_valid(ty)
  /\ serving' = [serving EXCEPT ![t] = [NoCall EXCEPT !.pc = "pick", !.user = u, !.todo = InMap, !.same = InMap,
                                  !.val = [NoBlob EXCEPT !.type = FromPbBlobType(ty), !.pb = ty, !.user = u]]]
  /\ UNCHANGED <<pool, used, blob, blobKV, beats, lost, overlap>>

allocate_pool(type) ==
  Via([General |-> "HDD", Superior |-> "SSD", Excellent |-> "NVMeSSD"], type, "HDD")

Less(x, y) == x[1] * y[2] < y[1] * x[2]

(* One turn of get_pool's loop, which starts with a minimum of 1.0. *)
get_pool(t, p) ==
  LET c == serving[t]
      ratio == <<used[p], Capacity[p]>>
      fits == /\ pool[p].type = allocate_pool(c.val.type) /\ pool[p].status = "enabled"
              /\ Less(ratio, c.min)
  IN  /\ In(t, "pick") /\ p \in c.todo
      /\ serving' = [serving EXCEPT ![t].todo = @ \ {p},
                              ![t].best = IF fits THEN p ELSE @, ![t].min = IF fits THEN ratio ELSE @]
      /\ UNCHANGED <<pool, used, blob, blobKV, beats, lost, overlap>>

(* "can't find valid pool", or the lock is given up and create_blob called.*)
Picked(t) ==
  /\ In(t, "pick") /\ serving[t].todo = {}
  /\ IF serving[t].best = NoPool THEN Ends(t)
     ELSE serving' = [serving EXCEPT ![t].pc = "create", ![t].same = {}, ![t].min = <<1, 1>>]
  /\ UNCHANGED <<pool, used, blob, blobKV, beats, lost, overlap>>

(* create_blob: an id that no map has, the pool's status again, the store, *)
(* then the map.                                                           *)
create_blob(t, b) ==
  LET p == serving[t].best
      val == [serving[t].val EXCEPT !.status = "created", !.pool = p]
  IN  /\ In(t, "create")
      /\ blobKV[b].status = "none"
      /\ \E ok \in BOOLEAN :
           /\ (pool[p].status # "enabled") => ok
           /\ Stores(ok)
           /\ IF ok /\ pool[p].status = "enabled"
              THEN /\ blobKV' = [blobKV EXCEPT ![b] = val]
                   /\ serving' = [serving EXCEPT ![t] = [NoCall EXCEPT !.pc = "insert", !.blob = b, !.val = val]]
              ELSE /\ Ends(t)
                   /\ UNCHANGED blobKV
      /\ UNCHANGED <<pool, used, blob, beats, overlap>>

Insert(t) ==
  /\ In(t, "insert")
  /\ blob' = [blob EXCEPT ![serving[t].blob] = serving[t].val]
  /\ Ends(t)
  /\ UNCHANGED <<pool, used, blobKV, beats, lost, overlap>>

-----------------------------------------------------------------------------
blob_valid(b) == blob[b].status = "created"
Shown(p) == pool[p].status # "disabled"

(* ListBlobs of user u. *)
ListBlobs(t, u) ==
  /\ serving[t] = NoCall
  /\ serving' = [serving EXCEPT ![t] = [NoCall EXCEPT !.pc = "list", !.user = u, !.todo = InMap,
                !.had = {b \in Blobs : blob_valid(b) /\ blob[b].user = u /\ Shown(blob[b].pool)},
                !.dead = {b \in Blobs : blob[b].status = "deleted"}]]
  /\ UNCHANGED <<pool, used, blob, blobKV, beats, lost, overlap>>

(* Mutant: deleted blobs are listed until they are collected. *)
list_blobsDeleted(t, p) ==
  /\ In(t, "list") /\ p \in serving[t].todo
  /\ serving' = [serving EXCEPT ![t].todo = @ \ {p},
       ![t].res = IF Shown(p) THEN @ \cup {b \in Blobs : blob[b].user = serving[t].user /\ blob[b].pool = p} ELSE @]
  /\ UNCHANGED <<pool, used, blob, blobKV, beats, lost, overlap>>

list_blobs(t, p) ==
  /\ In(t, "list") /\ p \in serving[t].todo
  /\ serving' = [serving EXCEPT ![t].todo = @ \ {p},
       ![t].res = IF Shown(p)
                  THEN @ \cup {b \in Blobs : blob_valid(b) /\ blob[b].user = serving[t].user /\ blob[b].pool = p}
                  ELSE @]
  /\ UNCHANGED <<pool, used, blob, blobKV, beats, lost, overlap>>

Listed(t) ==
  /\ In(t, "list") /\ serving[t].todo = {}
  /\ Ends(t)
  /\ UNCHANGED <<pool, used, blob, blobKV, beats, lost, overlap>>

-----------------------------------------------------------------------------
Changers(b) == {t \in Handlers : serving[t].pc \in {"encode", "put"} /\ serving[t].blob = b}

(* A rename (n # NoName) or a deletion: of the pools, the one whose     *)
(* BlobManager has the blob; there its status again, its owner, and the    *)
(* change in place.  The old name is kept for the way back.                *)
ChangeBlob(t, u, b, n) ==
  /\ serving[t] = NoCall
  /\ blob_valid(b) /\ blob[b].user = u
  /\ blob' = IF n # NoName THEN [blob EXCEPT ![b].name = n] ELSE [blob EXCEPT ![b].status = "deleted"]
  /\ serving' = [serving EXCEPT ![t] = [NoCall EXCEPT !.pc = "encode", !.user = u, !.blob = b, !.name = n,
                                              !.old = blob[b].name]]
  /\ overlap' = overlap \cup (IF Changers(b) # {} THEN {b} ELSE {})
  /\ UNCHANGED <<pool, used, blobKV, beats, lost>>

EncodeBlob(t) ==
  /\ In(t, "encode")
  /\ serving' = [serving EXCEPT ![t].pc = "put", ![t].val = blob[serving[t].blob]]
  /\ UNCHANGED <<pool, used, blob, blobKV, beats, lost, overlap>>

(* A failed rename takes the name back; a failed deletion does not.        *)
PutBlob(t) ==
  LET b == serving[t].blob
  IN  /\ In(t, "put")
      /\ \E ok \in BOOLEAN :
           /\ Stores(ok)
           /\ blobKV' = IF ok THEN [blobKV EXCEPT ![b] = serving[t].val] ELSE blobKV
           /\ blob' = IF ok \/ serving[t].name = NoName THEN blob
                      ELSE [blob EXCEPT ![b].name = serving[t].old]
           /\ overlap' = IF ok \/ serving[t].name # NoName THEN overlap ELSE overlap \cup {b}
      /\ Ends(t)
      /\ UNCHANGED <<pool, used, beats>>

(* The requests: a new name is not empty; a deletion brings none. *)
RenameBlob(t, u, b, n) == n # NoName /\ ChangeBlob(t, u, b, n)
DeleteBlob(t, u, b)    == ChangeBlob(t, u, b, NoName)

CatalogNext ==
  \/ \E p \in Pools : InitPool(p) \/ DeletePool(p)
  \/ \E p \in Pools, ty \in PoolTypes : CreatePool(p, ty) \/ UpdatePool(p, ty)
  \/ \E p \in Pools : \E n \in 0 .. Capacity[p] : update_es(p, n)
  \/ \E t \in Walkers, u \in Owners, ty \in BlobTypes : CreateBlob(t, u, ty)
  \/ \E t \in Handlers, p \in Pools : get_pool(t, p) \/ list_blobs(t, p)
  \/ \E t \in Handlers, b \in Blobs : create_blob(t, b)
  \/ \E t \in Walkers, u \in Owners : ListBlobs(t, u)
  \/ \E t \in Handlers, u \in Owners, b \in Blobs, n \in BlobNames : RenameBlob(t, u, b, n)
  \/ \E t \in Handlers, u \in Owners, b \in Blobs : DeleteBlob(t, u, b)
  \/ \E t \in Handlers : \/ Picked(t) \/ Insert(t) \/ Listed(t)
                        \/ EncodeBlob(t) \/ PutBlob(t)

CatalogSpec == CatalogInit /\ [][CatalogNext]_catalogVars

-----------------------------------------------------------------------------
(* The answers of QueryBlob, QueryPool and ListPools. *)
ToPbBlob(b)   == [id |-> b, pool |-> blob[b].pool, user |-> blob[b].user, name |-> blob[b].name,
                  type |-> toPbBlobType(blob[b].type), status |-> toPbBlobStatus(blob[b].status)]
ToPbPool(p)   == [id |-> p, type |-> ToPbPoolType(pool[p].type), status |-> ToPbPoolStatus(pool[p].status)]
query_blob(b) == IF blob_valid(b) THEN {ToPbBlob(b)} ELSE {}
query_pool(p) == IF pool[p].status \in {"created", "enabled"} THEN {ToPbPool(p)} ELSE {}
list_pools    == {ToPbPool(p) : p \in {q \in Pools : pool[q].status = "enabled"}}
QueryBlob(b)  == query_blob(b)
QueryPool(p)  == query_pool(p)
ListPools     == list_pools

CatalogTypes ==
  /\ \A p \in Pools : used[p] \in 0 .. Capacity[p] /\ pool[p].type # "Special"
  /\ \A b \in Blobs : blob[b].status \in {"none", "created", "deleted"}
  /\ overlap \subseteq Blobs

Disk == [BLOB_TYPE_GENERAL |-> "POOL_TYPE_HDD", BLOB_TYPE_SUPERIOR |-> "POOL_TYPE_SSD",
         BLOB_TYPE_EXCELLENT |-> "POOL_TYPE_NVME_SSD"]

(* What QueryBlob, QueryPool and ListPools answer is what was asked for,   *)
(* after two conversions each, and a blob whose pool CreateBlob chose lies *)
(* on the disks of its type, unless UpdatePool changed the pool's type     *)
(* since get_pool chose it.  Domains come back as asked for, and the       *)
(* statuses of servers and groups are told apart.                          *)
AnswersAsAsked ==
  /\ \A b \in Blobs : \A x \in QueryBlob(b) :
       /\ x.type = blob[b].pb /\ x.status = "BLOB_STATUS_CREATED"
       /\ \A y \in QueryPool(x.pool) : blob[b].retyped \/ y.type = Disk[x.type]
  /\ \A p \in Pools : \A y \in QueryPool(p) : y.type = pool[p].pb /\ y.status # "POOL_STATUS_UNKNOWN"
  /\ \A y \in ListPools : QueryPool(y.id) = {y}
  /\ ConversionsKeep

(* At the end of get_pool's walk, whatever changed during it: of the pools *)
(* that did not, none was passed over for a fuller one, and CreateBlob     *)
(* finds "no valid pool" only if all of those are full or of other kinds.  *)
LeastUsedChosen ==
  \A t \in Handlers : In(t, "pick") /\ serving[t].todo = {} =>
    \A q \in serving[t].same :
      pool[q].status = "enabled" /\ pool[q].pb = Disk[serving[t].val.pb]
        => ~ Less(<<used[q], Capacity[q]>>, serving[t].min)

(* A finished ListBlobs has every blob that was the user's from before its *)
(* start until now, and none that was deleted before it or is another's,   *)
(* although the walk looks at one pool at a time.                          *)
ListsAll ==
  \A t \in Handlers : In(t, "list") /\ serving[t].todo = {} =>
    /\ {b \in serving[t].had : blob_valid(b) /\ Shown(blob[b].pool)} \subseteq serving[t].res
    /\ \A b \in serving[t].res : b \notin serving[t].dead /\ blob[b].user = serving[t].user

(* RocksDB has the name and the status that QueryBlob shows, when no call  *)
(* is changing the blob, unless two calls changed it at once or RocksDB    *)
(* refused a deletion.                                                     *)
NameStored ==
  \A b \in Blobs : b \notin overlap /\ Changers(b) = {} /\ blob[b].status # "none" => blob[b] = blobKV[b]

(* What clients are told of pools and blobs.  Queries answer what was      *)
(* asked for, after two conversions each; get_pool passes no unchanged     *)
(* pool over for a fuller one; a finished ListBlobs has every blob that    *)
(* was the user's all along and none that was deleted before it, although  *)
(* it walks pool by pool; and RocksDB has the name and the status that     *)
(* QueryBlob shows when no call changes the blob and none has overlapped.  *)
CatalogAsTold == CatalogTypes /\ AnswersAsAsked /\ LeastUsedChosen /\ ListsAll /\ NameStored
=============================================================================
