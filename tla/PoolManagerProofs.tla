-------------------------- MODULE PoolManagerProofs --------------------------
(***************************************************************************)
(* Proofs about the pools of the extent manager, for every set of pool     *)
(* ids, servers, blobs and workers and every number of failed writes,      *)
(* restarts and pools: what PoolsWhole and NothingLeftBehind say holds in  *)
(* every state.  Both make exceptions for what the code does not handle    *)
(* (mishap); a step that is not one of these never brings them about.      *)
(***************************************************************************)
EXTENDS PoolManager, FiniteSetTheorems, TLAPS

Statuses == {"none", "created", "enabled", "disabled"}
Mishaps  == {"late", "erased", "leftover", "unstored", "early", "ahead", "kept", "groupless"}
PoolRecs == [status : Statuses, es_num : Nat]
PCs      == {"none", "list", "groups", "enable", "disable", "encode", "put", "erase",
             "exist", "update", "create", "insert", "blob", "group", "router"}
Ops      == {"none", "init", "delete", "erase", "beat", "blob", "query"}
CallRecs == [op : Ops, pc : PCs, pool : PoolIds, es : Beats, ess : SUBSET EsIds, val : PoolRecs, era : Nat]
GcRecs   == [pc : {"idle", "take", "blobs", "es", "rg", "pool"}, todo : SUBSET PoolIds, pool : PoolIds,
             blobs : SUBSET Blobs, success : BOOLEAN]
Counts   == [faults : Nat, restarts : Nat, pools : Nat]

(* The lock is shared by a thread that is at one of these.                 *)
LockPCs == {"list", "groups", "enable", "disable", "encode", "put", "erase", "insert", "blob"}
GcWork  == {"blobs", "es", "rg", "pool"}

Types ==
  /\ pool \in [PoolIds -> PoolRecs] /\ poolKV \in [PoolIds -> PoolRecs]
  /\ es \in [PoolIds -> SUBSET Beats] /\ esKV \in [PoolIds -> SUBSET Beats]
  /\ rg \in [PoolIds -> SUBSET ((Nat \ {0}) \X EsIds)] /\ rgKV \in [PoolIds -> SUBSET ((Nat \ {0}) \X EsIds)]
  /\ blob \in [PoolIds -> SUBSET Blobs] /\ blobKV \in [PoolIds -> SUBSET Blobs]
  /\ recov \in [PoolIds -> {"es", "rg", "blob", "done"}]
  /\ call \in [Threads -> CallRecs]
  /\ gc \in GcRecs
  /\ count \in Counts
  /\ told \in [PoolIds -> SUBSET {"init", "delete"}]
  /\ mishap \in [PoolIds -> SUBSET Mishaps]

Base  == {"late", "kept", "early"}
Whole == {"erased", "leftover", "late", "kept", "early", "ahead", "groupless"}

(* Groups that name servers which are there.                               *)
Sound(groups, servers) == groups # {} /\ Named(groups) \subseteq Ids(servers)

-----------------------------------------------------------------------------
(* What holds of a pool, whatever has happened.                            *)
StatusOK(p) ==
  /\ pool[p].status = "none" <=> poolKV[p].status = "none"
  /\ pool[p].status = "created" => poolKV[p].status = "created"
  /\ pool[p].status = "none" => es[p] = {} /\ rg[p] = {} /\ blob[p] = {} /\ recov[p] = "done"
  /\ pool[p].status # "none" => pool[p].es_num # 0
  /\ poolKV[p].status # "none" => poolKV[p].es_num # 0

DeletedOK(p) ==
  "delete" \in told[p] /\ Clean(p, {"late"}) =>
    pool[p].status \in {"none", "disabled"} /\ poolKV[p].status \in {"none", "disabled"}

(* Its servers and blobs are in RocksDB as they are in the maps.           *)
ServersOK(p) ==
  Clean(p, Base) =>
    /\ es[p] = esKV[p] \/ (recov[p] = "es" /\ es[p] = {})
    /\ \A x, y \in esKV[p] : x # y => x[1] # y[1] /\ x[2] # y[2]
    /\ poolKV[p].status = "none" => esKV[p] = {}

BlobsOK(p) ==
  /\ Clean(p, Base) =>
       /\ recov[p] = "done" => blob[p] = blobKV[p]
       /\ poolKV[p].status = "none" => blobKV[p] = {}
  /\ Clean(p, Base \cup {"unstored"}) /\ (blobKV[p] # {} \/ told[p] = {"init"}) => poolKV[p].status # "created"

(* No group in RocksDB that the map does not have.                         *)
GroupsStored(p) ==
  Clean(p, Base \cup {"groupless"}) =>
    /\ recov[p] \in {"blob", "done"} => Ids(rgKV[p]) \subseteq Ids(rg[p])
    /\ poolKV[p].status = "none" => rgKV[p] = {}

GroupsOK(p) ==
  Clean(p, Whole) =>
    /\ "enabled" \in {pool[p].status, poolKV[p].status} => Sound(rgKV[p], esKV[p])
    /\ pool[p].status = "enabled" /\ recov[p] \in {"blob", "done"} => Sound(rg[p], es[p])

PoolOK(p) ==
  StatusOK(p) /\ DeletedOK(p) /\ ServersOK(p) /\ BlobsOK(p) /\ GroupsStored(p) /\ GroupsOK(p)

-----------------------------------------------------------------------------
(* What holds of a call.  First, where it may be.                          *)
PlaceOK(t) ==
  /\ call[t].pc # "none" => Up
  /\ call[t].pc \in LockPCs => pool[call[t].pool].status # "none"
  /\ call[t].pc \in {"list", "groups", "enable"} => call[t].op = "init"
  /\ call[t].pc = "disable" => call[t].op = "delete"
  /\ call[t].pc \in {"encode", "put"} => call[t].op \in {"init", "delete"}
  /\ call[t].op = "init" => call[t].pc \in {"list", "groups", "enable", "encode", "put"}
  /\ call[t].era <= count.pools

(* init_pool and soft_delete_pool store what they have set, unless another *)
(* call has set it since.                                                  *)
StoreOK(t) ==
  LET p == call[t].pool
  IN  /\ call[t].pc \in {"encode", "put"} => pool[p].status \in {"enabled", "disabled"}
      /\ call[t].pc = "put" => call[t].val.status \in {"enabled", "disabled"} /\ call[t].val.es_num # 0
      /\ Clean(p, {"late"}) =>
           /\ call[t].pc = "put" => call[t].val.status = pool[p].status
           /\ call[t].pc \in {"encode", "put"} /\ call[t].op = "delete" => pool[p].status = "disabled"

(* A server is not erased under an InitPool.                               *)
EraseOK(t) ==
  LET p == call[t].pool
  IN  call[t].pc = "erase" =>
        /\ Clean(p, {"erased"}) => \A u \in Threads : ~ (call[u].op = "init" /\ call[u].pool = p)
        /\ Clean(p, {"erased", "late"}) => pool[p].status \in {"created", "disabled"} /\ poolKV[p].status # "enabled"

(* The servers that an InitPool has seen are still there.                  *)
InitOK(t) ==
  LET p == call[t].pool
  IN  Clean(p, Whole) /\ pool[p].status \in {"created", "enabled"} =>
        /\ call[t].pc = "list" => es[p] # {}
        /\ call[t].pc = "groups" => call[t].ess # {} /\ call[t].ess \subseteq Ids(es[p])
        /\ call[t].pc = "enable" => Sound(rg[p], es[p]) /\ Sound(rgKV[p], esKV[p])

(* A router query sees a pool with groups, until the next pool is made.    *)
QueryOK(t) ==
  LET p == call[t].pool
  IN  Clean(p, Whole \cup {"unstored"}) /\ call[t].era = count.pools =>
        /\ call[t].pc \in {"group", "router"} => pool[p].status # "created"
        /\ call[t].pc = "router" /\ pool[p].status = "enabled" => call[t].ess # {} /\ call[t].ess \subseteq Ids(es[p])

CallOK(t) == PlaceOK(t) /\ StoreOK(t) /\ EraseOK(t) /\ InitOK(t) /\ QueryOK(t)

-----------------------------------------------------------------------------
(* The collector works on pools that stay disabled, and a step of it has   *)
(* emptied what the next ones count on.                                    *)
GcOK ==
  /\ \A p \in gc.todo : Clean(p, {"late"}) => pool[p].status = "disabled"
  /\ gc.pc \in GcWork =>
       LET p == gc.pool
       IN  /\ p \notin gc.todo
           /\ Clean(p, {"late"}) => pool[p].status = "disabled"
           /\ Clean(p, {"late", "ahead"}) => poolKV[p].status = "disabled"
           /\ Clean(p, Base) =>
                /\ Up
                /\ gc.pc = "blobs" /\ gc.success => blob[p] \subseteq gc.blobs
                /\ gc.pc \in {"es", "rg", "pool"} => blob[p] = {}
                /\ gc.pc \in {"rg", "pool"} => es[p] = {}
           /\ Clean(p, Base \cup {"groupless"}) /\ gc.pc = "pool" => rg[p] = {}

(* The inductive invariant.                                                *)
PoolsInv == Types /\ GcOK /\ (\A p \in PoolIds : PoolOK(p)) /\ (\A t \in Threads : CallOK(t))

-----------------------------------------------------------------------------
(* Facts about the definitions.                                            *)

LEMMA ConstFacts ==
  /\ NoPool \in PoolRecs /\ NoPool.status = "none"
  /\ Idle \in CallRecs /\ Idle.pc = "none" /\ Idle.op = "none" /\ Idle.era = 0
<1>1. NoPool \in PoolRecs /\ NoPool.status = "none"
  BY DEF NoPool, PoolRecs, Statuses
<1>2. (CHOOSE p \in PoolIds : TRUE) \in PoolIds
  BY PoolsAssumption
<1>3. (CHOOSE x \in Beats : TRUE) \in Beats
  BY PoolsAssumption
<1>4. Idle \in CallRecs /\ Idle.pc = "none" /\ Idle.op = "none" /\ Idle.era = 0
  BY <1>1, <1>2, <1>3 DEF Idle, CallRecs, Ops, PCs
<1> QED
  BY <1>1, <1>4

LEMMA GcIdleFacts ==
  GcIdle \in GcRecs /\ GcIdle.pc = "idle" /\ GcIdle.todo = {}
<1>1. PICK q \in PoolIds : q = CHOOSE p \in PoolIds : TRUE
  BY PoolsAssumption
<1>2. GcIdle = [pc |-> "idle", todo |-> {}, pool |-> q, blobs |-> {}, success |-> TRUE]
  BY <1>1 DEF GcIdle
<1>3. GcIdle.pc = "idle" /\ GcIdle.todo = {}
  BY <1>2
<1>4. GcIdle \in GcRecs
  BY <1>2 DEF GcRecs
<1> QED
  BY <1>3, <1>4

(* Which exceptions imply which.                                           *)
LEMMA CleanIn ==
  \A m :
    /\ m \cap (Whole \cup {"unstored"}) = {} => m \cap Whole = {} /\ m \cap (Base \cup {"unstored"}) = {}
    /\ m \cap Whole = {} =>
         /\ m \cap (Base \cup {"groupless"}) = {} /\ m \cap {"late", "ahead"} = {}
         /\ m \cap {"erased", "late"} = {} /\ m \cap {"erased"} = {}
    /\ m \cap (Base \cup {"groupless"}) = {} => m \cap Base = {}
    /\ m \cap (Base \cup {"unstored"}) = {} => m \cap Base = {}
    /\ m \cap {"late", "ahead"} = {} => m \cap {"late"} = {}
    /\ m \cap {"erased", "late"} = {} => m \cap {"erased"} = {} /\ m \cap {"late"} = {}
    /\ m \cap Base = {} => m \cap {"late"} = {}
BY DEF Whole, Base

LEMMA CleanFacts ==
  \A p \in PoolIds :
    /\ Clean(p, Whole \cup {"unstored"}) => Clean(p, Whole) /\ Clean(p, Base \cup {"unstored"})
    /\ Clean(p, Whole) =>
         /\ Clean(p, Base \cup {"groupless"}) /\ Clean(p, {"late", "ahead"})
         /\ Clean(p, {"erased", "late"}) /\ Clean(p, {"erased"})
    /\ Clean(p, Base \cup {"groupless"}) => Clean(p, Base)
    /\ Clean(p, Base \cup {"unstored"}) => Clean(p, Base)
    /\ Clean(p, {"late", "ahead"}) => Clean(p, {"late"})
    /\ Clean(p, {"erased", "late"}) => Clean(p, {"erased"}) /\ Clean(p, {"late"})
    /\ Clean(p, Base) => Clean(p, {"late"})
BY CleanIn DEF Clean

LEMMA CleanNext ==
  \A p \in PoolIds :
    /\ Clean(p, Whole \cup {"unstored"})' => Clean(p, Whole)' /\ Clean(p, Base \cup {"unstored"})'
    /\ Clean(p, Whole)' =>
         /\ Clean(p, Base \cup {"groupless"})' /\ Clean(p, {"late", "ahead"})'
         /\ Clean(p, {"erased", "late"})' /\ Clean(p, {"erased"})'
    /\ Clean(p, Base \cup {"groupless"})' => Clean(p, Base)'
    /\ Clean(p, Base \cup {"unstored"})' => Clean(p, Base)'
    /\ Clean(p, {"late", "ahead"})' => Clean(p, {"late"})'
    /\ Clean(p, {"erased", "late"})' => Clean(p, {"erased"})' /\ Clean(p, {"late"})'
    /\ Clean(p, Base)' => Clean(p, {"late"})'
BY CleanIn DEF Clean

(* What has happened to a pool is not forgotten.                           *)
Grows == \A p \in PoolIds : mishap[p] \subseteq mishap'[p]

LEMMA StillClean ==
  ASSUME Grows
  PROVE  \A p \in PoolIds : \A S : Clean(p, S)' => Clean(p, S)
BY DEF Clean, Grows

LEMMA NoteFacts ==
  ASSUME Types, NEW p \in PoolIds, NEW what \in SUBSET Mishaps, Note(p, what)
  PROVE  /\ Grows /\ mishap' \in [PoolIds -> SUBSET Mishaps]
         /\ \A w \in what : \A S : w \in S => ~ Clean(p, S)'
<1>1. mishap \in [PoolIds -> SUBSET Mishaps] /\ mishap' = [mishap EXCEPT ![p] = mishap[p] \cup what]
  BY DEF Types, Note
<1>2. Grows /\ mishap' \in [PoolIds -> SUBSET Mishaps] /\ mishap'[p] = mishap[p] \cup what
  BY <1>1 DEF Grows
<1> QED
  BY <1>2 DEF Clean

LEMMA SameMishaps ==
  ASSUME UNCHANGED mishap
  PROVE  Grows
BY DEF Grows

(* Ids and names of what was added or dropped.                             *)
LEMMA IdsFacts ==
  /\ \A A, B : A \subseteq B => Ids(A) \subseteq Ids(B) /\ Named(A) \subseteq Named(B)
  /\ \A A : Ids(A) = {} <=> A = {}
  /\ \A A, B : Ids(A \cup B) = Ids(A) \cup Ids(B) /\ Named(A \cup B) = Named(A) \cup Named(B)
BY DEF Ids, Named

-----------------------------------------------------------------------------
(* What a step leaves alone keeps what was known of it.                    *)

(* A pool of which nothing is changed.                                     *)
SamePool(p) ==
  /\ pool'[p] = pool[p] /\ poolKV'[p] = poolKV[p] /\ es'[p] = es[p] /\ esKV'[p] = esKV[p]
  /\ rg'[p] = rg[p] /\ rgKV'[p] = rgKV[p] /\ blob'[p] = blob[p] /\ blobKV'[p] = blobKV[p]
  /\ recov'[p] = recov[p] /\ told'[p] = told[p]

LEMMA PoolKept ==
  ASSUME NEW p \in PoolIds, PoolOK(p), SamePool(p), Grows
  PROVE  PoolOK(p)'
<1>1. StatusOK(p)'
  BY DEF PoolOK, StatusOK, SamePool
<1>2. DeletedOK(p)'
  BY StillClean DEF PoolOK, DeletedOK, SamePool
<1>3. ServersOK(p)'
  BY StillClean DEF PoolOK, ServersOK, SamePool
<1>4. BlobsOK(p)'
  BY StillClean DEF PoolOK, BlobsOK, SamePool
<1>5. GroupsStored(p)'
  BY StillClean DEF PoolOK, GroupsStored, SamePool
<1>6. GroupsOK(p)'
  BY StillClean DEF PoolOK, GroupsOK, SamePool
<1> QED
  BY <1>1, <1>2, <1>3, <1>4, <1>5, <1>6 DEF PoolOK

(* A call whose pool keeps its status, and its servers and groups while it *)
(* counts on them.                                                         *)
LEMMA CallKept ==
  ASSUME NEW t \in Threads, call \in [Threads -> CallRecs], CallOK(t), call'[t] = call[t], Grows, Up => Up',
         count'.pools = count.pools,
         NEW p \in PoolIds, p = call[t].pool,
         pool'[p].status = pool[p].status,
         Clean(p, {"late"})' => poolKV'[p].status = poolKV[p].status \/ poolKV'[p].status = pool[p].status,
         \A u \in Threads : call[t].pc = "erase" /\ Clean(p, {"erased"})' /\ call'[u].op = "init" /\ call'[u].pool = p
           => call[u].op = "init" /\ call[u].pool = p,
         Clean(p, Whole)' /\ pool[p].status \in {"created", "enabled"}
           /\ (call[t].op = "init" \/ pool[p].status = "enabled") =>
           /\ Ids(es[p]) \subseteq Ids(es'[p])
           /\ call[t].pc = "enable" /\ Sound(rg[p], es[p]) => Sound(rg'[p], es'[p])
           /\ call[t].pc = "enable" /\ Sound(rgKV[p], esKV[p]) => Sound(rgKV'[p], esKV'[p])
  PROVE  CallOK(t)'
<1>1. PlaceOK(t)'
  BY DEF CallOK, PlaceOK
<1>2. StoreOK(t)'
  BY StillClean DEF CallOK, StoreOK
<1>3. EraseOK(t)'
  BY StillClean, CleanNext DEF CallOK, EraseOK
<1>4. InitOK(t)'
  <2>1. SUFFICES ASSUME Clean(p, Whole)', pool[p].status \in {"created", "enabled"}
                 PROVE  /\ call[t].pc = "list" => es'[p] # {}
                        /\ call[t].pc = "groups" => call[t].ess # {} /\ call[t].ess \subseteq Ids(es'[p])
                        /\ call[t].pc = "enable" => Sound(rg'[p], es'[p]) /\ Sound(rgKV'[p], esKV'[p])
    BY DEF InitOK
  <2>2. Clean(p, Whole)
    BY <2>1, StillClean
  <2>3. /\ call[t].pc = "list" => es[p] # {}
        /\ call[t].pc = "groups" => call[t].ess # {} /\ call[t].ess \subseteq Ids(es[p])
        /\ call[t].pc = "enable" => Sound(rg[p], es[p]) /\ Sound(rgKV[p], esKV[p])
    BY <2>1, <2>2 DEF CallOK, InitOK
  <2>4. SUFFICES ASSUME call[t].pc \in {"list", "groups", "enable"}
                 PROVE  /\ call[t].pc = "list" => es'[p] # {}
                        /\ call[t].pc = "groups" => call[t].ess # {} /\ call[t].ess \subseteq Ids(es'[p])
                        /\ call[t].pc = "enable" => Sound(rg'[p], es'[p]) /\ Sound(rgKV'[p], esKV'[p])
    OBVIOUS
  <2>5. call[t].op = "init"
    BY <2>4 DEF CallOK, PlaceOK
  <2>6. Ids(es[p]) \subseteq Ids(es'[p]) /\ (es[p] # {} => es'[p] # {})
    BY <2>1, <2>5, IdsFacts
  <2> QED
    BY <2>1, <2>3, <2>5, <2>6
<1>5. QueryOK(t)'
  <2>1. SUFFICES ASSUME Clean(p, Whole \cup {"unstored"})', call[t].era = count.pools
                 PROVE  /\ call[t].pc \in {"group", "router"} => pool[p].status # "created"
                        /\ call[t].pc = "router" /\ pool[p].status = "enabled" =>
                             call[t].ess # {} /\ call[t].ess \subseteq Ids(es'[p])
    BY DEF QueryOK
  <2>2. Clean(p, Whole \cup {"unstored"}) /\ Clean(p, Whole)'
    BY <2>1, StillClean, CleanNext
  <2> QED
    BY <2>1, <2>2 DEF CallOK, QueryOK
<1> QED
  BY <1>1, <1>2, <1>3, <1>4, <1>5 DEF CallOK

(* The collector, when its pools stay disabled and nothing is put in them. *)
LEMMA GcKept ==
  ASSUME GcOK, gc \in GcRecs, UNCHANGED gc, Grows, Up => Up',
         \A p \in PoolIds : Clean(p, {"late"})' /\ pool[p].status = "disabled" =>
           /\ pool'[p].status = "disabled"
           /\ poolKV[p].status = "disabled" => poolKV'[p].status = "disabled"
           /\ blob'[p] \subseteq blob[p] /\ es'[p] \subseteq es[p] /\ rg'[p] \subseteq rg[p]
  PROVE  GcOK'
<1>1. gc.todo \subseteq PoolIds /\ gc.pool \in PoolIds
  BY DEF GcRecs
<1>2. \A p \in gc.todo : Clean(p, {"late"})' => pool'[p].status = "disabled"
  BY <1>1, StillClean DEF GcOK
<1>3. ASSUME gc.pc \in GcWork, NEW p \in PoolIds, p = gc.pool
      PROVE  /\ p \notin gc.todo
             /\ Clean(p, {"late"})' => pool'[p].status = "disabled"
             /\ Clean(p, {"late", "ahead"})' => poolKV'[p].status = "disabled"
             /\ Clean(p, Base)' =>
                  /\ Up'
                  /\ gc.pc = "blobs" /\ gc.success => blob'[p] \subseteq gc.blobs
                  /\ gc.pc \in {"es", "rg", "pool"} => blob'[p] = {}
                  /\ gc.pc \in {"rg", "pool"} => es'[p] = {}
             /\ Clean(p, Base \cup {"groupless"})' /\ gc.pc = "pool" => rg'[p] = {}
  <2>1. p \notin gc.todo /\ (Clean(p, {"late"})' => pool'[p].status = "disabled")
    BY <1>3, StillClean DEF GcOK
  <2>2. Clean(p, {"late", "ahead"})' => poolKV'[p].status = "disabled"
    BY <1>3, StillClean, CleanNext DEF GcOK
  <2>3. ASSUME Clean(p, Base)'
        PROVE  /\ Up'
               /\ gc.pc = "blobs" /\ gc.success => blob'[p] \subseteq gc.blobs
               /\ gc.pc \in {"es", "rg", "pool"} => blob'[p] = {}
               /\ gc.pc \in {"rg", "pool"} => es'[p] = {}
    <3>1. Clean(p, Base) /\ Clean(p, {"late"})' /\ Clean(p, {"late"})
      BY <2>3, StillClean, CleanNext
    <3>2. blob'[p] \subseteq blob[p] /\ es'[p] \subseteq es[p]
      BY <1>3, <3>1 DEF GcOK
    <3> QED
      BY <1>3, <3>1, <3>2 DEF GcOK
  <2>4. ASSUME Clean(p, Base \cup {"groupless"})', gc.pc = "pool"
        PROVE  rg'[p] = {}
    <3>1. Clean(p, Base \cup {"groupless"}) /\ Clean(p, {"late"})' /\ Clean(p, {"late"})
      BY <2>4, StillClean, CleanNext
    <3>2. rg'[p] \subseteq rg[p]
      BY <1>3, <3>1 DEF GcOK
    <3> QED
      BY <1>3, <2>4, <3>1, <3>2 DEF GcOK
  <2> QED
    BY <2>1, <2>2, <2>3, <2>4
<1> QED
  BY <1>1, <1>2, <1>3 DEF GcOK

-----------------------------------------------------------------------------
(* Steps that change nothing but the call they are a step of.              *)

LEMMA OnlyCalls ==
  ASSUME PoolsInv, UNCHANGED <<mem, kv, recov, gc, count, told>>,
         Grows, mishap' \in [PoolIds -> SUBSET Mishaps],
         NEW t \in Threads, NEW c \in CallRecs, call' = [call EXCEPT ![t] = c],
         \A u \in Threads : u # t /\ c.op = "init" /\ call[u].pc = "erase" /\ call[u].pool = c.pool
                            /\ Clean(c.pool, {"erased"})'
           => call[t].op = "init" /\ call[t].pool = c.pool,
         CallOK(t)'
  PROVE  PoolsInv'
<1>0. Types /\ GcOK /\ (\A p \in PoolIds : PoolOK(p)) /\ (\A u \in Threads : CallOK(u))
  BY DEF PoolsInv
<1>1. /\ UNCHANGED <<pool, es, rg, blob, poolKV, esKV, rgKV, blobKV, recov, gc, count, told>>
      /\ Up' = Up
  BY DEF mem, kv, Up
<1>2. Types'
  BY <1>0, <1>1 DEF Types
<1>3. GcOK'
  BY <1>0, <1>1, GcKept DEF Types
<1>4. ASSUME NEW p \in PoolIds PROVE PoolOK(p)'
  BY <1>0, <1>1, PoolKept DEF SamePool
<1>5. ASSUME NEW u \in Threads, u # t PROVE CallOK(u)'
  <2>1. call'[u] = call[u] /\ call'[t] = c /\ \A v \in Threads : v # t => call'[v] = call[v]
    BY <1>0, <1>5 DEF Types
  <2>2. PICK p \in PoolIds : p = call[u].pool
    BY <1>0 DEF Types, CallRecs
  <2>3. \A v \in Threads : call[u].pc = "erase" /\ Clean(p, {"erased"})' /\ call'[v].op = "init" /\ call'[v].pool = p
           => call[v].op = "init" /\ call[v].pool = p
    BY <1>5, <2>1, <2>2
  <2>4. call \in [Threads -> CallRecs] /\ CallOK(u)
    BY <1>0 DEF Types
  <2>5. pool'[p].status = pool[p].status /\ poolKV'[p].status = poolKV[p].status /\ es'[p] = es[p]
        /\ rg'[p] = rg[p] /\ rgKV'[p] = rgKV[p] /\ esKV'[p] = esKV[p] /\ count'.pools = count.pools
    BY <1>1
  <2> QED
    BY <1>1, <2>1, <2>2, <2>3, <2>4, <2>5, CallKept
<1> QED
  BY <1>2, <1>3, <1>4, <1>5 DEF PoolsInv

(* A call as it is, and as its steps make it.                              *)
LEMMA CallFacts ==
  ASSUME Types, NEW t \in Threads
  PROVE  /\ call[t] \in CallRecs /\ call[t].pool \in PoolIds /\ call[t].es \in Beats
         /\ \A x \in PCs : [call[t] EXCEPT !.pc = x] \in CallRecs
BY DEF Types, CallRecs

LEMMA EditPc ==
  ASSUME NEW c \in CallRecs, NEW y \in PCs, NEW d, d = [c EXCEPT !.pc = y]
  PROVE  d \in CallRecs /\ d.pc = y /\ d.op = c.op /\ d.pool = c.pool /\ d.era = c.era /\ d.ess = c.ess
BY DEF CallRecs

LEMMA MovedFacts ==
  ASSUME Types, NEW t \in Threads, NEW c, call' = [call EXCEPT ![t] = c]
  PROVE  call'[t] = c /\ \A u \in Threads : u # t => call'[u] = call[u]
BY DEF Types

(* A call that ends is of no more concern.                                 *)
LEMMA IdleOK ==
  ASSUME NEW t \in Threads, call'[t] = Idle, count' \in Counts
  PROVE  CallOK(t)'
<1>1. count'.pools \in Nat
  BY DEF Counts
<1> QED
  BY <1>1, ConstFacts DEF CallOK, PlaceOK, StoreOK, EraseOK, InitOK, QueryOK, LockPCs

(* Steps to a place at which little is expected.                           *)
LEMMA EasyPlace ==
  ASSUME PoolsInv, UNCHANGED <<mem, kv, recov, gc, count, told, mishap>>,
         NEW t \in Threads, NEW c \in CallRecs, call' = [call EXCEPT ![t] = c], Up,
         c.pc \in {"none", "exist", "update", "create", "disable", "blob", "insert"},
         c.op # "init", c.pc = "disable" => c.op = "delete", c.era <= count.pools,
         c.pc \in LockPCs => pool[c.pool].status # "none"
  PROVE  PoolsInv'
<1>1. Grows /\ mishap' \in [PoolIds -> SUBSET Mishaps] /\ Types
  BY SameMishaps DEF PoolsInv, Types
<1>2. call'[t] = c
  BY <1>1, MovedFacts
<1>3. Up' /\ pool' = pool /\ count' = count
  BY DEF Up, mem
<1>4. CallOK(t)'
  BY <1>2, <1>3 DEF CallOK, PlaceOK, StoreOK, EraseOK, InitOK, QueryOK
<1> QED
  BY <1>1, <1>4, OnlyCalls

LEMMA EasySteps ==
  ASSUME PoolsInv, NEW t \in Threads, NEW p \in PoolIds, NEW x \in Beats,
         \/ DeletePool(t, p) \/ CreateBlob(t, p) \/ ReportHeartbeat(t, p, x)
         \/ es_exist(t) \/ update_es(t) \/ create_es(t) \/ query_es_router(t)
  PROVE  PoolsInv'
<1>0. Types /\ CallOK(t)
  BY DEF PoolsInv
<1>1. UNCHANGED <<mem, kv, recov, gc, count, told, mishap>>
  BY DEF DeletePool, CreateBlob, ReportHeartbeat, es_exist, update_es, create_es, query_es_router
<1>2. count.pools \in Nat /\ 0 <= count.pools
  BY <1>0 DEF Types, Counts
<1>3. CASE DeletePool(t, p)
  <2> DEFINE c == [Idle EXCEPT !.op = "delete", !.pc = "disable", !.pool = p]
  <2>1. call' = [call EXCEPT ![t] = c] /\ Up /\ pool[p].status # "none"
    BY <1>3 DEF DeletePool, Begin
  <2>2. c \in CallRecs /\ c.op = "delete" /\ c.pc = "disable" /\ c.pool = p /\ c.era = 0
    BY ConstFacts DEF CallRecs, Ops, PCs
  <2> HIDE DEF c
  <2> QED
    BY <1>1, <1>2, <2>1, <2>2, EasyPlace
<1>4. CASE CreateBlob(t, p)
  <2> DEFINE c == [Idle EXCEPT !.op = "blob", !.pc = "blob", !.pool = p]
  <2>1. call' = [call EXCEPT ![t] = c] /\ Up /\ pool[p].status # "none"
    BY <1>4 DEF CreateBlob, Begin
  <2>2. c \in CallRecs /\ c.op = "blob" /\ c.pc = "blob" /\ c.pool = p /\ c.era = 0
    BY ConstFacts DEF CallRecs, Ops, PCs
  <2> HIDE DEF c
  <2> QED
    BY <1>1, <1>2, <2>1, <2>2, EasyPlace
<1>5. CASE ReportHeartbeat(t, p, x)
  <2> DEFINE c == [Idle EXCEPT !.op = "beat", !.pc = "exist", !.pool = p, !.es = x]
  <2>1. call' = [call EXCEPT ![t] = c] /\ Up
    BY <1>5 DEF ReportHeartbeat
  <2>2. c \in CallRecs /\ c.op = "beat" /\ c.pc = "exist" /\ c.pool = p /\ c.era = 0
    BY ConstFacts DEF CallRecs, Ops, PCs
  <2> HIDE DEF c
  <2> QED
    BY <1>1, <1>2, <2>1, <2>2, EasyPlace DEF LockPCs
<1>6. ASSUME At(t, "exist") \/ At(t, "create"), NEW y \in {"update", "create", "insert"},
             Goto(t, y), y = "insert" => pool[call[t].pool].status = "created"
      PROVE  PoolsInv'
  <2> DEFINE c == [call[t] EXCEPT !.pc = y]
  <2>1. call' = [call EXCEPT ![t] = c]
    BY <1>6 DEF Goto
  <2>2. c \in CallRecs /\ c.op = call[t].op /\ c.pc = y /\ c.pool = call[t].pool /\ c.era = call[t].era
    <3>1. c = [call[t] EXCEPT !.pc = y] /\ y \in PCs /\ call[t] \in CallRecs
      BY <1>0, <1>6, CallFacts DEF PCs
    <3> HIDE DEF c
    <3> QED
      BY <3>1, EditPc
  <2>3. Up /\ call[t].op # "init" /\ call[t].era <= count.pools
    BY <1>0, <1>6 DEF CallOK, PlaceOK, At
  <2> HIDE DEF c
  <2> QED
    BY <1>1, <1>6, <2>1, <2>2, <2>3, EasyPlace DEF LockPCs
<1>7. ASSUME At(t, "update") \/ At(t, "create") \/ At(t, "router"), Return(t)
      PROVE  PoolsInv'
  <2>1. Up
    BY <1>0, <1>7 DEF CallOK, PlaceOK, At
  <2>2. call' = [call EXCEPT ![t] = Idle]
    BY <1>7 DEF Return
  <2> QED
    BY <1>1, <1>2, <2>1, <2>2, ConstFacts, EasyPlace DEF LockPCs
<1> QED
  BY <1>3, <1>4, <1>5, <1>6, <1>7 DEF es_exist, update_es, create_es, query_es_router

(* InitPool finds its servers, and notes an erasure that is under way.     *)
LEMMA InitPoolKeeps ==
  ASSUME PoolsInv, NEW t \in Threads, NEW p \in PoolIds, InitPool(t, p)
  PROVE  PoolsInv'
<1> DEFINE c == [Idle EXCEPT !.op = "init", !.pc = "list", !.pool = p]
           what == IF \E u \in Threads : At(u, "erase") /\ call[u].pool = p THEN {"erased"} ELSE {}
<1>0. Types /\ PoolOK(p)
  BY DEF PoolsInv
<1>1. call' = [call EXCEPT ![t] = c] /\ Up /\ pool[p].status = "created" /\ Cardinality(es[p]) = pool[p].es_num
  BY DEF InitPool, Begin
<1>2. c \in CallRecs /\ c.op = "init" /\ c.pc = "list" /\ c.pool = p /\ c.era = 0
  BY ConstFacts DEF CallRecs, Ops, PCs
<1>3. Note(p, what) /\ UNCHANGED <<mem, kv, recov, gc, count, told>>
  BY DEF InitPool
<1>4. what \in SUBSET Mishaps
  BY DEF Mishaps
<1>5. Grows /\ mishap' \in [PoolIds -> SUBSET Mishaps] /\ \A w \in what : \A S : w \in S => ~ Clean(p, S)'
  BY <1>0, <1>3, <1>4, NoteFacts
<1>6. \A u \in Threads : u # t /\ call[u].pc = "erase" /\ call[u].pool = p => ~ Clean(p, {"erased"})'
  BY <1>5 DEF At
<1> HIDE DEF c, what
<1>7. es[p] # {}
  <2>1. pool[p].es_num # 0
    BY <1>0, <1>1 DEF PoolOK, StatusOK
  <2> QED
    BY <1>1, <2>1, FS_EmptySet
<1>8. call'[t] = c /\ Up' /\ pool' = pool /\ es' = es /\ count' = count /\ count.pools \in Nat
  BY <1>0, <1>1, <1>3, MovedFacts DEF Up, mem, Types, Counts
<1>9. CallOK(t)'
  BY <1>1, <1>2, <1>7, <1>8 DEF CallOK, PlaceOK, StoreOK, EraseOK, InitOK, QueryOK
<1> QED
  BY <1>1, <1>2, <1>3, <1>5, <1>6, <1>9, OnlyCalls

LEMMA InitListKeeps ==
  ASSUME PoolsInv, NEW t \in Threads, InitList(t)
  PROVE  PoolsInv'
<1> DEFINE c == [call[t] EXCEPT !.pc = "groups", !.ess = Ids(es[call[t].pool])]
<1>0. Types /\ CallOK(t) /\ call[t].pc = "list"
  BY DEF PoolsInv, InitList, At
<1>1. PICK p \in PoolIds : p = call[t].pool
  BY <1>0, CallFacts
<1>2. Ids(es[p]) \subseteq EsIds
  BY <1>0 DEF Types, EsIds, Ids
<1>3. call' = [call EXCEPT ![t] = c] /\ UNCHANGED <<mem, kv, recov, gc, count, told, mishap>>
  BY <1>0, CallFacts DEF InitList, Types
<1>4. /\ c \in CallRecs /\ c.op = call[t].op /\ c.pc = "groups" /\ c.pool = p /\ c.era = call[t].era
      /\ c.ess = Ids(es[p])
  <2>1. PICK s \in SUBSET EsIds : s = Ids(es[p])
    BY <1>2
  <2>2. PICK k \in CallRecs : k = call[t]
    BY <1>0, CallFacts
  <2>3. c = [k EXCEPT !.pc = "groups", !.ess = s]
    BY <1>1, <2>1, <2>2
  <2>4. "groups" \in PCs
    BY DEF PCs
  <2> HIDE DEF c
  <2>5. c \in CallRecs /\ c.op = k.op /\ c.pc = "groups" /\ c.pool = k.pool /\ c.era = k.era /\ c.ess = s
    BY <2>3, <2>4 DEF CallRecs
  <2> QED
    BY <1>1, <2>1, <2>2, <2>5
<1> HIDE DEF c
<1>5. Grows /\ mishap' \in [PoolIds -> SUBSET Mishaps]
  BY <1>0, <1>3, SameMishaps DEF Types
<1>6. call'[t] = c /\ Up' = Up /\ pool' = pool /\ es' = es /\ count' = count
  BY <1>0, <1>3, MovedFacts DEF Up, mem
<1>7. Up /\ call[t].op = "init" /\ pool[p].status # "none" /\ call[t].era <= count.pools
  BY <1>0, <1>1 DEF CallOK, PlaceOK, LockPCs
<1>8. InitOK(t)'
  BY <1>0, <1>1, <1>4, <1>5, <1>6, StillClean, IdsFacts DEF CallOK, InitOK
<1>9. CallOK(t)'
  BY <1>4, <1>6, <1>7, <1>8 DEF CallOK, PlaceOK, StoreOK, EraseOK, QueryOK
<1> QED
  BY <1>1, <1>3, <1>4, <1>5, <1>7, <1>9, OnlyCalls

(* What is to be stored is the status as it is now.                        *)
LEMMA EncodeKeeps ==
  ASSUME PoolsInv, NEW t \in Threads, Encode(t)
  PROVE  PoolsInv'
<1> DEFINE c == [call[t] EXCEPT !.pc = "put", !.val = pool[call[t].pool]]
<1>0. Types /\ CallOK(t) /\ call[t].pc = "encode"
  BY DEF PoolsInv, Encode, At
<1>1. PICK p \in PoolIds : p = call[t].pool
  BY <1>0, CallFacts
<1>2. pool[p] \in PoolRecs /\ PoolOK(p)
  BY <1>0 DEF Types, PoolsInv
<1>3. call' = [call EXCEPT ![t] = c] /\ UNCHANGED <<mem, kv, recov, gc, count, told, mishap>>
  BY <1>0, CallFacts DEF Encode, Types
<1>4. /\ c \in CallRecs /\ c.op = call[t].op /\ c.pc = "put" /\ c.pool = p /\ c.era = call[t].era
      /\ c.val = pool[p]
  <2>1. PICK s \in PoolRecs : s = pool[p]
    BY <1>2
  <2>2. PICK k \in CallRecs : k = call[t]
    BY <1>0, CallFacts
  <2>3. c = [k EXCEPT !.pc = "put", !.val = s]
    BY <1>1, <2>1, <2>2
  <2>4. "put" \in PCs
    BY DEF PCs
  <2> HIDE DEF c
  <2>5. c \in CallRecs /\ c.op = k.op /\ c.pc = "put" /\ c.pool = k.pool /\ c.era = k.era /\ c.val = s
    BY <2>3, <2>4 DEF CallRecs
  <2> QED
    BY <1>1, <2>1, <2>2, <2>5
<1> HIDE DEF c
<1>5. Grows /\ mishap' \in [PoolIds -> SUBSET Mishaps]
  BY <1>0, <1>3, SameMishaps DEF Types
<1>6. call'[t] = c /\ Up' = Up /\ pool' = pool /\ count' = count
  BY <1>0, <1>3, MovedFacts DEF Up, mem
<1>7. /\ Up /\ call[t].op \in {"init", "delete"} /\ call[t].era <= count.pools
      /\ pool[p].status \in {"enabled", "disabled"} /\ pool[p].es_num # 0
  BY <1>0, <1>1, <1>2 DEF CallOK, PlaceOK, StoreOK, PoolOK, StatusOK
<1>8. Clean(p, {"late"})' /\ call[t].op = "delete" => pool[p].status = "disabled"
  BY <1>0, <1>1, <1>5, StillClean DEF CallOK, StoreOK
<1>9. CallOK(t)'
  BY <1>4, <1>6, <1>7, <1>8 DEF CallOK, PlaceOK, StoreOK, EraseOK, InitOK, QueryOK
<1> QED
  BY <1>1, <1>3, <1>4, <1>5, <1>7, <1>9, OnlyCalls

(* A server is to be erased from a pool that is not initialised; an        *)
(* InitPool that is under way is noted.                                    *)
LEMMA EraseBeginKeeps ==
  ASSUME PoolsInv, NEW t \in Threads, NEW p \in PoolIds, NEW x \in Beats, DeleteExtentServer(t, p, x)
  PROVE  PoolsInv'
<1> DEFINE c == [Idle EXCEPT !.op = "erase", !.pc = "erase", !.pool = p, !.es = x]
           what == IF \E u \in Threads : call[u].op = "init" /\ call[u].pool = p THEN {"erased"} ELSE {}
<1>0. Types /\ PoolOK(p)
  BY DEF PoolsInv
<1>1. call' = [call EXCEPT ![t] = c] /\ Up /\ pool[p].status = "created"
  BY DEF DeleteExtentServer
<1>2. c \in CallRecs /\ c.op = "erase" /\ c.pc = "erase" /\ c.pool = p /\ c.era = 0
  BY ConstFacts DEF CallRecs, Ops, PCs
<1>3. Note(p, what) /\ UNCHANGED <<mem, kv, recov, gc, count, told>>
  BY DEF DeleteExtentServer
<1>4. what \in SUBSET Mishaps
  BY DEF Mishaps
<1>5. Grows /\ mishap' \in [PoolIds -> SUBSET Mishaps] /\ \A w \in what : \A S : w \in S => ~ Clean(p, S)'
  BY <1>0, <1>3, <1>4, NoteFacts
<1>6. \A u \in Threads : call[u].op = "init" /\ call[u].pool = p => ~ Clean(p, {"erased"})'
  BY <1>5
<1> HIDE DEF c, what
<1>7. poolKV[p].status = "created"
  BY <1>0, <1>1 DEF PoolOK, StatusOK
<1>8. /\ call'[t] = c /\ \A u \in Threads : u # t => call'[u] = call[u]
  BY <1>0, <1>1, MovedFacts
<1>9. Up' /\ pool' = pool /\ poolKV' = poolKV /\ count' = count /\ count.pools \in Nat
  BY <1>0, <1>1, <1>3 DEF Up, mem, kv, Types, Counts
<1>10. EraseOK(t)'
  BY <1>1, <1>2, <1>6, <1>7, <1>8, <1>9 DEF EraseOK
<1>11. CallOK(t)'
  BY <1>1, <1>2, <1>8, <1>9, <1>10 DEF CallOK, PlaceOK, StoreOK, InitOK, QueryOK
<1> QED
  BY <1>1, <1>2, <1>3, <1>5, <1>11, OnlyCalls

(* A router query finds the pool initialised, as it has a blob.            *)
LEMMA QueryKeeps ==
  ASSUME PoolsInv, NEW t \in Threads, NEW p \in PoolIds, QueryRouter(t, p)
  PROVE  PoolsInv'
<1> DEFINE c == [Idle EXCEPT !.op = "query", !.pc = "group", !.pool = p, !.era = count.pools]
<1>0. Types /\ PoolOK(p)
  BY DEF PoolsInv
<1>1. call' = [call EXCEPT ![t] = c] /\ Up /\ blob[p] # {} /\ UNCHANGED <<mem, kv, recov, gc, count, told, mishap>>
  BY DEF QueryRouter
<1>2. count.pools \in Nat
  BY <1>0 DEF Types, Counts
<1>3. c \in CallRecs /\ c.op = "query" /\ c.pc = "group" /\ c.pool = p /\ c.era = count.pools
  BY <1>2, ConstFacts DEF CallRecs, Ops, PCs
<1> HIDE DEF c
<1>4. Grows /\ mishap' \in [PoolIds -> SUBSET Mishaps]
  BY <1>0, <1>1, SameMishaps DEF Types
<1>5. call'[t] = c /\ Up' /\ pool' = pool /\ count' = count
  BY <1>0, <1>1, MovedFacts DEF Up, mem
<1>6. Clean(p, Whole \cup {"unstored"}) => pool[p].status # "created"
  BY <1>0, <1>1, CleanFacts DEF PoolOK, BlobsOK, StatusOK, Up
<1>7. QueryOK(t)'
  BY <1>3, <1>4, <1>5, <1>6, StillClean DEF QueryOK
<1>8. CallOK(t)'
  BY <1>1, <1>2, <1>3, <1>5, <1>7 DEF CallOK, PlaceOK, StoreOK, EraseOK, InitOK, LockPCs
<1> QED
  BY <1>1, <1>3, <1>4, <1>8, OnlyCalls

(* Its groups are those of the pool, which name servers that are there.    *)
LEMMA QueryGroupKeeps ==
  ASSUME PoolsInv, NEW t \in Threads, query_es_group(t)
  PROVE  PoolsInv'
<1> DEFINE c == [call[t] EXCEPT !.pc = "router", !.ess = Named(rg[call[t].pool])]
<1>0. Types /\ CallOK(t) /\ call[t].pc = "group"
  BY DEF PoolsInv, query_es_group, At
<1>1. PICK p \in PoolIds : p = call[t].pool
  BY <1>0, CallFacts
<1>2. Named(rg[p]) \subseteq EsIds /\ PoolOK(p)
  BY <1>0 DEF Types, Named, PoolsInv
<1>3. call' = [call EXCEPT ![t] = c] /\ UNCHANGED <<mem, kv, recov, gc, count, told, mishap>>
  BY <1>0, CallFacts DEF query_es_group, Types
<1>4. /\ c \in CallRecs /\ c.op = call[t].op /\ c.pc = "router" /\ c.pool = p /\ c.era = call[t].era
      /\ c.ess = Named(rg[p])
  <2>1. PICK s \in SUBSET EsIds : s = Named(rg[p])
    BY <1>2
  <2>2. PICK k \in CallRecs : k = call[t]
    BY <1>0, CallFacts
  <2>3. c = [k EXCEPT !.pc = "router", !.ess = s]
    BY <1>1, <2>1, <2>2
  <2>4. "router" \in PCs
    BY DEF PCs
  <2> HIDE DEF c
  <2>5. c \in CallRecs /\ c.op = k.op /\ c.pc = "router" /\ c.pool = k.pool /\ c.era = k.era /\ c.ess = s
    BY <2>3, <2>4 DEF CallRecs
  <2> QED
    BY <1>1, <2>1, <2>2, <2>5
<1> HIDE DEF c
<1>5. Grows /\ mishap' \in [PoolIds -> SUBSET Mishaps]
  BY <1>0, <1>3, SameMishaps DEF Types
<1>6. call'[t] = c /\ Up' = Up /\ pool' = pool /\ es' = es /\ count' = count
  BY <1>0, <1>3, MovedFacts DEF Up, mem
<1>7. Up /\ call[t].op # "init" /\ call[t].era <= count.pools
  BY <1>0 DEF CallOK, PlaceOK
<1>8. Clean(p, Whole) /\ pool[p].status = "enabled" => Named(rg[p]) # {} /\ Named(rg[p]) \subseteq Ids(es[p])
  BY <1>2, <1>7 DEF PoolOK, GroupsOK, Sound, Up, Named
<1>9. QueryOK(t)'
  BY <1>0, <1>1, <1>4, <1>5, <1>6, <1>8, StillClean, CleanFacts DEF CallOK, QueryOK
<1>10. CallOK(t)'
  BY <1>4, <1>6, <1>7, <1>9 DEF CallOK, PlaceOK, StoreOK, EraseOK, InitOK, LockPCs
<1> QED
  BY <1>3, <1>4, <1>5, <1>7, <1>10, OnlyCalls

-----------------------------------------------------------------------------
(* Steps that change one pool.                                             *)

LEMMA OnePool ==
  ASSUME PoolsInv, Types', GcOK', Grows, count'.pools = count.pools, Up => Up',
         NEW p \in PoolIds, \A q \in PoolIds : q # p => SamePool(q), PoolOK(p)',
         \A u \in Threads : CallOK(u)' \/ (call'[u] = call[u] /\ call[u].pool # p),
         \A u \in Threads : call'[u].op = "init" => call[u].op = "init" /\ call'[u].pool = call[u].pool
  PROVE  PoolsInv'
<1>0. Types /\ (\A q \in PoolIds : PoolOK(q)) /\ (\A u \in Threads : CallOK(u))
  BY DEF PoolsInv
<1>1. ASSUME NEW q \in PoolIds PROVE PoolOK(q)'
  BY <1>0, PoolKept
<1>2. ASSUME NEW u \in Threads, call'[u] = call[u], call[u].pool # p PROVE CallOK(u)'
  <2>1. PICK q \in PoolIds : q = call[u].pool
    BY <1>0, CallFacts
  <2>2. SamePool(q) /\ call \in [Threads -> CallRecs] /\ CallOK(u)
    BY <1>0, <1>2, <2>1 DEF Types
  <2>3. pool'[q].status = pool[q].status /\ poolKV'[q].status = poolKV[q].status /\ es'[q] = es[q]
        /\ rg'[q] = rg[q] /\ rgKV'[q] = rgKV[q] /\ esKV'[q] = esKV[q]
    BY <2>2 DEF SamePool
  <2> QED
    BY <1>2, <2>1, <2>2, <2>3, CallKept
<1> QED
  BY <1>1, <1>2 DEF PoolsInv

(* A write to RocksDB counts when it fails.                                *)
LEMMA CountFacts ==
  ASSUME Types
  PROVE  /\ \A ok \in BOOLEAN : Counted(ok) => count' \in Counts /\ count'.pools = count.pools
         /\ count.pools \in Nat
         /\ [count EXCEPT !.faults = @ + 1] \in Counts /\ [count EXCEPT !.faults = @ + 1].pools = count.pools
<1>1. count \in Counts /\ count.pools \in Nat /\ count.faults \in Nat /\ count.faults + 1 \in Nat
  BY DEF Types, Counts
<1>2. PICK f \in Nat : f = count.faults + 1
  BY <1>1
<1>3. [count EXCEPT !.faults = f] \in Counts /\ [count EXCEPT !.faults = f].pools = count.pools
  BY <1>1 DEF Counts
<1>4. [count EXCEPT !.faults = @ + 1] = [count EXCEPT !.faults = f]
  BY <1>1, <1>2 DEF Counts
<1>5. ASSUME NEW ok \in BOOLEAN, Counted(ok) PROVE count' \in Counts /\ count'.pools = count.pools
  <2>1. count' = count \/ count' = [count EXCEPT !.faults = @ + 1]
    BY <1>5 DEF Counted
  <2> QED
    BY <1>1, <1>3, <1>4, <2>1
<1> QED
  BY <1>1, <1>3, <1>4, <1>5

(* PutPool stores the status that the pool has now, unless another call    *)
(* has set it since: soft_delete_pool looks for that.                      *)
LEMMA PutPoolKeeps ==
  ASSUME PoolsInv, NEW t \in Threads, PutPool(t)
  PROVE  PoolsInv'
<1>0. Types /\ GcOK /\ CallOK(t) /\ call[t].pc = "put"
  BY DEF PoolsInv, PutPool, At
<1>1. PICK p \in PoolIds : p = call[t].pool
  BY <1>0, CallFacts
<1>2. PoolOK(p) /\ call[t] \in CallRecs
  BY <1>0, CallFacts DEF PoolsInv
<1>3. /\ Up /\ call[t].op \in {"init", "delete"} /\ call[t].val \in PoolRecs
      /\ pool[p].status \in {"enabled", "disabled"}
      /\ call[t].val.status \in {"enabled", "disabled"} /\ call[t].val.es_num # 0
      /\ Clean(p, {"late"}) =>
           call[t].val.status = pool[p].status /\ (call[t].op = "delete" => pool[p].status = "disabled")
  BY <1>0, <1>1, <1>2 DEF CallOK, PlaceOK, StoreOK, CallRecs
<1>4. PICK ok \in BOOLEAN :
        /\ Counted(ok)
        /\ poolKV' = IF ok THEN [poolKV EXCEPT ![p] = call[t].val] ELSE poolKV
        /\ told' = IF ok THEN [told EXCEPT ![p] = @ \cup {call[t].op}] ELSE told
  BY <1>1 DEF PutPool
<1>5. call' = [call EXCEPT ![t] = Idle] /\ UNCHANGED <<pool, es, rg, blob, esKV, rgKV, blobKV, recov, gc, mishap>>
  BY DEF PutPool, Return, mem
<1>6. Grows /\ Up' = Up /\ count' \in Counts /\ count'.pools = count.pools
  BY <1>0, <1>4, <1>5, SameMishaps, CountFacts DEF Up
<1>7. call'[t] = Idle /\ (\A u \in Threads : u # t => call'[u] = call[u]) /\ Idle.op = "none"
  BY <1>0, <1>5, MovedFacts, ConstFacts
<1>8. \/ poolKV' = poolKV /\ told' = told
      \/ poolKV' = [poolKV EXCEPT ![p] = call[t].val] /\ told' = [told EXCEPT ![p] = told[p] \cup {call[t].op}]
  BY <1>4
<1>9. Types'
  <2>1. poolKV' \in [PoolIds -> PoolRecs] /\ told' \in [PoolIds -> SUBSET {"init", "delete"}]
    BY <1>0, <1>3, <1>8 DEF Types
  <2>2. call' \in [Threads -> CallRecs]
    BY <1>0, <1>5, ConstFacts DEF Types
  <2> QED
    BY <1>0, <1>5, <1>6, <2>1, <2>2 DEF Types
<1>10. \A q \in PoolIds : q # p => poolKV'[q] = poolKV[q] /\ told'[q] = told[q]
  BY <1>0, <1>8 DEF Types
<1>11. \/ poolKV'[p] = poolKV[p] /\ told'[p] = told[p]
       \/ poolKV'[p] = call[t].val /\ told'[p] = told[p] \cup {call[t].op}
  BY <1>0, <1>8 DEF Types
<1>12. Clean(p, {"late"})' => poolKV'[p].status = poolKV[p].status \/ poolKV'[p].status = pool[p].status
  BY <1>3, <1>6, <1>11, StillClean
<1>13. GcOK'
  <2>1. \A q \in PoolIds : Clean(q, {"late"})' /\ pool[q].status = "disabled" /\ poolKV[q].status = "disabled"
           => poolKV'[q].status = "disabled"
    BY <1>10, <1>12
  <2>2. gc \in GcRecs /\ UNCHANGED gc
    BY <1>0, <1>5 DEF Types
  <2> QED
    BY <1>0, <1>5, <1>6, <2>1, <2>2, GcKept
<1>14. PoolOK(p)'
  <2>1. CASE poolKV'[p] = poolKV[p] /\ told'[p] = told[p]
    BY <1>2, <1>5, <1>6, <2>1, PoolKept DEF SamePool
  <2>2. CASE poolKV'[p] = call[t].val /\ told'[p] = told[p] \cup {call[t].op}
    <3>1. StatusOK(p)'
      BY <1>2, <1>3, <1>5, <2>2 DEF PoolOK, StatusOK
    <3>2. DeletedOK(p)'
      BY <1>2, <1>3, <1>5, <1>6, <2>2, StillClean DEF PoolOK, DeletedOK
    <3>3. ServersOK(p)'
      BY <1>2, <1>3, <1>5, <1>6, <2>2, StillClean DEF PoolOK, ServersOK
    <3>4. BlobsOK(p)'
      BY <1>2, <1>3, <1>5, <1>6, <2>2, StillClean DEF PoolOK, BlobsOK
    <3>5. GroupsStored(p)'
      BY <1>2, <1>3, <1>5, <1>6, <2>2, StillClean DEF PoolOK, GroupsStored
    <3>6. GroupsOK(p)'
      BY <1>2, <1>3, <1>5, <1>6, <2>2, StillClean, CleanFacts DEF PoolOK, GroupsOK
    <3> QED
      BY <3>1, <3>2, <3>3, <3>4, <3>5, <3>6 DEF PoolOK
  <2> QED
    BY <1>11, <2>1, <2>2
<1>15. CallOK(t)'
  BY <1>6, <1>7, IdleOK
<1>16. ASSUME NEW u \in Threads, u # t, call[u].pool = p PROVE CallOK(u)'
  <2>1. call \in [Threads -> CallRecs] /\ CallOK(u) /\ call'[u] = call[u]
    BY <1>0, <1>7, <1>16 DEF Types, PoolsInv
  <2> QED
    BY <1>5, <1>6, <1>7, <1>12, <1>16, <2>1, CallKept
<1> QED
  BY <1>5, <1>6, <1>7, <1>9, <1>10, <1>13, <1>14, <1>15, <1>16, OnePool DEF SamePool

(* Steps that change the servers, the groups or the blobs of a pool.       *)
DataTypes ==
  /\ es \in [PoolIds -> SUBSET Beats] /\ esKV \in [PoolIds -> SUBSET Beats]
  /\ rg \in [PoolIds -> SUBSET ((Nat \ {0}) \X EsIds)] /\ rgKV \in [PoolIds -> SUBSET ((Nat \ {0}) \X EsIds)]
  /\ blob \in [PoolIds -> SUBSET Blobs] /\ blobKV \in [PoolIds -> SUBSET Blobs]

SameData(p) ==
  /\ es'[p] = es[p] /\ esKV'[p] = esKV[p] /\ rg'[p] = rg[p] /\ rgKV'[p] = rgKV[p]
  /\ blob'[p] = blob[p] /\ blobKV'[p] = blobKV[p]

LEMMA PoolStep ==
  ASSUME PoolsInv, NEW t \in Threads, NEW p \in PoolIds, p = call[t].pool,
         UNCHANGED <<pool, poolKV, recov, gc, told>>,
         count' \in Counts, count'.pools = count.pools,
         Grows, mishap' \in [PoolIds -> SUBSET Mishaps],
         NEW c \in CallRecs, call' = [call EXCEPT ![t] = c],
         c.op = "init" => call[t].op = "init" /\ c.pool = p,
         DataTypes', \A q \in PoolIds : q # p => SameData(q),
         Clean(p, {"late"})' /\ pool[p].status = "disabled" =>
           blob'[p] \subseteq blob[p] /\ es'[p] \subseteq es[p] /\ rg'[p] \subseteq rg[p],
         \A u \in Threads : u # t /\ call[u].pool = p /\ Clean(p, Whole)' /\ pool[p].status \in {"created", "enabled"}
                            /\ (call[u].op = "init" \/ pool[p].status = "enabled") =>
           /\ Ids(es[p]) \subseteq Ids(es'[p])
           /\ Sound(rg[p], es[p]) => Sound(rg'[p], es'[p])
           /\ Sound(rgKV[p], esKV[p]) => Sound(rgKV'[p], esKV'[p]),
         PoolOK(p)', CallOK(t)'
  PROVE  PoolsInv'
<1>0. Types /\ GcOK /\ (\A u \in Threads : CallOK(u))
  BY DEF PoolsInv
<1>2. Types'
  <2>1. call' \in [Threads -> CallRecs]
    BY <1>0 DEF Types
  <2> QED
    BY <1>0, <2>1 DEF Types, DataTypes
<1>3. Up' = Up
  BY DEF Up
<1>4. GcOK'
  <2>1. \A q \in PoolIds : Clean(q, {"late"})' /\ pool[q].status = "disabled" =>
          blob'[q] \subseteq blob[q] /\ es'[q] \subseteq es[q] /\ rg'[q] \subseteq rg[q]
    BY DEF SameData
  <2>2. gc \in GcRecs
    BY <1>0 DEF Types
  <2> QED
    BY <1>0, <1>3, <2>1, <2>2, GcKept
<1>5. call'[t] = c /\ \A u \in Threads : u # t => call'[u] = call[u]
  BY <1>0, MovedFacts
<1>6. ASSUME NEW u \in Threads, u # t, call[u].pool = p PROVE CallOK(u)'
  <2>1. call \in [Threads -> CallRecs] /\ CallOK(u) /\ call'[u] = call[u]
    BY <1>0, <1>5, <1>6 DEF Types
  <2>2. \A v \in Threads : call'[v].op = "init" /\ call'[v].pool = p => call[v].op = "init" /\ call[v].pool = p
    BY <1>5
  <2>3. pool'[p].status = pool[p].status /\ poolKV'[p].status = poolKV[p].status
    OBVIOUS
  <2> QED
    BY <1>3, <1>6, <2>1, <2>2, <2>3, CallKept
<1>7. \A q \in PoolIds : q # p => SamePool(q)
  BY DEF SamePool, SameData
<1> QED
  BY <1>2, <1>3, <1>4, <1>5, <1>6, <1>7, OnePool

(* A write that may fail changes one entry or none.                        *)
LEMMA Edited ==
  ASSUME NEW D, NEW S, NEW f \in [D -> S], NEW p \in D, NEW v \in S, NEW ok \in BOOLEAN,
         NEW g, g = IF ok THEN [f EXCEPT ![p] = v] ELSE f
  PROVE  g \in [D -> S] /\ g[p] = (IF ok THEN v ELSE f[p]) /\ \A q \in D : q # p => g[q] = f[q]
OBVIOUS

(* A blob is created in a pool that is enabled, in RocksDB too, unless     *)
(* that is noted.                                                          *)
LEMMA CreateBlobKeeps ==
  ASSUME PoolsInv, NEW t \in Threads, NEW x \in Blobs, create_blob(t, x)
  PROVE  PoolsInv'
<1>0. Types /\ CallOK(t) /\ call[t].pc = "blob"
  BY DEF PoolsInv, create_blob, At
<1>1. PICK p \in PoolIds : p = call[t].pool
  BY <1>0, CallFacts
<1>2. PoolOK(p) /\ Up /\ pool[p].status # "none"
  BY <1>0, <1>1 DEF PoolsInv, CallOK, PlaceOK, LockPCs
<1> DEFINE what == Late(p) \cup IF poolKV[p].status = "created" THEN {"unstored"} ELSE {}
<1>3. PICK ok \in BOOLEAN :
        /\ Counted(ok)
        /\ blob' = IF ok THEN [blob EXCEPT ![p] = blob[p] \cup {x}] ELSE blob
        /\ blobKV' = IF ok THEN [blobKV EXCEPT ![p] = blobKV[p] \cup {x}] ELSE blobKV
  BY <1>1 DEF create_blob
<1>4. /\ Note(p, what) /\ call' = [call EXCEPT ![t] = Idle]
      /\ UNCHANGED <<pool, poolKV, es, esKV, rg, rgKV, recov, gc, told>>
  BY <1>1 DEF create_blob, Return
<1>5. what \in SUBSET Mishaps
  BY DEF Mishaps, Late
<1>6. Grows /\ mishap' \in [PoolIds -> SUBSET Mishaps] /\ \A w \in what : \A S : w \in S => ~ Clean(p, S)'
  BY <1>0, <1>4, <1>5, NoteFacts
<1>7. /\ \A S : pool[p].status = "disabled" /\ "late" \in S => ~ Clean(p, S)'
      /\ \A S : poolKV[p].status = "created" /\ "unstored" \in S => ~ Clean(p, S)'
  BY <1>6 DEF Late
<1> HIDE DEF what
<1>8. count' \in Counts /\ count'.pools = count.pools
  BY <1>0, <1>3, CountFacts
<1>9. /\ blob' \in [PoolIds -> SUBSET Blobs] /\ blob'[p] = (IF ok THEN blob[p] \cup {x} ELSE blob[p])
      /\ \A q \in PoolIds : q # p => blob'[q] = blob[q]
  <2>1. blob \in [PoolIds -> SUBSET Blobs] /\ blob[p] \cup {x} \in SUBSET Blobs
    BY <1>0 DEF Types
  <2> QED
    BY <1>3, <2>1, Edited
<1>10. /\ blobKV' \in [PoolIds -> SUBSET Blobs] /\ blobKV'[p] = (IF ok THEN blobKV[p] \cup {x} ELSE blobKV[p])
       /\ \A q \in PoolIds : q # p => blobKV'[q] = blobKV[q]
  <2>1. blobKV \in [PoolIds -> SUBSET Blobs] /\ blobKV[p] \cup {x} \in SUBSET Blobs
    BY <1>0 DEF Types
  <2> QED
    BY <1>3, <2>1, Edited
<1>11. DataTypes' /\ \A q \in PoolIds : q # p => SameData(q)
  BY <1>0, <1>4, <1>9, <1>10 DEF Types, DataTypes, SameData
<1>13. PoolOK(p)'
  <2>1. StatusOK(p)' /\ DeletedOK(p)'
    BY <1>2, <1>4, <1>6, StillClean DEF PoolOK, StatusOK, DeletedOK
  <2>2. ServersOK(p)' /\ GroupsStored(p)'
    BY <1>2, <1>4, <1>6, StillClean DEF PoolOK, ServersOK, GroupsStored
  <2>3. GroupsOK(p)'
    BY <1>2, <1>4, <1>6, StillClean DEF PoolOK, GroupsOK
  <2>4. BlobsOK(p)'
    BY <1>2, <1>4, <1>6, <1>7, <1>9, <1>10, StillClean DEF PoolOK, BlobsOK, StatusOK
  <2> QED
    BY <2>1, <2>2, <2>3, <2>4 DEF PoolOK
<1>14. CallOK(t)'
  BY <1>0, <1>4, <1>8, MovedFacts, IdleOK
<1>15. Clean(p, {"late"})' => pool[p].status # "disabled"
  BY <1>7
<1> QED
  BY <1>1, <1>4, <1>6, <1>8, <1>11, <1>13, <1>14, <1>15, ConstFacts, PoolStep

(* A heartbeat's server is taken when neither its id nor its address is.   *)
LEMMA InsertKeeps ==
  ASSUME PoolsInv, NEW t \in Threads, insert_es(t)
  PROVE  PoolsInv'
<1>0. Types /\ CallOK(t) /\ call[t].pc = "insert"
  BY DEF PoolsInv, insert_es, At
<1>1. PICK p \in PoolIds : p = call[t].pool
  BY <1>0, CallFacts
<1>2. PICK x \in Beats : x = call[t].es
  BY <1>0, CallFacts
<1>3. PoolOK(p) /\ Up /\ pool[p].status # "none" /\ es \in [PoolIds -> SUBSET Beats] /\ esKV \in [PoolIds -> SUBSET Beats]
  BY <1>0, <1>1 DEF PoolsInv, CallOK, PlaceOK, LockPCs, Types
<1> DEFINE new == \A y \in es[p] : y[1] # x[1] /\ y[2] # x[2]
<1>4. PICK ok \in BOOLEAN :
        /\ Counted(ok)
        /\ es' = IF new /\ ok THEN [es EXCEPT ![p] = es[p] \cup {x}] ELSE es
        /\ esKV' = IF new /\ ok THEN [esKV EXCEPT ![p] = esKV[p] \cup {x}] ELSE esKV
  BY <1>1, <1>2 DEF insert_es
<1>5. /\ Note(p, Late(p)) /\ call' = [call EXCEPT ![t] = Idle]
      /\ UNCHANGED <<pool, poolKV, rg, rgKV, blob, blobKV, recov, gc, told>>
  BY <1>1 DEF insert_es, Return
<1>6. Grows /\ mishap' \in [PoolIds -> SUBSET Mishaps] /\ \A w \in Late(p) : \A S : w \in S => ~ Clean(p, S)'
  <2>1. Late(p) \in SUBSET Mishaps
    BY DEF Mishaps, Late
  <2> QED
    BY <1>0, <1>5, <2>1, NoteFacts
<1>7. Clean(p, {"late"})' => pool[p].status # "disabled"
  BY <1>6 DEF Late
<1>8. count' \in Counts /\ count'.pools = count.pools
  BY <1>0, <1>4, CountFacts
<1>9. /\ es' \in [PoolIds -> SUBSET Beats] /\ esKV' \in [PoolIds -> SUBSET Beats]
      /\ \A q \in PoolIds : q # p => es'[q] = es[q] /\ esKV'[q] = esKV[q]
      /\ \/ es'[p] = es[p] /\ esKV'[p] = esKV[p]
         \/ new /\ es'[p] = es[p] \cup {x} /\ esKV'[p] = esKV[p] \cup {x}
  <2>1. CASE new /\ ok
    <3>1. es' = [es EXCEPT ![p] = es[p] \cup {x}] /\ esKV' = [esKV EXCEPT ![p] = esKV[p] \cup {x}]
      BY <1>4, <2>1
    <3> HIDE DEF new
    <3> QED
      BY <1>3, <2>1, <3>1
  <2>2. CASE ~ (new /\ ok)
    <3>1. es' = es /\ esKV' = esKV
      BY <1>4, <2>2
    <3> QED
      BY <1>3, <3>1
  <2> QED
    BY <2>1, <2>2
<1>10. DataTypes' /\ \A q \in PoolIds : q # p => SameData(q)
  BY <1>0, <1>5, <1>9 DEF Types, DataTypes, SameData
<1>11. es[p] \subseteq es'[p] /\ esKV[p] \subseteq esKV'[p]
  BY <1>9
<1>12. Ids(es[p]) \subseteq Ids(es'[p]) /\ Ids(esKV[p]) \subseteq Ids(esKV'[p])
  BY <1>11, IdsFacts
<1>13. /\ \A r : Sound(r, es[p]) => Sound(r, es'[p])
       /\ \A r : Sound(r, esKV[p]) => Sound(r, esKV'[p])
  BY <1>12 DEF Sound
<1>14. PoolOK(p)'
  <2>1. StatusOK(p)' /\ DeletedOK(p)'
    BY <1>3, <1>5, <1>6, StillClean DEF PoolOK, StatusOK, DeletedOK
  <2>2. ServersOK(p)'
    <3>1. SUFFICES ASSUME Clean(p, Base)'
                   PROVE  /\ es'[p] = esKV'[p]
                          /\ \A y, z \in esKV'[p] : y # z => y[1] # z[1] /\ y[2] # z[2]
                          /\ poolKV'[p].status # "none"
      BY DEF ServersOK
    <3>2. poolKV'[p].status # "none"
      BY <1>3, <1>5 DEF PoolOK, StatusOK
    <3>3. es[p] = esKV[p] /\ \A y, z \in esKV[p] : y # z => y[1] # z[1] /\ y[2] # z[2]
      BY <1>3, <1>6, <3>1, StillClean DEF PoolOK, ServersOK, Up
    <3>4. CASE es'[p] = es[p] /\ esKV'[p] = esKV[p]
      BY <3>2, <3>3, <3>4
    <3>5. CASE new /\ es'[p] = es[p] \cup {x} /\ esKV'[p] = esKV[p] \cup {x}
      BY <3>2, <3>3, <3>5
    <3> QED
      BY <1>9, <3>4, <3>5
  <2>3. BlobsOK(p)' /\ GroupsStored(p)'
    BY <1>3, <1>5, <1>6, StillClean DEF PoolOK, BlobsOK, GroupsStored
  <2>4. GroupsOK(p)'
    BY <1>3, <1>5, <1>6, <1>13, StillClean DEF PoolOK, GroupsOK
  <2> QED
    BY <2>1, <2>2, <2>3, <2>4 DEF PoolOK
<1>15. CallOK(t)'
  BY <1>0, <1>5, <1>8, MovedFacts, IdleOK
<1> HIDE DEF new
<1> QED
  BY <1>1, <1>5, <1>6, <1>7, <1>8, <1>10, <1>12, <1>13, <1>14, <1>15, ConstFacts, PoolStep

(* A server is erased from a pool that no InitPool is at work on.          *)
LEMMA EraseKeeps ==
  ASSUME PoolsInv, NEW t \in Threads, delete_es(t)
  PROVE  PoolsInv'
<1>0. Types /\ CallOK(t) /\ call[t].pc = "erase"
  BY DEF PoolsInv, delete_es, At
<1>1. PICK p \in PoolIds : p = call[t].pool
  BY <1>0, CallFacts
<1>3. PoolOK(p) /\ Up /\ pool[p].status # "none" /\ es \in [PoolIds -> SUBSET Beats] /\ esKV \in [PoolIds -> SUBSET Beats]
  BY <1>0, <1>1 DEF PoolsInv, CallOK, PlaceOK, LockPCs, Types
<1> DEFINE gone == {x \in es[p] : x[1] = call[t].es[1]}
<1>4. PICK ok \in BOOLEAN :
        /\ Counted(ok)
        /\ es' = IF ok THEN [es EXCEPT ![p] = es[p] \ gone] ELSE es
        /\ esKV' = IF ok THEN [esKV EXCEPT ![p] = esKV[p] \ gone] ELSE esKV
  BY <1>1 DEF delete_es
<1> HIDE DEF gone
<1>5. /\ call' = [call EXCEPT ![t] = Idle]
      /\ UNCHANGED <<pool, poolKV, rg, rgKV, blob, blobKV, recov, gc, told, mishap>>
  BY <1>1 DEF delete_es, Return
<1>6. Grows /\ mishap' \in [PoolIds -> SUBSET Mishaps]
  BY <1>0, <1>5, SameMishaps DEF Types
<1>7. /\ Clean(p, Whole)' => \A u \in Threads : ~ (call[u].op = "init" /\ call[u].pool = p)
      /\ Clean(p, Whole)' => pool[p].status \in {"created", "disabled"} /\ poolKV[p].status # "enabled"
  BY <1>0, <1>1, <1>6, StillClean, CleanFacts DEF CallOK, EraseOK
<1>8. count' \in Counts /\ count'.pools = count.pools
  BY <1>0, <1>4, CountFacts
<1>9. /\ es' \in [PoolIds -> SUBSET Beats] /\ esKV' \in [PoolIds -> SUBSET Beats]
      /\ \A q \in PoolIds : q # p => es'[q] = es[q] /\ esKV'[q] = esKV[q]
      /\ \/ es'[p] = es[p] /\ esKV'[p] = esKV[p]
         \/ es'[p] = es[p] \ gone /\ esKV'[p] = esKV[p] \ gone
  <2>1. CASE ok
    <3>1. es' = [es EXCEPT ![p] = es[p] \ gone] /\ esKV' = [esKV EXCEPT ![p] = esKV[p] \ gone]
      BY <1>4, <2>1
    <3> QED
      BY <1>3, <3>1
  <2>2. CASE ~ ok
    BY <1>3, <1>4, <2>2
  <2> QED
    BY <2>1, <2>2
<1>10. DataTypes' /\ \A q \in PoolIds : q # p => SameData(q)
  BY <1>0, <1>5, <1>9 DEF Types, DataTypes, SameData
<1>11. es'[p] \subseteq es[p] /\ esKV'[p] \subseteq esKV[p]
  BY <1>9
<1>14. PoolOK(p)'
  <2>1. StatusOK(p)' /\ DeletedOK(p)'
    BY <1>3, <1>5, <1>6, StillClean DEF PoolOK, StatusOK, DeletedOK
  <2>2. ServersOK(p)'
    <3>1. SUFFICES ASSUME Clean(p, Base)'
                   PROVE  /\ es'[p] = esKV'[p]
                          /\ \A y, z \in esKV'[p] : y # z => y[1] # z[1] /\ y[2] # z[2]
                          /\ poolKV'[p].status # "none"
      BY DEF ServersOK
    <3>2. poolKV'[p].status # "none"
      BY <1>3, <1>5 DEF PoolOK, StatusOK
    <3>3. es[p] = esKV[p] /\ \A y, z \in esKV[p] : y # z => y[1] # z[1] /\ y[2] # z[2]
      BY <1>3, <1>6, <3>1, StillClean DEF PoolOK, ServersOK, Up
    <3> QED
      BY <1>9, <1>11, <3>2, <3>3
  <2>3. BlobsOK(p)' /\ GroupsStored(p)'
    BY <1>3, <1>5, <1>6, StillClean DEF PoolOK, BlobsOK, GroupsStored
  <2>4. GroupsOK(p)'
    BY <1>5, <1>7 DEF GroupsOK
  <2> QED
    BY <2>1, <2>2, <2>3, <2>4 DEF PoolOK
<1>15. CallOK(t)'
  BY <1>0, <1>5, <1>8, MovedFacts, IdleOK
<1> QED
  BY <1>1, <1>5, <1>6, <1>7, <1>8, <1>10, <1>11, <1>14, <1>15, ConstFacts, PoolStep

(* There are finitely many server ids.                                     *)
LEMMA FiniteIds ==
  ASSUME NEW S \in SUBSET EsIds
  PROVE  IsFiniteSet(S) /\ Cardinality(S) \in Nat /\ (S # {} => Cardinality(S) # 0)
<1> DEFINE f == [x \in Beats |-> x[1]]
<1>1. f \in Surjection(Beats, EsIds)
  BY DEF Surjection, EsIds, Ids
<1>2. IsFiniteSet(EsIds)
  BY <1>1, PoolsAssumption, FS_Surjection DEF ExistsSurjection
<1>3. IsFiniteSet(S)
  BY <1>2, FS_Subset
<1> QED
  BY <1>3, FS_CardinalityType, FS_EmptySet

(* InitPool deals out groups over the servers that it has seen, in place   *)
(* of those that RocksDB has.                                              *)
LEMMA InitGroupsKeeps ==
  ASSUME PoolsInv, NEW t \in Threads, InitGroups(t)
  PROVE  PoolsInv'
<1>0. Types /\ CallOK(t) /\ call[t].pc = "groups"
  BY DEF PoolsInv, InitGroups, At
<1>1. PICK p \in PoolIds : p = call[t].pool
  BY <1>0, CallFacts
<1>2. PICK ess \in SUBSET EsIds : ess = call[t].ess
  BY <1>0, CallFacts DEF CallRecs
<1>3. PICK n \in Nat : n = Cardinality(ess) /\ (ess # {} => n # 0)
  BY FiniteIds
<1>4. /\ PoolOK(p) /\ Up /\ pool[p].status # "none" /\ call[t].op = "init" /\ call[t].era <= count.pools
      /\ rg[p] \in SUBSET ((Nat \ {0}) \X EsIds) /\ rgKV[p] \in SUBSET ((Nat \ {0}) \X EsIds)
  BY <1>0, <1>1 DEF PoolsInv, CallOK, PlaceOK, LockPCs, Types
<1> DEFINE left == {x \in rg[p] : x[1] > n}
           new  == (1..n) \X ess
           more == {x \in rgKV[p] : x[1] > n}
           what == Late(p) \cup IF left # {} THEN {"leftover"} ELSE {}
           R    == SUBSET ((Nat \ {0}) \X EsIds)
           c    == [call[t] EXCEPT !.pc = "enable"]
<1>5. PICK ok \in BOOLEAN :
        /\ Counted(ok)
        /\ rg' = [rg EXCEPT ![p] = new \cup left]
        /\ rgKV' \in (IF ok THEN {} ELSE {rgKV}) \cup {[rgKV EXCEPT ![p] = new \cup left \cup {x \in @ : x[1] > n}]}
        /\ IF ok THEN Goto(t, "enable") ELSE Return(t)
  BY <1>1, <1>2, <1>3 DEF InitGroups
<1>6. Note(p, what) /\ UNCHANGED <<pool, poolKV, es, esKV, blob, blobKV, recov, gc, told>>
  BY <1>1, <1>2, <1>3 DEF InitGroups
<1>7. Grows /\ mishap' \in [PoolIds -> SUBSET Mishaps] /\ \A w \in what : \A S : w \in S => ~ Clean(p, S)'
  <2>1. what \in SUBSET Mishaps
    BY DEF Mishaps, Late
  <2> QED
    BY <1>0, <1>6, <2>1, NoteFacts
<1>8. /\ Clean(p, {"late"})' => pool[p].status # "disabled"
      /\ Clean(p, Whole)' => left = {}
  BY <1>7 DEF Late, Whole
<1> HIDE DEF what
<1>9. count' \in Counts /\ count'.pools = count.pools
  BY <1>0, <1>5, CountFacts
<1>10. new \cup left \in R /\ new \cup left \cup more \in R
  BY <1>4
<1>11. rg \in [PoolIds -> R] /\ rgKV \in [PoolIds -> R]
  BY <1>0 DEF Types
<1>12. (~ ok /\ rgKV' = rgKV) \/ rgKV' = [rgKV EXCEPT ![p] = new \cup left \cup more]
  BY <1>5
<1>13. Ids(rg[p]) \subseteq Ids(new \cup left)
  <2>1. SUFFICES ASSUME NEW x \in rg[p] PROVE \E y \in new \cup left : y[1] = x[1]
    BY DEF Ids
  <2>2. CASE x[1] > n
    BY <2>2
  <2>3. CASE ~ (x[1] > n)
    <3>1. x[1] \in 1..n
      BY <1>4, <2>3
    <3>2. PICK s \in ess : TRUE
      BY <1>3, <3>1, FS_EmptySet
    <3>3. <<x[1], s>> \in new /\ <<x[1], s>>[1] = x[1]
      BY <3>1, <3>2
    <3> QED
      BY <3>3
  <2> QED
    BY <2>2, <2>3
<1>14. Ids(rgKV[p]) \subseteq Ids(rg[p]) => Ids(more) \subseteq Ids(left)
  BY DEF Ids
<1>15. ess # {} => Sound(new, es[p]) <=> ess \subseteq Ids(es[p])
  <2>1. SUFFICES ASSUME ess # {} PROVE new # {} /\ Named(new) = ess
    BY DEF Sound
  <2>2. 1 \in 1..n
    BY <1>3, <2>1
  <2>3. PICK s \in ess : TRUE
    BY <2>1
  <2>4. <<1, s>> \in new
    BY <2>2, <2>3
  <2>5. \A z \in ess : <<1, z>> \in new /\ <<1, z>>[2] = z
    BY <2>2
  <2>6. \A y \in new : y[2] \in ess
    OBVIOUS
  <2> QED
    BY <2>4, <2>5, <2>6 DEF Named
<1> HIDE DEF new, left, more, R
<1>16. /\ rg' \in [PoolIds -> R] /\ rgKV' \in [PoolIds -> R]
       /\ rg'[p] = new \cup left
       /\ (~ ok /\ rgKV'[p] = rgKV[p]) \/ rgKV'[p] = new \cup left \cup more
       /\ \A q \in PoolIds : q # p => rg'[q] = rg[q] /\ rgKV'[q] = rgKV[q]
  <2>1. rg' \in [PoolIds -> R] /\ rg'[p] = new \cup left /\ \A q \in PoolIds : q # p => rg'[q] = rg[q]
    BY <1>5, <1>10, <1>11
  <2>2. CASE ~ ok /\ rgKV' = rgKV
    BY <1>11, <2>1, <2>2
  <2>3. CASE rgKV' = [rgKV EXCEPT ![p] = new \cup left \cup more]
    BY <1>10, <1>11, <2>1, <2>3
  <2> QED
    BY <1>12, <2>2, <2>3
<1>17. DataTypes' /\ \A q \in PoolIds : q # p => SameData(q)
  BY <1>0, <1>6, <1>16 DEF Types, DataTypes, SameData, R
<1>18. Clean(p, Base \cup {"groupless"})' => Ids(rgKV[p]) \subseteq Ids(rg[p]) /\ Ids(rgKV'[p]) \subseteq Ids(rg'[p])
  <2>1. SUFFICES ASSUME Clean(p, Base \cup {"groupless"})' PROVE Ids(rgKV[p]) \subseteq Ids(rg[p]) /\ Ids(rgKV'[p]) \subseteq Ids(rg'[p])
    OBVIOUS
  <2>2. Ids(rgKV[p]) \subseteq Ids(rg[p])
    BY <1>4, <1>7, <2>1, StillClean DEF PoolOK, GroupsStored, Up
  <2>3. Ids(new \cup left \cup more) = Ids(new \cup left) \cup Ids(more) /\ Ids(left) \subseteq Ids(new \cup left)
    BY IdsFacts
  <2> QED
    BY <1>13, <1>14, <1>16, <2>2, <2>3
<1>19. ASSUME Clean(p, Whole)'
       PROVE  /\ Sound(rg'[p], es[p])
              /\ Sound(rgKV'[p], esKV[p]) \/ (~ ok /\ rgKV'[p] = rgKV[p])
  <2>1. Clean(p, Whole) /\ Clean(p, Base) /\ pool[p].status # "disabled" /\ left = {} /\ Clean(p, Base \cup {"groupless"})'
    BY <1>7, <1>8, <1>19, StillClean, CleanFacts, CleanNext
  <2>2. pool[p].status \in {"created", "enabled"}
    BY <1>0, <1>4, <2>1 DEF Types, PoolRecs, Statuses
  <2>3. ess # {} /\ ess \subseteq Ids(es[p])
    BY <1>0, <1>1, <1>2, <2>1, <2>2 DEF CallOK, InitOK
  <2>4. es[p] = esKV[p]
    BY <1>4, <2>1 DEF PoolOK, ServersOK, Up
  <2>5. more = {}
    <3>1. Ids(left) = {} /\ Ids(more) \subseteq Ids(left)
      BY <1>14, <1>18, <2>1, IdsFacts
    <3> QED
      BY <3>1, IdsFacts
  <2> QED
    BY <1>15, <1>16, <2>1, <2>3, <2>4, <2>5
<1>20. PoolOK(p)'
  <2>1. StatusOK(p)' /\ DeletedOK(p)'
    BY <1>4, <1>6, <1>7, StillClean DEF PoolOK, StatusOK, DeletedOK
  <2>2. ServersOK(p)' /\ BlobsOK(p)'
    BY <1>4, <1>6, <1>7, StillClean DEF PoolOK, ServersOK, BlobsOK
  <2>3. GroupsStored(p)'
    BY <1>4, <1>6, <1>18 DEF PoolOK, StatusOK, GroupsStored
  <2>4. GroupsOK(p)'
    BY <1>4, <1>6, <1>7, <1>19, StillClean DEF PoolOK, GroupsOK
  <2> QED
    BY <2>1, <2>2, <2>3, <2>4 DEF PoolOK
<1>21. Clean(p, Whole)' /\ Sound(rgKV[p], esKV[p]) => Sound(rgKV'[p], esKV'[p])
  BY <1>6, <1>19
<1>22. \A u \in Threads : u # t /\ call[u].pool = p /\ Clean(p, Whole)' =>
         /\ Ids(es[p]) \subseteq Ids(es'[p])
         /\ Sound(rg[p], es[p]) => Sound(rg'[p], es'[p])
         /\ Sound(rgKV[p], esKV[p]) => Sound(rgKV'[p], esKV'[p])
  BY <1>6, <1>19, <1>21
<1>23. CASE ok
  <2>1. call' = [call EXCEPT ![t] = c]
    BY <1>5, <1>23 DEF Goto
  <2>2. c \in CallRecs /\ c.op = call[t].op /\ c.pc = "enable" /\ c.pool = call[t].pool /\ c.era = call[t].era
    <3>1. c = [call[t] EXCEPT !.pc = "enable"] /\ "enable" \in PCs /\ call[t] \in CallRecs
      BY <1>0, CallFacts DEF PCs
    <3> HIDE DEF c
    <3> QED
      BY <3>1, EditPc
  <2> HIDE DEF c
  <2>3. call'[t] = c /\ Up' /\ pool' = pool
    BY <1>0, <1>4, <1>6, <2>1, MovedFacts DEF Up
  <2>4. InitOK(t)'
    BY <1>1, <1>6, <1>19, <1>23, <2>2, <2>3 DEF InitOK
  <2>5. CallOK(t)'
    BY <1>1, <1>4, <1>9, <2>2, <2>3, <2>4 DEF CallOK, PlaceOK, StoreOK, EraseOK, QueryOK
  <2> QED
    BY <1>1, <1>4, <1>6, <1>7, <1>8, <1>9, <1>17, <1>20, <1>22, <2>1, <2>2, <2>5, PoolStep
<1>24. CASE ~ ok
  <2>1. call' = [call EXCEPT ![t] = Idle]
    BY <1>5, <1>24 DEF Return
  <2>2. CallOK(t)'
    BY <1>0, <1>9, <2>1, MovedFacts, IdleOK
  <2> HIDE DEF c
  <2> QED
    BY <1>1, <1>6, <1>7, <1>8, <1>9, <1>17, <1>20, <1>22, <2>1, <2>2, ConstFacts, PoolStep
<1> QED
  BY <1>23, <1>24

(* init_pool and soft_delete_pool set the status in the map.  InitPool     *)
(* enables a pool that has been deleted, and a delete overtakes what is    *)
(* about to be stored: both are noted.                                     *)
LEMMA SetStatusKeeps ==
  ASSUME PoolsInv, NEW t \in Threads, SetStatus(t)
  PROVE  PoolsInv'
<1>0. Types /\ GcOK /\ CallOK(t) /\ call[t].pc \in {"enable", "disable"}
  BY DEF PoolsInv, SetStatus, At
<1>1. PICK p \in PoolIds : p = call[t].pool
  BY <1>0, CallFacts
<1>2. /\ PoolOK(p) /\ Up /\ pool[p].status # "none" /\ call[t].era <= count.pools /\ call[t].op \in {"init", "delete"}
      /\ call[t].op = "init" <=> call[t].pc = "enable"
      /\ pool \in [PoolIds -> PoolRecs] /\ pool[p].status \in Statuses
  BY <1>0, <1>1 DEF PoolsInv, CallOK, PlaceOK, LockPCs, Types, PoolRecs
<1> DEFINE what == IF At(t, "enable") THEN Late(p)
                   ELSE IF \E u \in Threads : At(u, "put") /\ call[u].pool = p THEN {"late"} ELSE {}
           c == [call[t] EXCEPT !.pc = "encode"]
<1>3. PICK s \in {"enabled", "disabled"} :
        pool' = [pool EXCEPT ![p].status = s] /\ (s = "enabled" <=> call[t].pc = "enable")
  BY <1>0, <1>1 DEF SetStatus, At
<1>4. /\ Note(p, what) /\ call' = [call EXCEPT ![t] = c]
      /\ UNCHANGED <<poolKV, es, esKV, rg, rgKV, blob, blobKV, recov, gc, count, told>>
  BY <1>1 DEF SetStatus, Goto
<1>5. Grows /\ mishap' \in [PoolIds -> SUBSET Mishaps] /\ \A w \in what : \A S : w \in S => ~ Clean(p, S)'
  <2>1. what \in SUBSET Mishaps
    BY DEF Mishaps, Late
  <2> QED
    BY <1>0, <1>4, <2>1, NoteFacts
<1>6. Clean(p, {"late"})' =>
        /\ s = "enabled" => pool[p].status \in {"created", "enabled"}
        /\ s = "disabled" => \A u \in Threads : ~ (call[u].pc = "put" /\ call[u].pool = p)
  BY <1>2, <1>3, <1>5 DEF Late, At, Statuses
<1> HIDE DEF what
<1>7. c \in CallRecs /\ c.op = call[t].op /\ c.pc = "encode" /\ c.pool = p /\ c.era = call[t].era
  <2>1. c = [call[t] EXCEPT !.pc = "encode"] /\ "encode" \in PCs /\ call[t] \in CallRecs
    BY <1>0, CallFacts DEF PCs
  <2> HIDE DEF c
  <2> QED
    BY <1>1, <2>1, EditPc
<1> HIDE DEF c
<1>8. call'[t] = c /\ (\A u \in Threads : u # t => call'[u] = call[u]) /\ Up'
  BY <1>0, <1>2, <1>4, MovedFacts DEF Up
<1>9. /\ pool' \in [PoolIds -> PoolRecs] /\ pool'[p].status = s /\ pool'[p].es_num = pool[p].es_num
      /\ \A q \in PoolIds : q # p => pool'[q] = pool[q]
  <2>1. PICK r \in PoolRecs : r = pool[p]
    BY <1>2
  <2>2. PICK d : d = [r EXCEPT !.status = s]
    OBVIOUS
  <2>3. d \in PoolRecs /\ d.status = s /\ d.es_num = r.es_num
    BY <2>2 DEF PoolRecs, Statuses
  <2>4. pool' = [pool EXCEPT ![p] = d]
    BY <1>3, <2>1, <2>2
  <2> QED
    BY <1>2, <2>1, <2>3, <2>4
<1>10. Types'
  <2>1. call' \in [Threads -> CallRecs]
    BY <1>0, <1>4, <1>7 DEF Types
  <2> QED
    BY <1>0, <1>4, <1>5, <1>9, <2>1 DEF Types
<1>11. GcOK'
  <2>1. \A q \in PoolIds : Clean(q, {"late"})' /\ pool[q].status = "disabled" => pool'[q].status = "disabled"
    BY <1>6, <1>9
  <2>2. gc \in GcRecs
    BY <1>0 DEF Types
  <2> QED
    BY <1>0, <1>4, <1>5, <1>8, <2>1, <2>2, GcKept
<1>12. PoolOK(p)'
  <2>1. StatusOK(p)'
    BY <1>2, <1>4, <1>9 DEF PoolOK, StatusOK
  <2>2. DeletedOK(p)'
    BY <1>2, <1>4, <1>5, <1>6, <1>9, StillClean DEF PoolOK, DeletedOK
  <2>3. ServersOK(p)' /\ BlobsOK(p)'
    BY <1>2, <1>4, <1>5, StillClean DEF PoolOK, ServersOK, BlobsOK
  <2>4. GroupsStored(p)'
    BY <1>2, <1>4, <1>5, StillClean DEF PoolOK, GroupsStored
  <2>5. GroupsOK(p)'
    <3>1. SUFFICES ASSUME Clean(p, Whole)'
                   PROVE  /\ "enabled" \in {s, poolKV[p].status} => Sound(rgKV[p], esKV[p])
                          /\ s = "enabled" => Sound(rg[p], es[p])
      BY <1>4, <1>9 DEF GroupsOK
    <3>2. Clean(p, Whole) /\ Clean(p, {"late"})'
      BY <1>5, <3>1, StillClean, CleanNext
    <3>3. CASE s = "enabled"
      <4>1. Sound(rg[p], es[p]) /\ Sound(rgKV[p], esKV[p])
        BY <1>0, <1>1, <1>3, <1>6, <3>2, <3>3 DEF CallOK, InitOK
      <4> QED
        BY <4>1
    <3>4. CASE s = "disabled"
      BY <1>2, <3>2, <3>4 DEF PoolOK, GroupsOK
    <3> QED
      BY <3>3, <3>4
  <2> QED
    BY <2>1, <2>2, <2>3, <2>4, <2>5 DEF PoolOK
<1>13. CallOK(t)'
  <2>1. StoreOK(t)'
    BY <1>2, <1>3, <1>7, <1>8, <1>9 DEF StoreOK
  <2> QED
    BY <1>2, <1>4, <1>7, <1>8, <1>9, <2>1 DEF CallOK, PlaceOK, EraseOK, InitOK, QueryOK
<1>14. ASSUME NEW u \in Threads, u # t, call[u].pool = p PROVE CallOK(u)'
  <2>1. CallOK(u) /\ call'[u] = call[u]
    BY <1>8, <1>14 DEF PoolsInv
  <2>2. PlaceOK(u)'
    BY <1>4, <1>8, <1>9, <1>14, <2>1 DEF CallOK, PlaceOK
  <2>3. StoreOK(u)'
    BY <1>3, <1>5, <1>6, <1>9, <1>14, <2>1, StillClean DEF CallOK, StoreOK
  <2>4. EraseOK(u)'
    <3>1. SUFFICES ASSUME call[u].pc = "erase"
                   PROVE  /\ Clean(p, {"erased"})' => \A v \in Threads : ~ (call'[v].op = "init" /\ call'[v].pool = p)
                          /\ Clean(p, {"erased", "late"})' => s \in {"created", "disabled"} /\ poolKV[p].status # "enabled"
      BY <1>4, <1>9, <1>14, <2>1 DEF EraseOK
    <3>2. Clean(p, {"erased"})' => \A v \in Threads : ~ (call[v].op = "init" /\ call[v].pool = p)
      BY <1>5, <1>14, <2>1, <3>1, StillClean DEF CallOK, EraseOK
    <3>3. Clean(p, {"erased", "late"})' => poolKV[p].status # "enabled" /\ Clean(p, {"erased"})'
      BY <1>5, <1>14, <2>1, <3>1, StillClean, CleanNext DEF CallOK, EraseOK
    <3> QED
      BY <1>1, <1>2, <1>3, <1>7, <1>8, <3>2, <3>3
  <2>5. InitOK(u)'
    <3>1. SUFFICES ASSUME Clean(p, Whole)', s = "enabled"
                   PROVE  /\ call[u].pc = "list" => es[p] # {}
                          /\ call[u].pc = "groups" => call[u].ess # {} /\ call[u].ess \subseteq Ids(es[p])
                          /\ call[u].pc = "enable" => Sound(rg[p], es[p]) /\ Sound(rgKV[p], esKV[p])
      BY <1>4, <1>9, <1>14, <2>1 DEF InitOK
    <3>2. Clean(p, Whole) /\ Clean(p, {"late"})'
      BY <1>5, <3>1, StillClean, CleanNext
    <3> QED
      BY <1>6, <1>14, <2>1, <3>1, <3>2 DEF CallOK, InitOK
  <2>6. QueryOK(u)'
    <3>1. SUFFICES ASSUME Clean(p, Whole \cup {"unstored"})', call[u].era = count.pools,
                          call[u].pc = "router", s = "enabled"
                   PROVE  call[u].ess # {} /\ call[u].ess \subseteq Ids(es[p])
      BY <1>4, <1>9, <1>14, <2>1 DEF QueryOK
    <3>2. Clean(p, Whole \cup {"unstored"}) /\ Clean(p, Whole)' /\ Clean(p, {"late"})'
      BY <1>5, <3>1, StillClean, CleanNext
    <3> QED
      BY <1>6, <1>14, <2>1, <3>1, <3>2 DEF CallOK, QueryOK
  <2> QED
    BY <2>2, <2>3, <2>4, <2>5, <2>6 DEF CallOK
<1>15. \A q \in PoolIds : q # p => SamePool(q)
  BY <1>4, <1>9 DEF SamePool
<1> QED
  BY <1>1, <1>4, <1>5, <1>7, <1>8, <1>10, <1>11, <1>12, <1>13, <1>14, <1>15, OnePool

-----------------------------------------------------------------------------
(* Steps of the manager and of the collector, which leave the calls alone. *)

LEMMA NoCall ==
  ASSUME PoolsInv, UNCHANGED call, Types', GcOK', Grows, count'.pools = count.pools, Up => Up',
         \A q \in PoolIds : PoolOK(q)',
         \A q \in PoolIds : pool'[q].status = pool[q].status,
         \A q \in PoolIds : poolKV'[q].status \in {poolKV[q].status, pool[q].status},
         \A q \in PoolIds : Clean(q, Whole)' /\ pool[q].status \in {"created", "enabled"} =>
           es'[q] = es[q] /\ esKV'[q] = esKV[q] /\ rg'[q] = rg[q] /\ rgKV'[q] = rgKV[q]
  PROVE  PoolsInv'
<1>1. ASSUME NEW u \in Threads PROVE CallOK(u)'
  <2>1. call \in [Threads -> CallRecs] /\ CallOK(u) /\ Types
    BY DEF PoolsInv, Types
  <2>2. PICK q \in PoolIds : q = call[u].pool
    BY <2>1, CallFacts
  <2>3. /\ pool'[q].status = pool[q].status
        /\ poolKV'[q].status = poolKV[q].status \/ poolKV'[q].status = pool[q].status
        /\ call'[u] = call[u] /\ \A v \in Threads : call'[v] = call[v]
    OBVIOUS
  <2>4. Clean(q, Whole)' /\ pool[q].status \in {"created", "enabled"} =>
           es'[q] = es[q] /\ esKV'[q] = esKV[q] /\ rg'[q] = rg[q] /\ rgKV'[q] = rgKV[q]
    OBVIOUS
  <2> QED
    BY <2>1, <2>2, <2>3, <2>4, CallKept
<1> QED
  BY <1>1 DEF PoolsInv

(* When no lock is held the calls expect little.                           *)
LEMMA UnlockedCalls ==
  ASSUME PoolsInv, UNCHANGED call, Unlocked, Up => Up', count.pools <= count'.pools, count' \in Counts,
         \A u \in Threads : QueryOK(u)'
  PROVE  \A u \in Threads : CallOK(u)'
<1>1. SUFFICES ASSUME NEW u \in Threads PROVE CallOK(u)'
  OBVIOUS
<1>2. CallOK(u) /\ call[u].pc \in {"none", "exist", "create", "update", "group", "router"} /\ call'[u] = call[u]
      /\ call[u].era \in Nat /\ count.pools \in Nat /\ count'.pools \in Nat
  BY DEF PoolsInv, Unlocked, Types, CallRecs, Counts
<1>3. PlaceOK(u)'
  BY <1>2 DEF CallOK, PlaceOK, LockPCs
<1> QED
  BY <1>2, <1>3 DEF CallOK, StoreOK, EraseOK, InitOK

(* A step that changes nothing but the number of failed writes.            *)
LEMMA OnlyCounted ==
  ASSUME PoolsInv, UNCHANGED <<mem, kv, recov, call, gc, told, mishap>>,
         count' \in Counts, count'.pools = count.pools
  PROVE  PoolsInv'
<1>0. Types /\ GcOK /\ gc \in GcRecs
  BY DEF PoolsInv, Types
<1>1. UNCHANGED <<pool, es, rg, blob, poolKV, esKV, rgKV, blobKV, recov, gc, told>> /\ Up' = Up /\ Grows
  BY SameMishaps DEF mem, kv, Up
<1>2. Types'
  BY <1>0, <1>1 DEF Types
<1>3. GcOK'
  BY <1>0, <1>1, GcKept
<1>4. ASSUME NEW q \in PoolIds PROVE PoolOK(q)'
  BY <1>1, PoolKept DEF PoolsInv, SamePool
<1> QED
  BY <1>1, <1>2, <1>3, <1>4, NoCall

(* UpdatePool keeps the status, in the map and in RocksDB.                 *)
LEMMA UpdatePoolKeeps ==
  ASSUME PoolsInv, NEW p \in PoolIds, NEW n \in EsNums, update_pool(p, n)
  PROVE  PoolsInv'
<1>0. Types /\ GcOK /\ PoolOK(p) /\ pool \in [PoolIds -> PoolRecs] /\ poolKV \in [PoolIds -> PoolRecs] /\ gc \in GcRecs
  BY DEF PoolsInv, Types
<1>1. /\ Up /\ pool[p].status \notin {"none", "disabled"}
      /\ pool' = [pool EXCEPT ![p].es_num = n]
      /\ UNCHANGED <<es, esKV, rg, rgKV, blob, blobKV, recov, call, gc, told, mishap>>
  BY DEF update_pool
<1>2. PICK ok \in BOOLEAN :
        Counted(ok) /\ poolKV' = IF ok THEN [poolKV EXCEPT ![p] = pool'[p]] ELSE poolKV
  BY DEF update_pool
<1>3. count' \in Counts /\ count'.pools = count.pools
  BY <1>0, <1>2, CountFacts
<1>4. /\ pool' \in [PoolIds -> PoolRecs] /\ pool'[p].status = pool[p].status /\ pool'[p].es_num # 0
      /\ \A q \in PoolIds : q # p => pool'[q] = pool[q]
  <2>1. PICK r \in PoolRecs : r = pool[p]
    BY <1>0
  <2>2. PICK d : d = [r EXCEPT !.es_num = n]
    OBVIOUS
  <2>3. d \in PoolRecs /\ d.status = r.status /\ d.es_num = n /\ n # 0
    BY <2>2, PoolsAssumption DEF PoolRecs
  <2>4. pool' = [pool EXCEPT ![p] = d]
    BY <1>1, <2>1, <2>2
  <2> QED
    BY <1>0, <2>1, <2>3, <2>4
<1>5. /\ poolKV' \in [PoolIds -> PoolRecs] /\ poolKV'[p] \in {poolKV[p], pool'[p]}
      /\ \A q \in PoolIds : q # p => poolKV'[q] = poolKV[q]
  <2>1. pool'[p] \in PoolRecs
    BY <1>4
  <2>2. CASE ok
    BY <1>0, <1>2, <2>1, <2>2
  <2>3. CASE ~ ok
    BY <1>0, <1>2, <2>3
  <2> QED
    BY <2>2, <2>3
<1>6. Types'
  BY <1>0, <1>1, <1>3, <1>4, <1>5 DEF Types
<1>7. Grows /\ Up'
  BY <1>1, SameMishaps DEF Up
<1>8. GcOK'
  <2>1. \A q \in PoolIds : pool[q].status = "disabled" => pool'[q].status = "disabled" /\ poolKV'[q] = poolKV[q]
    BY <1>1, <1>4, <1>5
  <2> QED
    BY <1>0, <1>1, <1>7, <2>1, GcKept
<1>9. PoolOK(p)'
  <2>1. StatusOK(p)' /\ DeletedOK(p)'
    BY <1>0, <1>1, <1>4, <1>5, <1>7, StillClean DEF PoolOK, StatusOK, DeletedOK
  <2>2. ServersOK(p)' /\ GroupsStored(p)'
    BY <1>0, <1>1, <1>4, <1>5, <1>7, StillClean DEF PoolOK, ServersOK, GroupsStored
  <2>3. BlobsOK(p)'
    BY <1>0, <1>1, <1>4, <1>5, <1>7, StillClean DEF PoolOK, BlobsOK, StatusOK
  <2>4. GroupsOK(p)'
    BY <1>0, <1>1, <1>4, <1>5, <1>7, StillClean DEF PoolOK, GroupsOK
  <2> QED
    BY <2>1, <2>2, <2>3, <2>4 DEF PoolOK
<1>10. ASSUME NEW q \in PoolIds PROVE PoolOK(q)'
  <2>1. CASE q # p
    BY <1>1, <1>4, <1>5, <1>7, <2>1, PoolKept DEF PoolsInv, SamePool
  <2> QED
    BY <1>9, <2>1
<1>11. \A q \in PoolIds : pool'[q].status = pool[q].status /\ poolKV'[q].status \in {poolKV[q].status, pool[q].status}
  BY <1>4, <1>5
<1> QED
  BY <1>1, <1>3, <1>6, <1>7, <1>8, <1>10, <1>11, NoCall

(* CreatePool takes an id of which nothing is left.                        *)
LEMMA CreatePoolKeeps ==
  ASSUME PoolsInv, NEW p \in PoolIds, NEW n \in EsNums, create_pool(p, n)
  PROVE  PoolsInv'
<1> DEFINE d == [status |-> "created", es_num |-> n]
<1>0. Types /\ GcOK /\ PoolOK(p) /\ pool \in [PoolIds -> PoolRecs] /\ poolKV \in [PoolIds -> PoolRecs] /\ gc \in GcRecs
      /\ told \in [PoolIds -> SUBSET {"init", "delete"}]
  BY DEF PoolsInv, Types
<1>1. /\ Up /\ Unlocked /\ pool[p].status = "none"
      /\ UNCHANGED <<es, esKV, rg, rgKV, blob, blobKV, recov, call, gc, mishap>>
  BY DEF create_pool
<1>2. \/ /\ count' = [count EXCEPT !.faults = @ + 1]
         /\ UNCHANGED <<pool, poolKV, told>>
      \/ /\ count' = [count EXCEPT !.pools = @ + 1]
         /\ pool' = [pool EXCEPT ![p] = d] /\ poolKV' = [poolKV EXCEPT ![p] = d] /\ told' = [told EXCEPT ![p] = {}]
  BY DEF create_pool
<1>3. CASE count' = [count EXCEPT !.faults = @ + 1] /\ UNCHANGED <<pool, poolKV, told>>
  <2>1. count' \in Counts /\ count'.pools = count.pools
    BY <1>0, <1>3, CountFacts
  <2> QED
    BY <1>1, <1>3, <2>1, OnlyCounted DEF mem, kv
<1>4. CASE /\ count' = [count EXCEPT !.pools = @ + 1]
           /\ pool' = [pool EXCEPT ![p] = d] /\ poolKV' = [poolKV EXCEPT ![p] = d] /\ told' = [told EXCEPT ![p] = {}]
  <2>1. count' \in Counts /\ count'.pools = count.pools + 1 /\ count.pools \in Nat
    <3>1. count \in Counts /\ count.pools \in Nat /\ count.pools + 1 \in Nat
      BY <1>0 DEF Types, Counts
    <3>2. PICK m \in Nat : m = count.pools + 1
      BY <3>1
    <3>3. count' = [count EXCEPT !.pools = m]
      BY <1>4, <3>1, <3>2 DEF Counts
    <3> QED
      BY <3>1, <3>2, <3>3 DEF Counts
  <2>2. d \in PoolRecs /\ d.status = "created" /\ d.es_num # 0
    BY PoolsAssumption DEF PoolRecs, Statuses
  <2> HIDE DEF d
  <2>3. /\ pool' \in [PoolIds -> PoolRecs] /\ poolKV' \in [PoolIds -> PoolRecs]
        /\ pool'[p] = d /\ poolKV'[p] = d
        /\ \A q \in PoolIds : q # p => pool'[q] = pool[q] /\ poolKV'[q] = poolKV[q]
    BY <1>0, <1>4, <2>2
  <2>4. told' \in [PoolIds -> SUBSET {"init", "delete"}] /\ told'[p] = {} /\ \A q \in PoolIds : q # p => told'[q] = told[q]
    BY <1>0, <1>4
  <2>5. Types'
    BY <1>0, <1>1, <2>1, <2>3, <2>4 DEF Types
  <2>6. Grows /\ Up'
    BY <1>1, SameMishaps DEF Up
  <2>7. GcOK'
    <3>1. \A q \in PoolIds : pool[q].status = "disabled" => pool'[q].status = "disabled" /\ poolKV'[q] = poolKV[q]
      BY <1>1, <2>3
    <3> QED
      BY <1>0, <1>1, <2>6, <3>1, GcKept
  <2>8. PoolOK(p)'
    <3>1. poolKV[p].status = "none"
      BY <1>0, <1>1 DEF PoolOK, StatusOK
    <3>2. StatusOK(p)' /\ DeletedOK(p)' /\ GroupsOK(p)'
      BY <2>2, <2>3, <2>4 DEF StatusOK, DeletedOK, GroupsOK
    <3>3. ServersOK(p)' /\ GroupsStored(p)'
      BY <1>0, <1>1, <2>2, <2>3, <2>6, StillClean DEF PoolOK, ServersOK, GroupsStored
    <3>4. BlobsOK(p)'
      <4>1. Clean(p, Base)' => blob'[p] = blobKV'[p] /\ blobKV'[p] = {}
        BY <1>0, <1>1, <2>6, <3>1, StillClean DEF PoolOK, BlobsOK, Up
      <4> QED
        BY <2>2, <2>3, <2>4, <4>1, CleanNext DEF BlobsOK
    <3> QED
      BY <3>2, <3>3, <3>4 DEF PoolOK
  <2>9. ASSUME NEW q \in PoolIds PROVE PoolOK(q)'
    <3>1. CASE q # p
      BY <1>1, <2>3, <2>4, <2>6, <3>1, PoolKept DEF PoolsInv, SamePool
    <3> QED
      BY <2>8, <3>1
  <2>10. \A u \in Threads : CallOK(u)'
    <3>1. ASSUME NEW u \in Threads PROVE QueryOK(u)'
      <4>1. call[u].era <= count.pools /\ call'[u] = call[u] /\ call[u].era \in Nat
        BY <1>0, <1>1 DEF PoolsInv, CallOK, PlaceOK, Types, CallRecs
      <4>2. call'[u].era # count'.pools
        BY <2>1, <4>1
      <4> QED
        BY <4>2 DEF QueryOK
    <3>2. count.pools <= count'.pools
      BY <2>1
    <3> QED
      BY <1>1, <2>1, <2>6, <3>1, <3>2, UnlockedCalls
  <2> QED
    BY <2>5, <2>7, <2>9, <2>10 DEF PoolsInv
<1> QED
  BY <1>2, <1>3, <1>4

-----------------------------------------------------------------------------
(* The collector.                                                          *)

(* A step of it that changes nothing but where it is.                      *)
LEMMA OnlyGc ==
  ASSUME PoolsInv, UNCHANGED <<mem, kv, recov, call, count, told>>, Grows,
         mishap' \in [PoolIds -> SUBSET Mishaps], gc' \in GcRecs, GcOK'
  PROVE  PoolsInv'
<1>0. Types
  BY DEF PoolsInv
<1>1. UNCHANGED <<pool, es, rg, blob, poolKV, esKV, rgKV, blobKV, recov, count, told>> /\ Up' = Up
  BY DEF mem, kv, Up
<1>2. Types'
  BY <1>0, <1>1 DEF Types
<1>3. ASSUME NEW q \in PoolIds PROVE PoolOK(q)'
  BY <1>1, PoolKept DEF PoolsInv, SamePool
<1> QED
  BY <1>1, <1>2, <1>3, NoCall

LEMMA GcFacts ==
  ASSUME Types
  PROVE  /\ gc \in GcRecs /\ gc.todo \subseteq PoolIds /\ gc.pool \in PoolIds /\ gc.blobs \subseteq Blobs
         /\ gc.success \in BOOLEAN /\ gc.pc \in {"idle", "take", "blobs", "es", "rg", "pool"}
BY DEF Types, GcRecs

(* It goes through the pools that are disabled.                            *)
LEMMA GcStartKeeps ==
  ASSUME PoolsInv, GcStart
  PROVE  PoolsInv'
<1> DEFINE todo == {p \in PoolIds : pool[p].status = "disabled"}
           g == [GcIdle EXCEPT !.pc = "take", !.todo = todo]
<1>1. gc' = g /\ UNCHANGED <<mem, kv, recov, call, count, told, mishap>>
  BY DEF GcStart
<1>2. todo \in SUBSET PoolIds /\ \A p \in todo : pool[p].status = "disabled"
  OBVIOUS
<1> HIDE DEF todo
<1>3. g \in GcRecs /\ g.pc = "take" /\ g.todo = todo
  BY <1>2, GcIdleFacts DEF GcRecs
<1> HIDE DEF g
<1>4. Grows /\ mishap' \in [PoolIds -> SUBSET Mishaps]
  BY <1>1, SameMishaps DEF PoolsInv, Types
<1>5. GcOK'
  BY <1>1, <1>2, <1>3 DEF GcOK, GcWork, mem
<1> QED
  BY <1>1, <1>3, <1>4, <1>5, OnlyGc

LEMMA GcDoneKeeps ==
  ASSUME PoolsInv, GcDone
  PROVE  PoolsInv'
<1>1. gc' = GcIdle /\ UNCHANGED <<mem, kv, recov, call, count, told, mishap>>
  BY DEF GcDone
<1>2. Grows /\ mishap' \in [PoolIds -> SUBSET Mishaps]
  BY <1>1, SameMishaps DEF PoolsInv, Types
<1>3. GcOK'
  BY <1>1, GcIdleFacts DEF GcOK, GcWork
<1> QED
  BY <1>1, <1>2, <1>3, GcIdleFacts, OnlyGc

(* It starts on a pool before the recovery is over, or before RocksDB has  *)
(* the deletion: that is noted.                                            *)
LEMMA GcTakeKeeps ==
  ASSUME PoolsInv, NEW p \in PoolIds, GcTake(p)
  PROVE  PoolsInv'
<1> DEFINE what == {w \in {"early", "ahead"} : IF w = "early" THEN ~ Up ELSE poolKV[p].status # "disabled"}
<1>0. Types /\ GcOK /\ p \in gc.todo
  BY DEF PoolsInv, GcTake
<1>1. Note(p, what) /\ UNCHANGED <<mem, kv, recov, call, count, told>>
  BY DEF GcTake
<1>2. Grows /\ mishap' \in [PoolIds -> SUBSET Mishaps] /\ \A w \in what : \A S : w \in S => ~ Clean(p, S)'
  <2>1. what \in SUBSET Mishaps
    BY DEF Mishaps
  <2> QED
    BY <1>0, <1>1, <2>1, NoteFacts
<1>3. (Clean(p, Base)' => Up) /\ (Clean(p, {"late", "ahead"})' => poolKV[p].status = "disabled")
  BY <1>2 DEF Base
<1> HIDE DEF what
<1>4. PICK pc \in {"take", "blobs"} :
        gc' = [gc EXCEPT !.pc = pc, !.todo = gc.todo \ {p}, !.pool = p, !.blobs = blob[p], !.success = TRUE]
  BY DEF GcTake
<1>5. gc' \in GcRecs /\ gc'.pc = pc /\ gc'.todo = gc.todo \ {p} /\ gc'.pool = p /\ gc'.blobs = blob[p]
  <2>1. PICK g \in GcRecs : g = gc
    BY <1>0 DEF Types
  <2>2. PICK b \in SUBSET Blobs : b = blob[p]
    BY <1>0 DEF Types
  <2>3. PICK d \in SUBSET PoolIds : d = gc.todo \ {p}
    BY <1>0, GcFacts
  <2>4. PICK h : h = [g EXCEPT !.pc = pc, !.todo = d, !.pool = p, !.blobs = b, !.success = TRUE]
    OBVIOUS
  <2>5. h \in GcRecs /\ h.pc = pc /\ h.todo = d /\ h.pool = p /\ h.blobs = b
    BY <2>4 DEF GcRecs
  <2> QED
    BY <1>4, <2>1, <2>2, <2>3, <2>4, <2>5
<1>6. Up' = Up /\ pool' = pool /\ poolKV' = poolKV /\ blob' = blob /\ es' = es /\ rg' = rg
  BY <1>1 DEF Up, mem, kv
<1>7. \A q \in gc.todo : Clean(q, {"late"})' => pool[q].status = "disabled"
  <2>1. gc.todo \subseteq PoolIds
    BY <1>0, GcFacts
  <2> QED
    BY <1>0, <1>2, <2>1, StillClean DEF GcOK
<1>8. GcOK'
  BY <1>0, <1>3, <1>5, <1>6, <1>7 DEF GcOK, GcWork
<1> QED
  BY <1>1, <1>2, <1>5, <1>8, OnlyGc

(* It goes on when all blobs of the pool are gone.                         *)
LEMMA GcBlobsKeeps ==
  ASSUME PoolsInv, GcBlobs
  PROVE  PoolsInv'
<1>0. Types /\ GcOK /\ gc.pc = "blobs" /\ gc.blobs = {}
  BY DEF PoolsInv, GcBlobs
<1>1. UNCHANGED <<mem, kv, recov, call, count, told, mishap>>
  BY DEF GcBlobs
<1>2. PICK pc \in {"es", "take"} : gc' = [gc EXCEPT !.pc = pc] /\ (pc = "es" => gc.success)
  BY <1>0, GcFacts DEF GcBlobs
<1>3. gc' \in GcRecs /\ gc'.pc = pc /\ gc'.todo = gc.todo /\ gc'.pool = gc.pool
  <2>1. PICK g \in GcRecs : g = gc
    BY <1>0 DEF Types
  <2>2. gc' = [g EXCEPT !.pc = pc]
    BY <1>2, <2>1
  <2> QED
    BY <2>1, <2>2 DEF GcRecs
<1>4. Grows /\ mishap' = mishap /\ mishap' \in [PoolIds -> SUBSET Mishaps]
  BY <1>1, SameMishaps DEF PoolsInv, Types
<1>5. Up' = Up /\ pool' = pool /\ poolKV' = poolKV /\ blob' = blob /\ es' = es /\ rg' = rg
  BY <1>1 DEF Up, mem, kv
<1>6. PICK p \in PoolIds : p = gc.pool
  BY <1>0, GcFacts
<1>7. \A q, S : Clean(q, S)' <=> Clean(q, S)
  BY <1>4 DEF Clean
<1>8. gc.pc \in GcWork
  BY <1>0 DEF GcWork
<1>9. GcOK'
  BY <1>0, <1>2, <1>3, <1>5, <1>7, <1>8 DEF GcOK, GcWork
<1> QED
  BY <1>1, <1>3, <1>4, <1>9, OnlyGc

(* A step of it that takes something from the pool it works on.            *)
LEMMA GcStep ==
  ASSUME PoolsInv, gc.pc \in GcWork, NEW p \in PoolIds, p = gc.pool,
         UNCHANGED <<pool, poolKV, recov, call, told>>, count' \in Counts, count'.pools = count.pools,
         Grows, mishap' \in [PoolIds -> SUBSET Mishaps], gc' \in GcRecs, GcOK',
         DataTypes', \A q \in PoolIds : q # p => SameData(q), PoolOK(p)'
  PROVE  PoolsInv'
<1>0. Types /\ GcOK
  BY DEF PoolsInv
<1>1. Types' /\ Up' = Up
  BY <1>0 DEF Types, DataTypes, Up
<1>2. ASSUME NEW q \in PoolIds PROVE PoolOK(q)'
  <2>1. CASE q # p
    BY <2>1, PoolKept DEF PoolsInv, SamePool, SameData
  <2> QED
    BY <2>1
<1>3. Clean(p, Whole)' => pool[p].status = "disabled"
  BY <1>0, StillClean, CleanFacts DEF GcOK
<1>4. \A q \in PoolIds : Clean(q, Whole)' /\ pool[q].status \in {"created", "enabled"} =>
           es'[q] = es[q] /\ esKV'[q] = esKV[q] /\ rg'[q] = rg[q] /\ rgKV'[q] = rgKV[q]
  BY <1>3 DEF SameData
<1> QED
  BY <1>1, <1>2, <1>4, NoCall

LEMMA GcBlobKeeps ==
  ASSUME PoolsInv, NEW b \in Blobs, GcBlob(b)
  PROVE  PoolsInv'
<1>0. Types /\ GcOK /\ gc.pc = "blobs" /\ gc.pc \in GcWork
  BY DEF PoolsInv, GcBlob, GcWork
<1>1. PICK p \in PoolIds : p = gc.pool
  BY <1>0, GcFacts
<1>2. UNCHANGED <<pool, poolKV, es, esKV, rg, rgKV, recov, call, told, mishap>>
  BY DEF GcBlob
<1>3. PICK ok \in BOOLEAN :
        /\ Counted(ok)
        /\ blob' = IF ok THEN [blob EXCEPT ![p] = blob[p] \ {b}] ELSE blob
        /\ blobKV' = IF ok THEN [blobKV EXCEPT ![p] = blobKV[p] \ {b}] ELSE blobKV
        /\ gc' = [gc EXCEPT !.blobs = gc.blobs \ {b}, !.success = gc.success /\ ok]
  BY <1>1 DEF GcBlob
<1>4. count' \in Counts /\ count'.pools = count.pools
  BY <1>0, <1>3, CountFacts
<1>5. Grows /\ mishap' = mishap /\ mishap' \in [PoolIds -> SUBSET Mishaps]
  BY <1>2, SameMishaps DEF PoolsInv, Types
<1>6. /\ gc' \in GcRecs /\ gc'.pc = "blobs" /\ gc'.todo = gc.todo /\ gc'.pool = p /\ gc'.blobs = gc.blobs \ {b}
      /\ gc'.success => gc.success /\ ok
  <2>1. PICK g \in GcRecs : g = gc
    BY <1>0 DEF Types
  <2>2. PICK d \in SUBSET Blobs : d = gc.blobs \ {b}
    BY <1>0, GcFacts
  <2>3. PICK s \in BOOLEAN : s = (gc.success /\ ok)
    OBVIOUS
  <2>4. PICK h : h = [g EXCEPT !.blobs = d, !.success = s]
    OBVIOUS
  <2>5. gc' = h
    BY <1>3, <2>1, <2>2, <2>3, <2>4
  <2>6. h \in GcRecs /\ h.pc = g.pc /\ h.todo = g.todo /\ h.pool = g.pool /\ h.blobs = d
    BY <2>4 DEF GcRecs
  <2>7. h.success = s
    BY <2>4 DEF GcRecs
  <2>8. h.success => gc.success /\ ok
    BY <2>3, <2>7, Zenon
  <2> QED
    BY <1>0, <1>1, <2>1, <2>2, <2>5, <2>6, <2>8
<1>7. /\ blob' \in [PoolIds -> SUBSET Blobs] /\ blob'[p] = (IF ok THEN blob[p] \ {b} ELSE blob[p])
      /\ \A q \in PoolIds : q # p => blob'[q] = blob[q]
  <2>1. blob \in [PoolIds -> SUBSET Blobs] /\ blob[p] \ {b} \in SUBSET Blobs
    BY <1>0 DEF Types
  <2> QED
    BY <1>3, <2>1, Edited
<1>8. /\ blobKV' \in [PoolIds -> SUBSET Blobs] /\ blobKV'[p] = (IF ok THEN blobKV[p] \ {b} ELSE blobKV[p])
      /\ \A q \in PoolIds : q # p => blobKV'[q] = blobKV[q]
  <2>1. blobKV \in [PoolIds -> SUBSET Blobs] /\ blobKV[p] \ {b} \in SUBSET Blobs
    BY <1>0 DEF Types
  <2> QED
    BY <1>3, <2>1, Edited
<1>9. DataTypes' /\ \A q \in PoolIds : q # p => SameData(q)
  BY <1>0, <1>2, <1>7, <1>8 DEF Types, DataTypes, SameData
<1>10. Up' = Up /\ \A q, S : Clean(q, S)' <=> Clean(q, S)
  BY <1>2, <1>5 DEF Clean, Up
<1>11. GcOK'
  BY <1>0, <1>1, <1>2, <1>6, <1>7, <1>10 DEF GcOK
<1>12. PoolOK(p)'
  <2>1. PoolOK(p)
    BY DEF PoolsInv
  <2>2. StatusOK(p)' /\ DeletedOK(p)'
    BY <1>2, <1>7, <1>10, <2>1 DEF PoolOK, StatusOK, DeletedOK
  <2>3. ServersOK(p)' /\ GroupsStored(p)' /\ GroupsOK(p)'
    BY <1>2, <1>10, <2>1 DEF PoolOK, ServersOK, GroupsStored, GroupsOK
  <2>4. BlobsOK(p)'
    BY <1>2, <1>7, <1>8, <1>10, <2>1 DEF PoolOK, BlobsOK
  <2> QED
    BY <2>2, <2>3, <2>4 DEF PoolOK
<1> QED
  BY <1>0, <1>1, <1>2, <1>4, <1>5, <1>6, <1>9, <1>11, <1>12, GcStep

LEMMA GcMoved ==
  ASSUME Types, NEW pc \in {"idle", "take", "blobs", "es", "rg", "pool"}, gc' = [gc EXCEPT !.pc = pc]
  PROVE  gc' \in GcRecs /\ gc'.pc = pc /\ gc'.todo = gc.todo /\ gc'.pool = gc.pool
<1>1. PICK g \in GcRecs : g = gc
  BY DEF Types
<1>2. gc' = [g EXCEPT !.pc = pc]
  BY <1>1
<1> QED
  BY <1>1, <1>2 DEF GcRecs

(* A record that could not be deleted is noted.                            *)
LEMMA GcServersKeeps ==
  ASSUME PoolsInv, GcServers
  PROVE  PoolsInv'
<1>0. Types /\ GcOK /\ gc.pc = "es" /\ gc.pc \in GcWork
  BY DEF PoolsInv, GcServers, GcWork
<1>1. PICK p \in PoolIds : p = gc.pool
  BY <1>0, GcFacts
<1>2. UNCHANGED <<pool, poolKV, rg, rgKV, blob, blobKV, recov, call, told>> /\ gc' = [gc EXCEPT !.pc = "rg"]
  BY DEF GcServers
<1>3. PICK ok \in BOOLEAN :
        /\ Counted(ok)
        /\ es' = [es EXCEPT ![p] = {}]
        /\ esKV' = [esKV EXCEPT ![p] = IF ok THEN esKV[p] \ es[p] ELSE esKV[p]]
        /\ Note(p, IF ok THEN {} ELSE {"kept"})
  BY <1>1 DEF GcServers
<1>4. count' \in Counts /\ count'.pools = count.pools
  BY <1>0, <1>3, CountFacts
<1>5. PICK what \in SUBSET Mishaps : Note(p, what) /\ (~ ok => "kept" \in what)
  BY <1>3 DEF Mishaps
<1>6. Grows /\ mishap' \in [PoolIds -> SUBSET Mishaps] /\ \A w \in what : \A S : w \in S => ~ Clean(p, S)'
  BY <1>0, <1>5, NoteFacts
<1>7. Clean(p, Base)' => ok
  BY <1>5, <1>6 DEF Base
<1>8. gc' \in GcRecs /\ gc'.pc = "rg" /\ gc'.todo = gc.todo /\ gc'.pool = p
  BY <1>0, <1>1, <1>2, GcMoved
<1>9. /\ es' \in [PoolIds -> SUBSET Beats] /\ es'[p] = {} /\ \A q \in PoolIds : q # p => es'[q] = es[q]
  BY <1>0, <1>3 DEF Types
<1>10. /\ esKV' \in [PoolIds -> SUBSET Beats] /\ (ok => esKV'[p] = esKV[p] \ es[p]) /\ \A q \in PoolIds : q # p => esKV'[q] = esKV[q]
  <2>1. PICK e \in SUBSET Beats : e = IF ok THEN esKV[p] \ es[p] ELSE esKV[p]
    BY <1>0 DEF Types
  <2>2. esKV' = [esKV EXCEPT ![p] = e]
    BY <1>3, <2>1
  <2> QED
    BY <1>0, <2>1, <2>2 DEF Types
<1>11. DataTypes' /\ \A q \in PoolIds : q # p => SameData(q)
  BY <1>0, <1>2, <1>9, <1>10 DEF Types, DataTypes, SameData
<1>12. Up' = Up /\ gc.todo \subseteq PoolIds
  BY <1>0, <1>2, GcFacts DEF Up
<1>13. GcOK'
  <2>1. /\ \A q \in gc.todo : Clean(q, {"late"})' => pool[q].status = "disabled"
        /\ p \notin gc.todo /\ (Clean(p, {"late"})' => pool[p].status = "disabled")
        /\ Clean(p, {"late", "ahead"})' => poolKV[p].status = "disabled"
        /\ Clean(p, Base)' => Up /\ blob[p] = {}
    BY <1>0, <1>1, <1>6, <1>12, StillClean DEF GcOK
  <2> QED
    BY <1>2, <1>8, <1>9, <1>12, <2>1 DEF GcOK
<1>14. PoolOK(p)'
  <2>1. PoolOK(p)
    BY DEF PoolsInv
  <2>2. StatusOK(p)' /\ DeletedOK(p)'
    BY <1>2, <1>6, <1>9, <2>1, StillClean DEF PoolOK, StatusOK, DeletedOK
  <2>3. BlobsOK(p)' /\ GroupsStored(p)'
    BY <1>2, <1>6, <2>1, StillClean DEF PoolOK, BlobsOK, GroupsStored
  <2>4. ServersOK(p)'
    <3>1. SUFFICES ASSUME Clean(p, Base)' PROVE es'[p] = {} /\ esKV'[p] = {}
      BY DEF ServersOK
    <3>2. Up /\ Clean(p, Base)
      BY <1>0, <1>1, <1>6, <3>1, StillClean DEF GcOK
    <3>3. es[p] = esKV[p]
      BY <2>1, <3>2 DEF PoolOK, ServersOK, Up
    <3> QED
      BY <1>7, <1>9, <1>10, <3>1, <3>3
  <2>5. GroupsOK(p)'
    <3>1. Clean(p, Whole)' => pool'[p].status = "disabled" /\ poolKV'[p].status = "disabled"
      BY <1>0, <1>1, <1>2, <1>6, StillClean, CleanFacts DEF GcOK
    <3> QED
      BY <3>1 DEF GroupsOK
  <2> QED
    BY <2>2, <2>3, <2>4, <2>5 DEF PoolOK
<1> QED
  BY <1>0, <1>1, <1>2, <1>4, <1>6, <1>8, <1>11, <1>13, <1>14, GcStep

LEMMA GcGroupsKeeps ==
  ASSUME PoolsInv, GcGroups
  PROVE  PoolsInv'
<1> DEFINE kept == {x \in rgKV[gc.pool] : x[1] \notin Ids(rg[gc.pool])}
           R == SUBSET ((Nat \ {0}) \X EsIds)
<1>0. Types /\ GcOK /\ gc.pc = "rg" /\ gc.pc \in GcWork
  BY DEF PoolsInv, GcGroups, GcWork
<1>1. PICK p \in PoolIds : p = gc.pool
  BY <1>0, GcFacts
<1>2. UNCHANGED <<pool, poolKV, es, esKV, blob, blobKV, recov, call, told>> /\ gc' = [gc EXCEPT !.pc = "pool"]
  BY DEF GcGroups
<1>3. PICK ok \in BOOLEAN :
        /\ Counted(ok)
        /\ rg' = [rg EXCEPT ![p] = {}]
        /\ rgKV' = [rgKV EXCEPT ![p] = IF ok THEN {x \in @ : x[1] \notin Ids(rg[p])} ELSE @]
        /\ Note(p, IF ok THEN {} ELSE {"kept"})
  BY <1>1 DEF GcGroups
<1>4. count' \in Counts /\ count'.pools = count.pools
  BY <1>0, <1>3, CountFacts
<1>5. PICK what \in SUBSET Mishaps : Note(p, what) /\ (~ ok => "kept" \in what)
  BY <1>3 DEF Mishaps
<1>6. Grows /\ mishap' \in [PoolIds -> SUBSET Mishaps] /\ \A w \in what : \A S : w \in S => ~ Clean(p, S)'
  BY <1>0, <1>5, NoteFacts
<1>7. Clean(p, Base)' => ok
  BY <1>5, <1>6 DEF Base
<1>8. gc' \in GcRecs /\ gc'.pc = "pool" /\ gc'.todo = gc.todo /\ gc'.pool = p
  BY <1>0, <1>1, <1>2, GcMoved
<1>9. rg \in [PoolIds -> R] /\ rgKV \in [PoolIds -> R] /\ {} \in R
  BY <1>0 DEF Types
<1>10. Ids(rgKV[p]) \subseteq Ids(rg[p]) => kept = {}
  BY <1>1 DEF Ids
<1>11. kept \in R /\ rgKV[p] \in R
  BY <1>1, <1>9
<1>12. rgKV' = [rgKV EXCEPT ![p] = IF ok THEN kept ELSE rgKV[p]]
  BY <1>1, <1>3
<1> HIDE DEF kept, R
<1>13. rg' \in [PoolIds -> R] /\ rg'[p] = {} /\ \A q \in PoolIds : q # p => rg'[q] = rg[q]
  BY <1>3, <1>9
<1>14. rgKV' \in [PoolIds -> R] /\ (ok => rgKV'[p] = kept) /\ \A q \in PoolIds : q # p => rgKV'[q] = rgKV[q]
  <2>1. PICK e \in R : e = IF ok THEN kept ELSE rgKV[p]
    BY <1>11
  <2>2. rgKV' = [rgKV EXCEPT ![p] = e]
    BY <1>12, <2>1
  <2> QED
    BY <1>9, <2>1, <2>2
<1>15. DataTypes' /\ \A q \in PoolIds : q # p => SameData(q)
  BY <1>0, <1>2, <1>13, <1>14 DEF Types, DataTypes, SameData, R
<1>16. Up' = Up /\ gc.todo \subseteq PoolIds
  BY <1>0, <1>2, GcFacts DEF Up
<1>17. GcOK'
  <2>1. /\ \A q \in gc.todo : Clean(q, {"late"})' => pool[q].status = "disabled"
        /\ p \notin gc.todo /\ (Clean(p, {"late"})' => pool[p].status = "disabled")
        /\ Clean(p, {"late", "ahead"})' => poolKV[p].status = "disabled"
        /\ Clean(p, Base)' => Up /\ blob[p] = {} /\ es[p] = {}
    BY <1>0, <1>1, <1>6, <1>16, StillClean DEF GcOK
  <2> QED
    BY <1>2, <1>8, <1>13, <1>16, <2>1 DEF GcOK
<1>18. PoolOK(p)'
  <2>1. PoolOK(p)
    BY DEF PoolsInv
  <2>2. StatusOK(p)' /\ DeletedOK(p)'
    BY <1>2, <1>6, <1>13, <2>1, StillClean DEF PoolOK, StatusOK, DeletedOK
  <2>3. BlobsOK(p)' /\ ServersOK(p)'
    BY <1>2, <1>6, <2>1, StillClean DEF PoolOK, BlobsOK, ServersOK
  <2>4. GroupsStored(p)'
    <3>1. SUFFICES ASSUME Clean(p, Base \cup {"groupless"})' PROVE rgKV'[p] = {}
      BY IdsFacts DEF GroupsStored
    <3>2. Clean(p, Base \cup {"groupless"}) /\ Clean(p, Base)' /\ Clean(p, Base)
      BY <1>6, <3>1, StillClean, CleanNext
    <3>3. Up
      BY <1>0, <1>1, <3>2 DEF GcOK
    <3>4. Ids(rgKV[p]) \subseteq Ids(rg[p])
      BY <2>1, <3>2, <3>3 DEF PoolOK, GroupsStored, Up
    <3> QED
      BY <1>7, <1>10, <1>14, <3>2, <3>4
  <2>5. GroupsOK(p)'
    <3>1. Clean(p, Whole)' => pool'[p].status = "disabled" /\ poolKV'[p].status = "disabled"
      BY <1>0, <1>1, <1>2, <1>6, StillClean, CleanFacts DEF GcOK
    <3> QED
      BY <3>1 DEF GroupsOK
  <2> QED
    BY <2>2, <2>3, <2>4, <2>5 DEF PoolOK
<1> QED
  BY <1>0, <1>1, <1>2, <1>4, <1>6, <1>8, <1>15, <1>17, <1>18, GcStep

(* The pool goes last, when nothing of it is left.                         *)
LEMMA DeletePoolKeeps ==
  ASSUME PoolsInv, delete_pool
  PROVE  PoolsInv'
<1>0. Types /\ GcOK /\ gc.pc = "pool" /\ gc.pc \in GcWork /\ Unlocked
  BY DEF PoolsInv, delete_pool, GcWork
<1>1. PICK p \in PoolIds : p = gc.pool
  BY <1>0, GcFacts
<1>2. UNCHANGED <<esKV, rgKV, blobKV, call, told, mishap>> /\ gc' = [gc EXCEPT !.pc = "take"]
  BY DEF delete_pool
<1>3. PICK ok \in BOOLEAN :
        /\ Counted(ok)
        /\ \/ ~ ok /\ UNCHANGED <<pool, poolKV, es, rg, blob, recov>>
           \/ /\ pool' = [pool EXCEPT ![p] = NoPool] /\ poolKV' = [poolKV EXCEPT ![p] = NoPool]
              /\ es' = [es EXCEPT ![p] = {}] /\ rg' = [rg EXCEPT ![p] = {}] /\ blob' = [blob EXCEPT ![p] = {}]
              /\ recov' = [recov EXCEPT ![p] = "done"]
  BY <1>1 DEF delete_pool
<1>4. count' \in Counts /\ count'.pools = count.pools /\ count.pools <= count'.pools
  BY <1>0, <1>3, CountFacts
<1>5. Grows /\ mishap' \in [PoolIds -> SUBSET Mishaps] /\ \A q, S : Clean(q, S)' <=> Clean(q, S)
  BY <1>0, <1>2, SameMishaps DEF Types, Clean
<1>6. gc' \in GcRecs /\ gc'.pc = "take" /\ gc'.todo = gc.todo /\ gc'.pool = p /\ gc.todo \subseteq PoolIds /\ p \notin gc.todo
  BY <1>0, <1>1, <1>2, GcMoved, GcFacts DEF GcOK
<1>7. CASE UNCHANGED <<pool, poolKV, es, rg, blob, recov>>
  <2>1. GcOK'
    BY <1>0, <1>5, <1>6, <1>7 DEF GcOK, GcWork
  <2>2. DataTypes' /\ \A q \in PoolIds : q # p => SameData(q)
    BY <1>0, <1>2, <1>7 DEF Types, DataTypes, SameData
  <2>3. PoolOK(p)'
    BY <1>2, <1>5, <1>7, PoolKept DEF PoolsInv, SamePool
  <2> QED
    BY <1>0, <1>1, <1>2, <1>4, <1>5, <1>6, <1>7, <2>1, <2>2, <2>3, GcStep
<1>8. CASE /\ pool' = [pool EXCEPT ![p] = NoPool] /\ poolKV' = [poolKV EXCEPT ![p] = NoPool]
           /\ es' = [es EXCEPT ![p] = {}] /\ rg' = [rg EXCEPT ![p] = {}] /\ blob' = [blob EXCEPT ![p] = {}]
           /\ recov' = [recov EXCEPT ![p] = "done"]
  <2>1. /\ pool' \in [PoolIds -> PoolRecs] /\ poolKV' \in [PoolIds -> PoolRecs]
        /\ pool'[p].status = "none" /\ poolKV'[p].status = "none"
        /\ \A q \in PoolIds : q # p => pool'[q] = pool[q] /\ poolKV'[q] = poolKV[q]
    BY <1>0, <1>8, ConstFacts DEF Types
  <2>2. /\ es' \in [PoolIds -> SUBSET Beats] /\ blob' \in [PoolIds -> SUBSET Blobs]
        /\ es'[p] = {} /\ blob'[p] = {}
        /\ \A q \in PoolIds : q # p => es'[q] = es[q] /\ blob'[q] = blob[q]
    BY <1>0, <1>8 DEF Types
  <2>3. /\ rg' \in [PoolIds -> SUBSET ((Nat \ {0}) \X EsIds)] /\ rg'[p] = {}
        /\ \A q \in PoolIds : q # p => rg'[q] = rg[q]
    BY <1>0, <1>8 DEF Types
  <2>4. /\ recov' \in [PoolIds -> {"es", "rg", "blob", "done"}] /\ recov'[p] = "done"
        /\ \A q \in PoolIds : q # p => recov'[q] = recov[q]
    BY <1>0, <1>8 DEF Types
  <2>5. Up => Up'
    BY <2>4 DEF Up
  <2>6. Types'
    BY <1>0, <1>2, <1>4, <1>5, <1>6, <2>1, <2>2, <2>3, <2>4 DEF Types
  <2>7. GcOK'
    BY <1>0, <1>5, <1>6, <2>1 DEF GcOK, GcWork
  <2>8. PoolOK(p)'
    <3>1. PoolOK(p)
      BY DEF PoolsInv
    <3>2. Clean(p, Base) => Up /\ es[p] = {} /\ blob[p] = {}
      BY <1>0, <1>1 DEF GcOK
    <3>3. Clean(p, Base \cup {"groupless"}) => rg[p] = {} /\ Up
      BY <1>0, <1>1, <3>2, CleanFacts DEF GcOK
    <3>4. StatusOK(p)' /\ DeletedOK(p)' /\ GroupsOK(p)'
      BY <2>1, <2>2, <2>3, <2>4 DEF StatusOK, DeletedOK, GroupsOK
    <3>5. ServersOK(p)'
      BY <1>2, <1>5, <2>2, <3>1, <3>2 DEF PoolOK, ServersOK, Up
    <3>6. BlobsOK(p)'
      BY <1>2, <1>5, <2>1, <2>2, <3>1, <3>2 DEF PoolOK, BlobsOK, Up
    <3>7. GroupsStored(p)'
      <4>1. Clean(p, Base \cup {"groupless"}) => Ids(rgKV[p]) \subseteq Ids(rg[p]) /\ rg[p] = {}
        BY <3>1, <3>3 DEF PoolOK, GroupsStored, Up
      <4>2. Ids(rg[p]) = {} <=> rg[p] = {}
        BY IdsFacts
      <4>3. Ids(rgKV[p]) = {} <=> rgKV[p] = {}
        BY IdsFacts
      <4>4. Clean(p, Base \cup {"groupless"}) => rgKV[p] = {}
        BY <4>1, <4>2, <4>3
      <4> QED
        BY <1>2, <1>5, <4>3, <4>4 DEF GroupsStored
    <3> QED
      BY <3>4, <3>5, <3>6, <3>7 DEF PoolOK
  <2>9. ASSUME NEW q \in PoolIds PROVE PoolOK(q)'
    <3>1. CASE q # p
      BY <1>2, <1>5, <2>1, <2>2, <2>3, <2>4, <3>1, PoolKept DEF PoolsInv, SamePool
    <3> QED
      BY <2>8, <3>1
  <2>10. ASSUME NEW u \in Threads PROVE QueryOK(u)'
    <3>1. CallOK(u) /\ call[u].pool \in PoolIds /\ call'[u] = call[u]
      BY <1>0, <1>2, CallFacts DEF PoolsInv
    <3>2. CASE call[u].pool = p
      BY <2>1, <3>1, <3>2 DEF QueryOK
    <3>3. CASE call[u].pool # p
      BY <1>4, <1>5, <2>1, <2>2, <3>1, <3>3 DEF CallOK, QueryOK
    <3> QED
      BY <3>2, <3>3
  <2>11. \A u \in Threads : CallOK(u)'
    BY <1>0, <1>2, <1>4, <2>5, <2>10, UnlockedCalls
  <2> QED
    BY <2>6, <2>7, <2>9, <2>11 DEF PoolsInv
<1> QED
  BY <1>3, <1>7, <1>8

-----------------------------------------------------------------------------
(* The recovery, during which there is no call, and only a collector that  *)
(* is too early.                                                           *)

LEMMA RecoverStep ==
  ASSUME PoolsInv, ~ Up, NEW p \in PoolIds,
         UNCHANGED <<pool, poolKV, esKV, rgKV, blobKV, call, gc, told>>, count' \in Counts, count'.pools = count.pools,
         Grows, mishap' \in [PoolIds -> SUBSET Mishaps], recov' \in [PoolIds -> {"es", "rg", "blob", "done"}],
         DataTypes', \A q \in PoolIds : q # p => SamePool(q), PoolOK(p)'
  PROVE  PoolsInv'
<1>0. Types /\ GcOK
  BY DEF PoolsInv
<1>1. Types'
  BY <1>0 DEF Types, DataTypes
<1>2. GcOK'
  <2>1. gc.pool \in PoolIds /\ gc.todo \subseteq PoolIds
    BY <1>0, GcFacts
  <2>2. /\ gc.pc \in GcWork => ~ Clean(gc.pool, Base)' /\ ~ Clean(gc.pool, Base \cup {"groupless"})'
        /\ gc.pc \in GcWork => gc.pool \notin gc.todo
    BY <1>0, <2>1, StillClean, CleanNext DEF GcOK
  <2>3. /\ \A q \in gc.todo : Clean(q, {"late"})' => pool'[q].status = "disabled"
        /\ gc.pc \in GcWork /\ Clean(gc.pool, {"late"})' => pool'[gc.pool].status = "disabled"
        /\ gc.pc \in GcWork /\ Clean(gc.pool, {"late", "ahead"})' => poolKV'[gc.pool].status = "disabled"
    BY <1>0, <2>1, StillClean DEF GcOK
  <2> QED
    BY <2>2, <2>3 DEF GcOK
<1>3. ASSUME NEW q \in PoolIds PROVE PoolOK(q)'
  BY PoolKept DEF PoolsInv
<1>4. ASSUME NEW u \in Threads PROVE CallOK(u)'
  <2>1. CallOK(u) /\ call[u].pc = "none" /\ call'[u] = call[u]
    BY DEF PoolsInv, CallOK, PlaceOK
  <2> QED
    BY <2>1 DEF CallOK, PlaceOK, StoreOK, EraseOK, InitOK, QueryOK, LockPCs
<1> QED
  BY <1>1, <1>2, <1>3, <1>4 DEF PoolsInv

LEMMA RecoverServersKeeps ==
  ASSUME PoolsInv, NEW p \in PoolIds, RecoverServers(p)
  PROVE  PoolsInv'
<1>0. Types /\ PoolOK(p) /\ recov[p] = "es" /\ ~ Up
  BY DEF PoolsInv, RecoverServers, Up
<1>1. UNCHANGED <<pool, rg, blob, poolKV, esKV, rgKV, blobKV, call, gc, count, told, mishap>>
  BY DEF RecoverServers, kv
<1>2. /\ recov' \in [PoolIds -> {"es", "rg", "blob", "done"}] /\ recov'[p] = "rg"
      /\ \A q \in PoolIds : q # p => recov'[q] = recov[q]
  BY <1>0 DEF Types, RecoverServers
<1>3. es' \in [PoolIds -> SUBSET Beats] /\ es'[p] = esKV[p] /\ \A q \in PoolIds : q # p => es'[q] = es[q]
  BY <1>0 DEF Types, RecoverServers
<1>4. Grows /\ mishap' \in [PoolIds -> SUBSET Mishaps] /\ count' \in Counts
  BY <1>0, <1>1, SameMishaps DEF Types
<1>5. DataTypes' /\ \A q \in PoolIds : q # p => SamePool(q)
  BY <1>0, <1>1, <1>2, <1>3 DEF Types, DataTypes, SamePool
<1>6. PoolOK(p)'
  <2>1. StatusOK(p)' /\ DeletedOK(p)'
    BY <1>0, <1>1, <1>4, StillClean DEF PoolOK, StatusOK, DeletedOK
  <2>2. ServersOK(p)' /\ BlobsOK(p)'
    BY <1>0, <1>1, <1>2, <1>3, <1>4, StillClean DEF PoolOK, ServersOK, BlobsOK
  <2>3. GroupsStored(p)' /\ GroupsOK(p)'
    BY <1>0, <1>1, <1>2, <1>4, StillClean DEF PoolOK, GroupsStored, GroupsOK
  <2> QED
    BY <2>1, <2>2, <2>3 DEF PoolOK
<1> QED
  BY <1>0, <1>1, <1>2, <1>4, <1>5, <1>6, RecoverStep

LEMMA RecoverGroupsKeeps ==
  ASSUME PoolsInv, NEW p \in PoolIds, RecoverGroups(p)
  PROVE  PoolsInv'
<1> DEFINE R == SUBSET ((Nat \ {0}) \X EsIds)
<1>0. Types /\ PoolOK(p) /\ recov[p] = "rg" /\ ~ Up
  BY DEF PoolsInv, RecoverGroups, Up
<1>1. UNCHANGED <<pool, es, blob, poolKV, esKV, rgKV, blobKV, call, gc, told>>
  BY DEF RecoverGroups, kv
<1>2. /\ recov' \in [PoolIds -> {"es", "rg", "blob", "done"}] /\ recov'[p] = "blob"
      /\ \A q \in PoolIds : q # p => recov'[q] = recov[q]
  BY <1>0 DEF Types, RecoverGroups
<1>3. PICK ok \in BOOLEAN :
        Counted(ok) /\ rg' = [rg EXCEPT ![p] = IF ok THEN rgKV[p] ELSE {}] /\ Note(p, IF ok THEN {} ELSE {"groupless"})
  BY DEF RecoverGroups
<1>4. count' \in Counts /\ count'.pools = count.pools
  BY <1>0, <1>3, CountFacts
<1>5. PICK what \in SUBSET Mishaps : Note(p, what) /\ (~ ok => "groupless" \in what)
  BY <1>3 DEF Mishaps
<1>6. Grows /\ mishap' \in [PoolIds -> SUBSET Mishaps] /\ \A w \in what : \A S : w \in S => ~ Clean(p, S)'
  BY <1>0, <1>5, NoteFacts
<1>7. (Clean(p, Base \cup {"groupless"})' => ok) /\ (Clean(p, Whole)' => ok)
  BY <1>5, <1>6 DEF Whole
<1>8. rg \in [PoolIds -> R] /\ rgKV[p] \in R /\ {} \in R
  BY <1>0 DEF Types
<1> HIDE DEF R
<1>9. rg' \in [PoolIds -> R] /\ (ok => rg'[p] = rgKV[p]) /\ (\A q \in PoolIds : q # p => rg'[q] = rg[q])
  <2>1. PICK e \in R : e = IF ok THEN rgKV[p] ELSE {}
    BY <1>8
  <2>2. rg' = [rg EXCEPT ![p] = e]
    BY <1>3, <2>1
  <2> QED
    BY <1>8, <2>1, <2>2
<1>10. DataTypes' /\ \A q \in PoolIds : q # p => SamePool(q)
  BY <1>0, <1>1, <1>2, <1>9 DEF Types, DataTypes, SamePool, R
<1>11. PoolOK(p)'
  <2>1. StatusOK(p)' /\ DeletedOK(p)'
    BY <1>0, <1>1, <1>6, StillClean DEF PoolOK, StatusOK, DeletedOK
  <2>2. ServersOK(p)' /\ BlobsOK(p)'
    BY <1>0, <1>1, <1>2, <1>6, StillClean DEF PoolOK, ServersOK, BlobsOK
  <2>3. GroupsStored(p)'
    BY <1>0, <1>1, <1>6, <1>7, <1>9, StillClean DEF PoolOK, GroupsStored
  <2>4. GroupsOK(p)'
    <3>1. SUFFICES ASSUME Clean(p, Whole)', "enabled" \in {pool[p].status, poolKV[p].status}
                   PROVE  Sound(rgKV[p], esKV[p]) /\ Sound(rgKV[p], es[p])
      BY <1>1, <1>7, <1>9 DEF GroupsOK
    <3>2. Clean(p, Whole) /\ Clean(p, Base)
      BY <1>6, <3>1, StillClean, CleanFacts
    <3>3. es[p] = esKV[p]
      BY <1>0, <3>2 DEF PoolOK, ServersOK
    <3> QED
      BY <1>0, <3>1, <3>2, <3>3 DEF PoolOK, GroupsOK
  <2> QED
    BY <2>1, <2>2, <2>3, <2>4 DEF PoolOK
<1> QED
  BY <1>0, <1>1, <1>2, <1>4, <1>6, <1>10, <1>11, RecoverStep

LEMMA RecoverBlobsKeeps ==
  ASSUME PoolsInv, NEW p \in PoolIds, RecoverBlobs(p)
  PROVE  PoolsInv'
<1>0. Types /\ PoolOK(p) /\ recov[p] = "blob" /\ ~ Up
  BY DEF PoolsInv, RecoverBlobs, Up
<1>1. UNCHANGED <<pool, es, rg, poolKV, esKV, rgKV, blobKV, call, gc, count, told, mishap>>
  BY DEF RecoverBlobs, kv
<1>2. /\ recov' \in [PoolIds -> {"es", "rg", "blob", "done"}] /\ recov'[p] = "done"
      /\ \A q \in PoolIds : q # p => recov'[q] = recov[q]
  BY <1>0 DEF Types, RecoverBlobs
<1>3. blob' \in [PoolIds -> SUBSET Blobs] /\ blob'[p] = blobKV[p] /\ \A q \in PoolIds : q # p => blob'[q] = blob[q]
  BY <1>0 DEF Types, RecoverBlobs
<1>4. Grows /\ mishap' \in [PoolIds -> SUBSET Mishaps] /\ count' \in Counts
  BY <1>0, <1>1, SameMishaps DEF Types
<1>5. DataTypes' /\ \A q \in PoolIds : q # p => SamePool(q)
  BY <1>0, <1>1, <1>2, <1>3 DEF Types, DataTypes, SamePool
<1>6. PoolOK(p)'
  <2>1. StatusOK(p)' /\ DeletedOK(p)'
    BY <1>0, <1>1, <1>4, StillClean DEF PoolOK, StatusOK, DeletedOK
  <2>2. ServersOK(p)' /\ BlobsOK(p)'
    BY <1>0, <1>1, <1>2, <1>3, <1>4, StillClean DEF PoolOK, ServersOK, BlobsOK
  <2>3. GroupsStored(p)' /\ GroupsOK(p)'
    BY <1>0, <1>1, <1>2, <1>4, StillClean DEF PoolOK, GroupsStored, GroupsOK
  <2> QED
    BY <2>1, <2>2, <2>3 DEF PoolOK
<1> QED
  BY <1>0, <1>1, <1>2, <1>4, <1>5, <1>6, RecoverStep

(* The process starts from what RocksDB has.                               *)
LEMMA RestartKeeps ==
  ASSUME PoolsInv, Restart
  PROVE  PoolsInv'
<1>0. Types /\ \A p \in PoolIds : PoolOK(p)
  BY DEF PoolsInv
<1>1. /\ pool' = poolKV /\ es' = Empty /\ rg' = Empty /\ blob' = Empty
      /\ recov' = [p \in PoolIds |-> IF poolKV[p].status = "none" THEN "done" ELSE "es"]
      /\ call' = [t \in Threads |-> Idle] /\ gc' = GcIdle
      /\ UNCHANGED <<poolKV, esKV, rgKV, blobKV, told, mishap>>
  BY DEF Restart, kv
<1>2. count' \in Counts
  <2>1. count \in Counts /\ count.restarts + 1 \in Nat
    BY <1>0 DEF Types, Counts
  <2>2. PICK m \in Nat : m = count.restarts + 1
    BY <2>1
  <2>3. count' = [count EXCEPT !.restarts = m]
    BY <2>1, <2>2 DEF Counts, Restart
  <2> QED
    BY <2>1, <2>3 DEF Counts
<1>3. Types'
  BY <1>0, <1>1, <1>2, ConstFacts, GcIdleFacts DEF Types, Empty
<1>4. GcOK'
  BY <1>1, GcIdleFacts DEF GcOK, GcWork
<1>5. Grows
  BY <1>1, SameMishaps
<1>6. ASSUME NEW p \in PoolIds PROVE PoolOK(p)'
  <2>1. /\ es'[p] = {} /\ rg'[p] = {} /\ blob'[p] = {} /\ PoolOK(p)
        /\ recov'[p] = IF poolKV[p].status = "none" THEN "done" ELSE "es"
    BY <1>0, <1>1 DEF Empty
  <2>2. StatusOK(p)' /\ DeletedOK(p)'
    BY <1>1, <1>5, <2>1, StillClean DEF PoolOK, StatusOK, DeletedOK
  <2>3. ServersOK(p)' /\ BlobsOK(p)'
    BY <1>1, <1>5, <2>1, StillClean DEF PoolOK, ServersOK, BlobsOK
  <2>4. GroupsStored(p)'
    BY <1>1, <1>5, <2>1, StillClean, IdsFacts DEF PoolOK, GroupsStored
  <2>5. GroupsOK(p)'
    BY <1>1, <1>5, <2>1, StillClean DEF PoolOK, GroupsOK
  <2> QED
    BY <2>2, <2>3, <2>4, <2>5 DEF PoolOK
<1>7. ASSUME NEW u \in Threads PROVE CallOK(u)'
  BY <1>1, <1>2, IdleOK
<1> QED
  BY <1>3, <1>4, <1>6, <1>7 DEF PoolsInv

-----------------------------------------------------------------------------
LEMMA PoolsInvInit ==
  Init => PoolsInv
<1>1. SUFFICES ASSUME Init PROVE PoolsInv
  OBVIOUS
<1>2. /\ pool = [p \in PoolIds |-> NoPool] /\ poolKV = pool /\ es = Empty /\ esKV = Empty /\ rg = Empty /\ rgKV = Empty
      /\ blob = Empty /\ blobKV = Empty /\ recov = [p \in PoolIds |-> "done"] /\ told = Empty /\ mishap = Empty
      /\ call = [t \in Threads |-> Idle] /\ gc = GcIdle /\ count = [faults |-> 0, restarts |-> 0, pools |-> 0]
  BY <1>1 DEF Init
<1>3. count \in Counts /\ count.pools = 0
  BY <1>2 DEF Counts
<1>4. Types
  BY <1>2, <1>3, ConstFacts, GcIdleFacts DEF Types, Empty
<1>5. GcOK
  BY <1>2, GcIdleFacts DEF GcOK, GcWork
<1>6. ASSUME NEW p \in PoolIds PROVE PoolOK(p)
  <2>1. /\ pool[p].status = "none" /\ poolKV[p].status = "none" /\ es[p] = {} /\ esKV[p] = {} /\ rg[p] = {}
        /\ rgKV[p] = {} /\ blob[p] = {} /\ blobKV[p] = {} /\ recov[p] = "done" /\ told[p] = {}
    BY <1>2, ConstFacts DEF Empty
  <2> QED
    BY <2>1 DEF PoolOK, StatusOK, DeletedOK, ServersOK, BlobsOK, GroupsStored, GroupsOK
<1>7. ASSUME NEW u \in Threads PROVE CallOK(u)
  <2>1. call[u] = Idle
    BY <1>2
  <2> QED
    BY <1>3, <2>1, ConstFacts DEF CallOK, PlaceOK, StoreOK, EraseOK, InitOK, QueryOK, LockPCs
<1> QED
  BY <1>4, <1>5, <1>6, <1>7 DEF PoolsInv

LEMMA PoolsInvNext ==
  ASSUME PoolsInv, [Next]_vars
  PROVE  PoolsInv'
<1>1. ASSUME NEW p \in PoolIds, NEW n \in EsNums, create_pool(p, n) \/ update_pool(p, n) PROVE PoolsInv'
  BY <1>1, CreatePoolKeeps, UpdatePoolKeeps
<1>2. ASSUME NEW t \in Threads, NEW p \in PoolIds, Request(t, p) PROVE PoolsInv'
  <2>1. PICK x \in Beats : TRUE
    BY PoolsAssumption
  <2>2. CASE InitPool(t, p)
    BY <2>2, InitPoolKeeps
  <2>3. CASE DeletePool(t, p) \/ CreateBlob(t, p)
    BY <2>1, <2>3, EasySteps
  <2>4. CASE QueryRouter(t, p)
    BY <2>4, QueryKeeps
  <2>5. ASSUME NEW y \in Beats, DeleteExtentServer(t, p, y) PROVE PoolsInv'
    BY <2>5, EraseBeginKeeps
  <2>6. ASSUME NEW y \in Beats, ReportHeartbeat(t, p, y) PROVE PoolsInv'
    BY <2>6, EasySteps
  <2> QED
    BY <1>2, <2>2, <2>3, <2>4, <2>5, <2>6 DEF Request
<1>3. ASSUME NEW t \in Threads, Work(t) PROVE PoolsInv'
  <2>1. PICK p \in PoolIds, x \in Beats : TRUE
    BY PoolsAssumption
  <2>2. CASE InitList(t)
    BY <2>2, InitListKeeps
  <2>3. CASE InitGroups(t)
    BY <2>3, InitGroupsKeeps
  <2>4. CASE SetStatus(t)
    BY <2>4, SetStatusKeeps
  <2>5. CASE Encode(t)
    BY <2>5, EncodeKeeps
  <2>6. CASE PutPool(t)
    BY <2>6, PutPoolKeeps
  <2>7. CASE delete_es(t)
    BY <2>7, EraseKeeps
  <2>8. CASE es_exist(t) \/ update_es(t) \/ create_es(t) \/ query_es_router(t)
    BY <2>1, <2>8, EasySteps
  <2>9. CASE insert_es(t)
    BY <2>9, InsertKeeps
  <2>10. ASSUME NEW b \in Blobs, create_blob(t, b) PROVE PoolsInv'
    BY <2>10, CreateBlobKeeps
  <2>11. CASE query_es_group(t)
    BY <2>11, QueryGroupKeeps
  <2> QED
    BY <1>3, <2>2, <2>3, <2>4, <2>5, <2>6, <2>7, <2>8, <2>9, <2>10, <2>11 DEF Work
<1>4. CASE GC
  <2>1. CASE GcStart
    BY <2>1, GcStartKeeps
  <2>2. CASE GcDone
    BY <2>2, GcDoneKeeps
  <2>3. CASE GcBlobs
    BY <2>3, GcBlobsKeeps
  <2>4. CASE GcServers
    BY <2>4, GcServersKeeps
  <2>5. CASE GcGroups
    BY <2>5, GcGroupsKeeps
  <2>6. CASE delete_pool
    BY <2>6, DeletePoolKeeps
  <2>7. ASSUME NEW p \in PoolIds, GcTake(p) PROVE PoolsInv'
    BY <2>7, GcTakeKeeps
  <2>8. ASSUME NEW b \in Blobs, GcBlob(b) PROVE PoolsInv'
    BY <2>8, GcBlobKeeps
  <2> QED
    BY <1>4, <2>1, <2>2, <2>3, <2>4, <2>5, <2>6, <2>7, <2>8 DEF GC
<1>5. CASE Recover
  BY <1>5, RecoverServersKeeps, RecoverGroupsKeeps, RecoverBlobsKeeps DEF Recover
<1>6. CASE Restart
  BY <1>6, RestartKeeps
<1>7. CASE UNCHANGED vars
  <2>1. count' = count /\ count \in Counts
    BY <1>7 DEF vars, PoolsInv, Types
  <2> QED
    BY <1>7, <2>1, OnlyCounted DEF vars
<1> QED
  BY <1>1, <1>2, <1>3, <1>4, <1>5, <1>6, <1>7 DEF Next

(* The manager, its callers, the collector and the recovery keep the       *)
(* inductive invariant.                                                    *)
THEOREM PoolsInvariance == Spec => []PoolsInv
<1>1. Init => PoolsInv
  BY PoolsInvInit
<1>2. PoolsInv /\ [Next]_vars => PoolsInv'
  BY PoolsInvNext
<1> QED
  BY <1>1, <1>2, PTL DEF Spec

-----------------------------------------------------------------------------
(* The exceptions as the properties list them.                             *)
LEMMA Listed ==
  /\ {"erased", "leftover", "late", "kept", "early", "ahead", "groupless"} = Whole
  /\ {"erased", "leftover", "late", "kept", "early", "ahead", "groupless", "unstored"} = Whole \cup {"unstored"}
  /\ {"late", "kept", "early"} = Base
  /\ {"unstored", "late", "early", "kept"} = Base \cup {"unstored"}
  /\ {"late", "kept", "early", "groupless"} = Base \cup {"groupless"}
BY DEF Whole, Base

LEMMA WholeHolds ==
  PoolsInv => PoolsWhole
<1>1. SUFFICES ASSUME PoolsInv PROVE PoolsWhole
  OBVIOUS
<1>2. Types /\ (\A p \in PoolIds : PoolOK(p)) /\ (\A t \in Threads : CallOK(t))
  BY <1>1 DEF PoolsInv
<1>3. TypeOK
  <2>1. ASSUME NEW p \in PoolIds PROVE Named(rg[p] \cup rgKV[p]) \subseteq EsIds
    BY <1>2 DEF Types, Named
  <2>2. gc.todo \subseteq PoolIds /\ gc.blobs \subseteq Blobs
    BY <1>2, GcFacts
  <2>3. ASSUME NEW p \in PoolIds
        PROVE  /\ pool[p].status \in {"none", "created", "enabled", "disabled"}
               /\ es[p] \subseteq Beats /\ esKV[p] \subseteq Beats
               /\ blob[p] \subseteq Blobs /\ blobKV[p] \subseteq Blobs
               /\ recov[p] \in {"es", "rg", "blob", "done"}
               /\ told[p] \subseteq {"init", "delete"}
    BY <1>2 DEF Types, PoolRecs, Statuses
  <2> QED
    BY <2>1, <2>2, <2>3 DEF TypeOK
<1>4. GroupsKnown
  <2>1. SUFFICES ASSUME NEW p \in PoolIds, Clean(p, Whole)
                 PROVE  /\ pool[p].status = "enabled" /\ recov[p] = "done" =>
                             ListReplicationGroups(p) # {} /\ \A g \in ListReplicationGroups(p) :
                               \A s \in QueryReplicationGroup(p, g) : QueryExtentServer(p, s) # {}
                        /\ poolKV[p].status = "enabled" => rgKV[p] # {} /\ Named(rgKV[p]) \subseteq Ids(esKV[p])
    BY Listed DEF GroupsKnown
  <2>2. PoolOK(p)
    BY <1>2
  <2>3. poolKV[p].status = "enabled" => rgKV[p] # {} /\ Named(rgKV[p]) \subseteq Ids(esKV[p])
    BY <2>1, <2>2 DEF PoolOK, GroupsOK, Sound
  <2>4. ASSUME pool[p].status = "enabled", recov[p] = "done"
        PROVE  ListReplicationGroups(p) # {} /\ \A g \in ListReplicationGroups(p) :
                 \A s \in QueryReplicationGroup(p, g) : QueryExtentServer(p, s) # {}
    <3>1. rg[p] # {} /\ Named(rg[p]) \subseteq Ids(es[p])
      BY <2>1, <2>2, <2>4 DEF PoolOK, GroupsOK, Sound
    <3>2. ListReplicationGroups(p) = Ids(rg[p]) /\ Ids(rg[p]) # {}
      BY <2>4, <3>1, IdsFacts DEF ListReplicationGroups, list_rg
    <3>3. ASSUME NEW g, NEW s \in QueryReplicationGroup(p, g), g \in ListReplicationGroups(p)
          PROVE  QueryExtentServer(p, s) # {}
      <4>1. s \in Named({x \in rg[p] : x[1] = g})
        BY <3>3 DEF QueryReplicationGroup, query_rg, ListReplicationGroups
      <4>2. s \in Named(rg[p])
        BY <4>1 DEF Named
      <4>3. PICK x \in es[p] : x[1] = s
        BY <3>1, <4>2 DEF Ids
      <4> QED
        BY <2>4, <4>3 DEF QueryExtentServer, query_es, list_es, pool_valid
    <3> QED
      BY <3>2, <3>3
  <2> QED
    BY <2>3, <2>4
<1>5. QueryFinds
  <2>1. SUFFICES ASSUME NEW t \in Threads, NEW p \in PoolIds, p = call[t].pool,
                        Clean(p, Whole \cup {"unstored"}), call[t].era = count.pools
                 PROVE  /\ At(t, "group") \/ At(t, "router") => pool[p].status # "created"
                        /\ At(t, "router") /\ pool[p].status = "enabled" =>
                             call[t].ess # {} /\ call[t].ess \subseteq Ids(es[p])
    BY <1>2, Listed, CallFacts DEF QueryFinds
  <2> QED
    BY <1>2, <2>1 DEF CallOK, QueryOK, At
<1>6. BlobsInInitedPool
  BY <1>2, Listed DEF BlobsInInitedPool, PoolOK, BlobsOK
<1>7. ServersDistinct
  <2>1. SUFFICES ASSUME NEW p \in PoolIds, NEW ess \in {esKV[p], ListExtentServers(p)}, NEW x \in ess, NEW y \in ess,
                        Clean(p, Base), x # y
                 PROVE  x[1] # y[1] /\ x[2] # y[2]
    BY Listed DEF ServersDistinct
  <2>2. /\ es[p] = esKV[p] \/ es[p] = {}
        /\ \A a, b \in esKV[p] : a # b => a[1] # b[1] /\ a[2] # b[2]
    BY <1>2, <2>1 DEF PoolOK, ServersOK
  <2>3. ListExtentServers(p) \subseteq es[p]
    BY DEF ListExtentServers, list_es
  <2> QED
    BY <2>1, <2>2, <2>3
<1> QED
  BY <1>3, <1>4, <1>5, <1>6, <1>7 DEF PoolsWhole

LEMMA NothingHolds ==
  PoolsInv => NothingLeftBehind
<1>1. SUFFICES ASSUME PoolsInv PROVE NothingLeftBehind
  OBVIOUS
<1>2. \A p \in PoolIds : PoolOK(p)
  BY <1>1 DEF PoolsInv
<1>3. EmptyWhenGone
  BY <1>2, Listed, CleanFacts DEF EmptyWhenGone, PoolOK, ServersOK, BlobsOK, GroupsStored
<1>4. DeletedStays
  BY <1>2 DEF DeletedStays, PoolOK, DeletedOK
<1> QED
  BY <1>3, <1>4 DEF NothingLeftBehind

(* Whatever PoolManager's callers, its collector, failed writes and stops  *)
(* of the process do: what QueryReplicationGroup and QueryRouter answer of *)
(* an enabled pool names servers that are there, in RocksDB too; a blob is *)
(* in a pool that RocksDB knows as initialised; and no two servers of a    *)
(* pool share an id or an address.  The exceptions are those PoolsWhole    *)
(* names.                                                                  *)
THEOREM PoolsAreWhole == Spec => []PoolsWhole
BY PoolsInvariance, WholeHolds, PTL

(* GcManager::deletePools leaves nothing of a pool in RocksDB when it has  *)
(* removed the pool, and DeletePool, once answered, lasts, with the        *)
(* exceptions that NothingLeftBehind names.                                *)
THEOREM PoolsGoWhole == Spec => []NothingLeftBehind
BY PoolsInvariance, NothingHolds, PTL
=============================================================================
