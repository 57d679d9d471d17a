----------------------------- MODULE RouterCache -----------------------------
(***************************************************************************)
(* How an extent server finds the peers of an extent: ExtentRouterMgr, a   *)
(* cache of routers in front of the extent manager, and ConnectionPool,    *)
(* the connections to other extent servers.  Both are shared by the        *)
(* threads that serve requests.  The cache is filled outside its lock      *)
(* (look up, ask the extent manager, insert), the pool looks again under   *)
(* the write lock.  When the extent manager's collector deletes a blob it  *)
(* has the servers reclaim an extent first, which drops the router from    *)
(* the cache, and only then deletes its own router of it (deleteOneBlob).  *)
(* In between it refuses to answer for a blob that was soft-deleted, but   *)
(* not for a blob whose user was: that blob still has status created.      *)
(* (A soft-deleted pool is refused like a blob, and nothing of it is       *)
(* reclaimed; the manager's failed stores and restarts: BlobLifecycle.)    *)
(***************************************************************************)
EXTENDS Naturals, FiniteSets

CONSTANTS
  Bthreads, Extents,
  Peers,      \* extent servers that are secondaries of some extent
  Routers,    \* per extent: [primary: BOOLEAN (this server), secondaries]
  ThreadLocal, \* use_thread_local_: a cache per thread (the server has FALSE)
  MaxConns,   \* bound: channels made
  NoExtent

VARIABLES
  em,      \* per extent: "created" or "deleted", the status of its blob at the extent
           \* manager, or "gone" when the manager has deleted the router
  userless, \* extents whose user was soft-deleted
  cache,   \* per cache: the extents whose routers it holds
  conns,   \* connection_pool_: per peer, its connection or 0
  made,    \* channels made so far
  work,    \* per thread: the request it serves
  taken,   \* per thread: the connections it sends on
  reclaimed, \* extents this server has reclaimed
  overtaken, \* extents whose router was answered before the reclaim and not yet inserted
  handedOut  \* extents whose router was answered after the reclaim

cacheHistory == <<reclaimed, overtaken, handedOut>>
manager == <<em, userless>>
cacheVars == <<manager, cache, conns, made, work, taken, cacheHistory>>

Caches == IF ThreadLocal THEN Bthreads ELSE {NoExtent}
CacheOf(t) == IF ThreadLocal THEN t ELSE NoExtent
NoWork == [at |-> "idle", extent |-> NoExtent]
NoConns == [p \in Peers |-> 0]

CacheInit ==
  /\ em = [e \in Extents |-> "created"] /\ userless = {}
  /\ cache = [c \in Caches |-> {}]
  /\ conns = NoConns
  /\ made = 0
  /\ work = [t \in Bthreads |-> NoWork]
  /\ taken = [t \in Bthreads |-> NoConns]
  /\ reclaimed = {} /\ overtaken = {} /\ handedOut = {}

Goto(t, at) == work' = [work EXCEPT ![t].at = at]
Finish(t) == work' = [work EXCEPT ![t] = NoWork] /\ taken' = [taken EXCEPT ![t] = NoConns]

\* A write arrives; the router may be in the cache.
QueryRouter(t, e) ==
  /\ work[t] = NoWork
  /\ work' = [work EXCEPT ![t] = [extent |-> e,
                at |-> IF e \in cache[CacheOf(t)] THEN "check" ELSE "ask"]]
  /\ UNCHANGED <<manager, cache, conns, made, taken, cacheHistory>>

\* queryFromRemote: RouterServiceImpl::QueryRouter answers while the manager has
\* the router and the blob is not soft-deleted (blob_valid), or the call fails
\* and so does the request.
queryFromRemote(t) ==
  /\ work[t].at = "ask"
  /\ \/ /\ em[work[t].extent] = "created"
        /\ handedOut' = handedOut \cup ({work[t].extent} \cap reclaimed)
        /\ Goto(t, "insert") /\ UNCHANGED taken
     \/ Finish(t) /\ UNCHANGED handedOut
  /\ UNCHANGED <<manager, cache, conns, made, reclaimed, overtaken>>

InsertRouter(t) ==
  /\ work[t].at = "insert"
  /\ cache' = [cache EXCEPT ![CacheOf(t)] = @ \cup {work[t].extent}]
  /\ Goto(t, "check")
  /\ UNCHANGED <<manager, conns, made, taken, cacheHistory>>

\* checkOwnership of a write under standard replication.
checkOwnership(t) ==
  /\ work[t].at = "check"
  /\ IF Routers[work[t].extent].primary THEN Goto(t, "send") /\ UNCHANGED taken ELSE Finish(t)
  /\ UNCHANGED <<manager, cache, conns, made, cacheHistory>>

-----------------------------------------------------------------------------
(***************************************************************************)
(* The extent manager: a blob or its user is soft-deleted, the collector   *)
(* has the servers reclaim the extent, once or again after a failure, and  *)
(* then deletes the router.  A reclaim that timed out may still come late. *)
(***************************************************************************)
soft_delete_blob(e) ==
  /\ em[e] = "created"
  /\ em' = [em EXCEPT ![e] = "deleted"]
  /\ UNCHANGED <<userless, cache, conns, made, work, taken, cacheHistory>>

soft_delete_user(e) ==
  /\ userless' = userless \cup {e}
  /\ UNCHANGED <<em, cache, conns, made, work, taken, cacheHistory>>

delete_router(e) ==
  /\ em[e] # "gone" /\ e \in reclaimed
  /\ em' = [em EXCEPT ![e] = "gone"]
  /\ UNCHANGED <<userless, cache, conns, made, work, taken, cacheHistory>>

Collected(e) == em[e] # "created" \/ e \in userless
Overtaken(e) == \E t \in Bthreads : work[t].extent = e /\ work[t].at = "insert"

DeleteRouterSkipped(t, e) ==
  /\ work[t] = NoWork /\ Collected(e)
  /\ reclaimed' = reclaimed \cup {e}
  /\ overtaken' = IF Overtaken(e) THEN overtaken \cup {e} ELSE overtaken
  /\ UNCHANGED <<manager, cache, conns, made, work, taken, handedOut>>

\* handleReclaimExtent: the router is dropped, then the extent's place is given back.
DeleteRouter(t, e) ==
  /\ work[t] = NoWork /\ Collected(e)
  /\ cache' = [cache EXCEPT ![CacheOf(t)] = @ \ {e}]
  /\ reclaimed' = reclaimed \cup {e}
  /\ overtaken' = IF Overtaken(e) THEN overtaken \cup {e} ELSE overtaken
  /\ UNCHANGED <<manager, conns, made, work, taken, handedOut>>

\* ExtentRouterMgr::Clear.
Clear(t) ==
  /\ work[t] = NoWork
  /\ cache' = [cache EXCEPT ![CacheOf(t)] = {}]
  /\ UNCHANGED <<manager, conns, made, work, taken, cacheHistory>>
-----------------------------------------------------------------------------
(***************************************************************************)
(* GetConnection for each secondary: found under the read lock, or looked  *)
(* for again and made under the write lock.  A failed Init fails the send. *)
(***************************************************************************)
FindConnection(t, p) ==
  /\ work[t].at = "send"
  /\ p \in Routers[work[t].extent].secondaries /\ taken[t][p] = 0
  /\ IF conns[p] # 0
       THEN taken' = [taken EXCEPT ![t][p] = conns[p]] /\ UNCHANGED work
       ELSE work' = [work EXCEPT ![t] = [at |-> "connect", extent |-> @.extent, peer |-> p]]
            /\ UNCHANGED taken
  /\ UNCHANGED <<manager, cache, conns, made, cacheHistory>>

Connect(t, p, c) ==
  /\ conns' = [conns EXCEPT ![p] = c]
  /\ taken' = [taken EXCEPT ![t][p] = c]
  /\ work' = [work EXCEPT ![t] = [at |-> "send", extent |-> @.extent]]

MakeConnection(t) ==
  /\ work[t].at = "connect"
  /\ IF conns[work[t].peer] # 0
       THEN Connect(t, work[t].peer, conns[work[t].peer]) /\ UNCHANGED made
       ELSE \/ made < MaxConns /\ Connect(t, work[t].peer, made + 1) /\ made' = made + 1
            \/ Finish(t) /\ UNCHANGED <<conns, made>>
  /\ UNCHANGED <<manager, cache, cacheHistory>>

Sent(t) ==
  /\ work[t].at = "send"
  /\ \A p \in Routers[work[t].extent].secondaries : taken[t][p] # 0
  /\ Finish(t)
  /\ UNCHANGED <<manager, cache, conns, made, cacheHistory>>

CacheNext ==
  \/ \E t \in Bthreads :
       \/ queryFromRemote(t) \/ InsertRouter(t) \/ checkOwnership(t)
       \/ MakeConnection(t) \/ Sent(t) \/ Clear(t)
       \/ \E e \in Extents : QueryRouter(t, e) \/ DeleteRouter(t, e)
       \/ \E p \in Peers : FindConnection(t, p)
  \/ \E e \in Extents : soft_delete_blob(e) \/ soft_delete_user(e) \/ delete_router(e)

CacheSpec == CacheInit /\ [][CacheNext]_cacheVars
-----------------------------------------------------------------------------
CacheTypes ==
  /\ em \in [Extents -> {"created", "deleted", "gone"}] /\ userless \subseteq Extents
  /\ reclaimed \subseteq Extents /\ overtaken \subseteq reclaimed /\ handedOut \subseteq reclaimed
  /\ cache \in [Caches -> SUBSET Extents]
  /\ conns \in [Peers -> 0..MaxConns] /\ made \in 0..MaxConns
  /\ taken \in [Bthreads -> [Peers -> 0..MaxConns]]
  /\ \A t \in Bthreads : work[t].extent \in Extents \cup {NoExtent}

(* Once the server has reclaimed an extent its router is gone from the     *)
(* cache, so that a late write is sent back to the extent manager instead  *)
(* of allocating the extent anew.  There are two ways round: a QueryRouter *)
(* that was answered before the reclaim and inserts after it, and one that *)
(* was answered after it (nothing removes either router again).            *)
ForgottenOnReclaim ==
  \A c \in Caches : cache[c] \cap reclaimed \subseteq overtaken \cup handedOut

(* Only blobs of a soft-deleted user are handed out after the reclaim: for *)
(* a soft-deleted blob the extent manager's check of its status comes in   *)
(* time, although the router itself is deleted last.                       *)
HandedOutOnlyUserless == handedOut \subseteq userless

(* Two threads that send to the same server use the same connection: one   *)
(* is made per server, whoever comes first.                                *)
OneConnection ==
  \A t, u \in Bthreads, p \in Peers :
    taken[t][p] # 0 /\ taken[u][p] # 0 => taken[t][p] = taken[u][p]

(* A reclaimed extent's router is gone from the cache, unless a            *)
(* QueryRouter answered before the reclaim is inserted after it, or the    *)
(* blob was deleted with its user and a QueryRouter came between the       *)
(* reclaim and the deletion of the manager's router; and one connection is *)
(* made per server, whichever thread comes first.                          *)
StaleOnlyIfAnswered ==
  CacheTypes /\ ForgottenOnReclaim /\ HandedOutOnlyUserless /\ OneConnection
=============================================================================
