------------------------------ MODULE RgManager ------------------------------
(***************************************************************************)
(* The replication groups of one pool: RgManager and, of PoolManager, the  *)
(* calls that drive it.  InitPool deals the servers out to the groups and  *)
(* stores them, then stores the pool's status; CreateBlob and ResizeBlob   *)
(* take a group for every extent, from a heap of servers by the load of    *)
(* the groups they lead and, below, a heap of groups by their extents.     *)
(*                                                                         *)
(* A heap is a bag, as in RgAllocater.  Group objects are shared pointers: *)
(* every init or recovery makes new ones, and the heaps, which are not     *)
(* emptied, may still hold the old ones.  An object is <<group, pass>>.    *)
(* All calls hold the manager's mutex, except the servers' heartbeats.     *)
(***************************************************************************)
EXTENDS RgAllocater, Integers

CONSTANTS
  EsSets,        \* the sets of servers that a pool may have at InitPool
  ReplicaCounts, \* replica_num
  RgPerEs,       \* rg_per_es
  Batch,         \* groups that one MultiPut stores: 50 and 100
  Used,          \* used space that a heartbeat may report, in percent
  MaxPasses,     \* bound: inits and recoveries
  MaxWant,       \* bound: extents of one CreateBlob
  MaxExtents     \* bound: extents handed out

kRatioNearfull == 85

Gids   == 1..(RgPerEs * Cardinality(Servers))
Passes == 1..MaxPasses
Objs   == Gids \X Passes

VARIABLES
  status,  \* the pool's status, in memory and in RocksDB
  conf,    \* fd, ess and replicas of the last InitPool; whether it ran in this process
  pass,    \* inits and recoveries so far
  map,     \* rg_map_: map[g] is the pass of group g's object, or 0
  obj,     \* the objects: servers and nr_extents_
  heap,    \* es_rg_heap_: heap[p][s] is the EsRg of server s made in pass p
  ordered, \* the heaps are ordered by their present keys
  kv,      \* the groups in RocksDB
  used,    \* used_ of the servers
  call,    \* the call that holds the mutex
  acked,   \* acked[g]: extents of group g in finished calls (history)
  tainted, \* groups of an earlier attempt or pool were still there (history)
  skipped, \* a group or a server was passed over as near full (history)
  refused  \* the groups that were not near full at the last refusal (history)

vars == <<status, conf, pass, map, obj, heap, ordered, kv, used, call, acked,
          tainted, skipped, refused>>

NoObj == [servers |-> <<>>, nr |-> 0]
NoConf == [fd |-> "node", ess |-> {}, replicas |-> 0, tries |-> 0]
NoKV  == [servers |-> <<>>, nr |-> -1]
NoEsRg == [mult |-> 0, weight |-> 0, nr |-> 0, groups |-> [o \in Objs |-> 0]]
Idle  == [op |-> "none", want |-> 0, got |-> [g \in Gids |-> 0], todo |-> {}]

EmptyHeap == [p \in Passes |-> [s \in Servers |-> NoEsRg]]

Init ==
  /\ status = "created" /\ conf = NoConf
  /\ pass = 0
  /\ map = [g \in Gids |-> 0]
  /\ obj = [o \in Objs |-> NoObj]
  /\ heap = EmptyHeap
  /\ ordered = TRUE
  /\ kv = [g \in Gids |-> NoKV]
  /\ used \in [Servers -> Used]
  /\ call = Idle
  /\ acked = [g \in Gids |-> 0]
  /\ tainted = FALSE /\ skipped = FALSE /\ refused = {}

InMap == {g \in Gids : map[g] # 0}
Group(g) == obj[<<g, map[g]>>]

-----------------------------------------------------------------------------
(* InitPool.                                                               *)

(* The new groups, and those that a failed attempt with more servers left. *)
Started(ess) ==
  [g \in Gids |-> IF g <= RgPerEs * Cardinality(ess) \/ map[g] = 0 THEN <<>> ELSE Group(g).servers]

(* RgManager::init up to its persist part.  On failure the half-filled     *)
(* groups stay in the map.                                                 *)
InitGroups(fd, ess, replicas) ==
  /\ status = "created" /\ call = Idle
  /\ pass < MaxPasses
  /\ HostRackValid(ess)
  /\ LET new == 1..(RgPerEs * Cardinality(ess))
         ids == 1..Max(new \cup InMap)
         start == Started(ess)
     IN  \* a group with a server that the allocater does not know: see Dies
         /\ \A g \in ids : \A i \in 1..Len(start[g]) : fd = "node" \/ start[g][i] \in ess
         /\ \E o \in Placements(fd, ess, [g \in ids |-> start[g]], replicas, conf.tries = 0) :
              /\ map' = [g \in Gids |-> IF g \in new THEN pass + 1 ELSE map[g]]
              /\ obj' = [x \in Objs |->
                           IF x[1] \notin ids \/ x[2] # map'[x[1]] THEN obj[x]
                           ELSE [servers |-> o.groups[x[1]],
                                 nr |-> IF x[1] \in new THEN 0 ELSE obj[x].nr]]
              /\ call' = IF o.ok THEN [Idle EXCEPT !.op = "init", !.todo = ids] ELSE Idle
  /\ pass' = pass + 1
  /\ conf' = [fd |-> fd, ess |-> ess, replicas |-> replicas, tries |-> 1]
  /\ tainted' = (tainted \/ InMap # {})
  /\ UNCHANGED <<status, heap, ordered, kv, used, acked, skipped, refused>>

(* MultiPut of a batch, in init and in allocate_rgs. *)
Store ==
  /\ call.op \in {"init", "put"} /\ call.todo # {}
  /\ \E B \in SUBSET call.todo :
       /\ Cardinality(B) = Min({Batch, Cardinality(call.todo)})
       /\ kv' = [g \in Gids |-> IF g \in B THEN Group(g) ELSE kv[g]]
       /\ call' = [call EXCEPT !.todo = @ \ B]
  /\ UNCHANGED <<status, conf, pass, map, obj, heap, ordered, used, acked, tainted, skipped, refused>>

StoreFails ==
  /\ call.op \in {"init", "put"} /\ call.todo # {}
  /\ call' = Idle
  /\ UNCHANGED <<status, conf, pass, map, obj, heap, ordered, kv, used, acked, tainted, skipped, refused>>

(* build_heap, in pass p, for the objects ob of map m: one EsRg for each   *)
(* primary, put into the heap h that there is.                             *)
build_heap(h, p, m, ob) ==
  [h EXCEPT ![p] = [s \in Servers |->
     LET led == {o \in Objs : m[o[1]] = o[2] /\ ob[o].servers # <<>> /\ ob[o].servers[1] = s}
     IN  IF led = {} THEN NoEsRg
         ELSE [mult |-> 1, weight |-> Cardinality(led),
               nr |-> MapThenSumSet(LAMBDA o : ob[o].nr, led),
               groups |-> [o \in Objs |-> IF o \in led THEN 1 ELSE 0]]]]

(* The groups are stored: the heaps are built.  A key may change after the *)
(* entry is pushed, unless all groups are empty.                           *)
InitEnds ==
  /\ call.op = "init" /\ call.todo = {}
  /\ heap' = build_heap(heap, pass, map, obj)
  /\ ordered' = (ordered /\ \A g \in InMap : Group(g).nr = 0)
  /\ call' = [call EXCEPT !.op = "enable"]
  /\ UNCHANGED <<status, conf, pass, map, obj, kv, used, acked, tainted, skipped, refused>>

(* init_pool stores the status.  Without RocksDB, the pool is enabled in   *)
(* memory only: that is, until the restart.                                *)
Enable ==
  /\ call.op = "enable"
  /\ status' \in {"enabled", "memory"}
  /\ call' = Idle
  /\ UNCHANGED <<conf, pass, map, obj, heap, ordered, kv, used, acked, tainted, skipped, refused>>

-----------------------------------------------------------------------------
(* allocate_rgs.                                                           *)

nearfull(g) ==
  \E i \in 1..Len(Group(g).servers) : 100 * (used[Group(g).servers[i]] \div 100) > kRatioNearfull

(* The EsRgs <<p, s>> that are in the heap. *)
InHeap == {e \in Passes \X Servers : heap[e[1]][e[2]].mult > 0}
EsRg(e) == heap[e[1]][e[2]]
Key(e) == (10000 * EsRg(e).nr) \div EsRg(e).weight
Queued(e) == {o \in Objs : EsRg(e).groups[o] > 0}
Free(e) == {o \in Queued(e) : ~ nearfull(o[1])}

(* The part of C that is popped before x is found on top, by key. *)
Before(C, x, key(_)) ==
  IF ordered
  THEN {P \in SUBSET (C \ {x}) : /\ \A y \in P : key(y) <= key(x)
                                 /\ \A y \in C \ {x} : key(y) < key(x) => y \in P}
  ELSE SUBSET (C \ {x})

(* What pop() takes after P is pushed back, x being the one that was found *)
(* on top: an element with the least key.                                  *)
Popped(P, x, key(_)) ==
  IF ordered THEN {y \in P \cup {x} : \A z \in P \cup {x} : key(y) <= key(z)} ELSE P \cup {x}

AllocateStart(n) ==
  /\ status # "created" /\ call = Idle
  /\ MapThenSumSet(LAMBDA o : obj[o].nr, Objs) + n <= MaxExtents
  /\ call' = [Idle EXCEPT !.op = "allocate", !.want = n]
  /\ UNCHANGED <<status, conf, pass, map, obj, heap, ordered, kv, used, acked, tainted, skipped, refused>>

(* Mutant: the group is not pushed back. *)
allocate_rg_lost ==
  /\ call.op = "allocate" /\ call.want > 0
  /\ \E e \in InHeap : \E o \in Free(e) :
       /\ \A f \in InHeap : Key(e) <= Key(f)
       /\ heap' = [heap EXCEPT ![e[1]][e[2]].nr = @ + 1, ![e[1]][e[2]].groups[o] = @ - 1]
       /\ obj' = [obj EXCEPT ![o].nr = @ + 1]
       /\ call' = [call EXCEPT !.want = @ - 1, !.got[o[1]] = @ + 1]
  /\ UNCHANGED <<status, conf, pass, map, ordered, kv, used, acked, tainted, skipped, refused>>

(* allocate_rg: es_rg e and its group o are found behind the servers P and *)
(* the groups Q, which have nothing free and are pushed back.              *)
allocate_rg ==
  /\ call.op = "allocate" /\ call.want > 0
  /\ \E e \in InHeap : \E o \in Free(e) :
     LET ObjKey(x) == obj[x].nr
     IN  \E P \in Before({f \in InHeap : f = e \/ Free(f) = {}}, e, Key) :
         \E Q \in Before({x \in Queued(e) : x = o \/ x \notin Free(e)}, o, ObjKey) :
         \E f \in Popped(P, e, Key) : \E x \in Popped(Q, o, ObjKey) :
           /\ ordered => /\ \A g \in InHeap : Key(g) < Key(e) => g \in P
                         /\ \A y \in Queued(e) : obj[y].nr < obj[o].nr => y \in Q
           /\ heap' = LET h == [heap EXCEPT ![e[1]][e[2]].nr = @ + 1,
                                            ![e[1]][e[2]].groups[x] = @ - 1]
                          h2 == [h EXCEPT ![e[1]][e[2]].groups[o] = @ + 1,
                                          ![f[1]][f[2]].mult = @ - 1]
                      IN  [h2 EXCEPT ![e[1]][e[2]].mult = @ + 1]
           /\ obj' = [obj EXCEPT ![o].nr = @ + 1]
           /\ call' = [call EXCEPT !.want = @ - 1, !.got[o[1]] = @ + 1]
           /\ ordered' = (ordered /\ P = {} /\ Q = {})
           /\ skipped' = (skipped \/ P # {} \/ Q # {})
  /\ UNCHANGED <<status, conf, pass, map, kv, used, acked, tainted, refused>>

(* Nothing free in any heap. *)
AllocateFails ==
  /\ call.op = "allocate" /\ call.want > 0
  /\ \A e \in InHeap : Free(e) = {}
  /\ call' = Idle
  /\ refused' = {g \in InMap : ~ nearfull(g)}
  /\ UNCHANGED <<status, conf, pass, map, obj, heap, ordered, kv, used, acked, tainted, skipped>>

(* All extents have a group: the groups used are stored ... *)
AllocateStore ==
  /\ call.op = "allocate" /\ call.want = 0 /\ call.todo = {}
  /\ \E g \in Gids : call.got[g] > 0
  /\ call' = [call EXCEPT !.op = "put", !.todo = {g \in Gids : call.got[g] > 0}]
  /\ UNCHANGED <<status, conf, pass, map, obj, heap, ordered, kv, used, acked, tainted, skipped, refused>>

(* ... and the call ends. *)
AllocateEnds ==
  /\ call.op = "put" /\ call.todo = {}
  /\ acked' = [g \in Gids |-> acked[g] + call.got[g]]
  /\ call' = Idle
  /\ UNCHANGED <<status, conf, pass, map, obj, heap, ordered, kv, used, tainted, skipped, refused>>

-----------------------------------------------------------------------------
(* A heartbeat reports the used space of a server. *)
update_es(s) ==
  /\ \E u \in Used \ {used[s]} : used' = [used EXCEPT ![s] = u]
  /\ UNCHANGED <<status, conf, pass, map, obj, heap, ordered, kv, call, acked, tainted, skipped, refused>>

(* The garbage collector removes the pool.  A record that RocksDB does not *)
(* delete stays, and delete_all_rg goes on.                                *)
delete_all_rg ==
  /\ call = Idle /\ status # "none"
  /\ \E stay \in SUBSET {g \in InMap : kv[g] # NoKV} :
       /\ kv' = [g \in Gids |-> IF g \in InMap \ stay THEN NoKV ELSE kv[g]]
       /\ tainted' = \E g \in Gids : kv'[g] # NoKV
  /\ map' = [g \in Gids |-> 0] /\ obj' = [o \in Objs |-> NoObj] /\ heap' = EmptyHeap
  /\ ordered' = TRUE /\ skipped' = FALSE /\ refused' = {}
  /\ pass' = 0 /\ conf' = NoConf
  /\ status' = "none"
  /\ acked' = [g \in Gids |-> 0]
  /\ UNCHANGED <<used, call>>

(* CreatePool gives the id of a removed pool to a new one. *)
create_pool ==
  /\ status = "none" /\ call = Idle
  /\ status' = "created"
  /\ UNCHANGED <<conf, pass, map, obj, heap, ordered, kv, used, call, acked, tainted, skipped, refused>>

(* The extent manager stops at any point, and recovers the groups. *)
Restart ==
  /\ status' = IF status = "memory" THEN "created" ELSE status
  /\ LET Stored == {g \in Gids : kv[g] # NoKV /\ status # "none"}
     IN  /\ map' = [g \in Gids |-> IF g \in Stored THEN 1 ELSE 0]
         /\ obj' = [o \in Objs |-> IF o[1] \in Stored /\ o[2] = 1 THEN kv[o[1]] ELSE NoObj]
         /\ heap' = build_heap(EmptyHeap, 1, map', obj')
         /\ pass' = IF Stored = {} THEN 0 ELSE 1
         /\ ordered' = \A g \in Stored : kv[g].nr = 0
  /\ conf' = [conf EXCEPT !.tries = 0]
  /\ call' = Idle
  /\ skipped' = FALSE /\ refused' = {}
  /\ UNCHANGED <<kv, used, acked, tainted>>

Allocate ==
  \/ \E n \in 1..MaxWant : AllocateStart(n)
  \/ allocate_rg \/ AllocateFails \/ AllocateStore \/ AllocateEnds

Next ==
  \/ \E fd \in Domains, ess \in EsSets, n \in ReplicaCounts : InitGroups(fd, ess, n)
  \/ Store \/ StoreFails \/ InitEnds \/ Enable
  \/ Allocate
  \/ \E s \in Servers : update_es(s)
  \/ delete_all_rg \/ create_pool \/ Restart

Spec == Init /\ [][Next]_vars
-----------------------------------------------------------------------------
(* Properties.                                                             *)

(* Every variable has its type. *)
TypeOK ==
  /\ status \in {"none", "created", "enabled", "memory"}
  /\ map \in [Gids -> 0..pass] /\ pass \in 0..MaxPasses
  /\ \A o \in Objs : obj[o].nr \in Nat /\ obj[o].servers \in Seq(Servers)
  /\ \A p \in Passes : \A s \in Servers : heap[p][s].mult \in Nat
  /\ \A g \in Gids : kv[g].nr \in Int /\ kv[g].servers \in Seq(Servers)
  /\ call.todo \subseteq Gids

(* Placed: the replicas of a group are on as many servers of the pool, no  *)
(* two of them in one failure domain.                                      *)
Placed(ss) ==
  /\ Len(ss) = conf.replicas
  /\ \A i \in 1..Len(ss) : ss[i] \in conf.ess
  /\ \A i, j \in 1..Len(ss) : i # j => DomainOf(conf.fd, ss[i]) # DomainOf(conf.fd, ss[j])

(* An enabled pool has all of its groups, in memory and in RocksDB, and    *)
(* each is placed as the failure domain asks, also after a restart         *)
(* between any two steps of InitPool.                                      *)
GroupsPlaced ==
  status = "enabled" /\ ~ tainted =>
    /\ {g \in Gids : kv[g] # NoKV} = 1..(RgPerEs * Cardinality(conf.ess))
    /\ \A g \in Gids : kv[g] # NoKV => map[g] # 0 /\ Group(g).servers = kv[g].servers /\ Placed(kv[g].servers)

(* The servers lead groups in proportion to their weight, in a pool by     *)
(* servers (RGAllocaterByEs::select_primary).                              *)
PrimariesBalanced ==
  status = "enabled" /\ ~ tainted /\ conf.fd = "node" /\ conf.tries = 1 =>
    LET Led(s) == Cardinality({g \in InMap : Group(g).servers[1] = s})
    IN  \A s, t \in conf.ess : (Led(s) - 1) * Weight[t] <= Led(t) * Weight[s]

(* The extents of a finished call are in the stored counts of their        *)
(* groups, whatever fails or stops afterwards.                             *)
AckedCounted == ~ tainted => \A g \in Gids : kv[g] # NoKV => kv[g].nr >= acked[g]

(* No group is lost from the heaps and none is there twice, as long as no  *)
(* group was passed over as near full.                                     *)
HeapsComplete ==
  status \in {"enabled", "memory"} /\ ~ tainted /\ ~ skipped =>
    \A g \in InMap : \E e \in InHeap :
      /\ EsRg(e).mult = 1 /\ EsRg(e).groups[<<g, map[g]>>] = 1
      /\ \A f \in InHeap \ {e} : <<g, map[g]>> \notin Queued(f)

(* A call is refused only when every group has a full server. *)
RefusedOnlyWhenFull == ~ tainted /\ ~ skipped => refused = {}

(* The extents are spread over the leading servers in proportion to their  *)
(* groups, while the heaps are in order.                                   *)
LoadBalanced ==
  ordered /\ ~ tainted =>
    \A e, f \in InHeap : (EsRg(e).nr - 1) * EsRg(f).weight <= EsRg(f).nr * EsRg(e).weight
=============================================================================
