------------------------------ MODULE IoMemory ------------------------------
(***************************************************************************)
(* The memory an extent server's I/O runs in: the Request objects of       *)
(* RequestMgr and the buffers (io_u) of IOMemMgr, one pool per multiple of *)
(* kIOUnitSize_.  A pool is a MemBuffer: a ring of the units that were put *)
(* back, a count of the units that exist, and an Arena that new units are  *)
(* cut from; an IOMem cuts a unit's data from a second arena.  Sizes above *)
(* the largest slab are allocated directly.                                *)
(*                                                                         *)
(* A Get is several steps (dequeue, count, allocate, allocate data), and   *)
(* any thread may run between them; each step is atomic in the code: the   *)
(* rings are DPDK's, the count is a compare-and-swap, an arena has a lock. *)
(* Memory comes zeroed out of hugepages and may run out.  Sizes are in     *)
(* units of kIOUnitSize_ (requests are aligned to it).                     *)
(***************************************************************************)
EXTENDS Integers, Sequences, FiniteSets, SequencesExt

CONSTANTS
  Users,        \* threads of the extent server
  Worker,       \* the one thread that takes buffers (a ring of type MP_SC)
  MaxSlab,      \* largest slab; larger buffers are allocated directly
  Sizes,        \* sizes asked for
  Nums,         \* numbers of units asked for at once
  RingSize,     \* ring_size_ of a pool
  InitBlock, MaxBlock, \* ArenaOptions
  HugePages     \* hugepage memory there is

VARIABLES
  pool,   \* per pool: ring, number of units, arena of units, arena of data
  data,   \* per unit cut from an arena: its data and size, or its Request
  held,   \* the arrays of units callers have and have not put back
  get,    \* per thread: the Get it is in
  free,   \* hugepage memory left
  refused \* units whose Put found the ring full

vars == <<pool, data, held, get, free, refused>>

RequestPool == 0
Pools == {RequestPool} \cup 1..MaxSlab
\* IOMemMgr's index of a size, and the threads that may take from a pool.
get_index(size) == size
Takers(p) == IF p = RequestPool THEN Users ELSE {Worker}

Idle == [at |-> "idle"]
NoBytes == <<>>
NewArena == [blocks |-> <<>>, block_size |-> InitBlock]
-----------------------------------------------------------------------------
(***************************************************************************)
(* Arena::Allocate: num pieces of a size, cut from the current block and,  *)
(* for the rest, from one new block; all of them or none.                  *)
(***************************************************************************)
LeastOf(x, y) == IF x < y THEN x ELSE y
MostOf(x, y) == IF x > y THEN x ELSE y

FromCurrent(a, size, num) ==
  IF a.blocks = <<>> THEN 0
  ELSE LET cur == Last(a.blocks) IN LeastOf(num, (cur.capacity - cur.size) \div size)

NewBlock(a, size, num) ==
  LET rest == num - FromCurrent(a, size, num)
  IN  IF rest = 0 THEN 0 ELSE MostOf(LeastOf(a.block_size, MaxBlock), rest * size)

AllocateFits(a, size, num) == NewBlock(a, size, num) <= free

Pieces(a, size, num) ==
  LET n == Len(a.blocks)
      k == FromCurrent(a, size, num)
  IN  [i \in 1..num |->
         IF i <= k THEN [block |-> n, at |-> Last(a.blocks).size + (i - 1) * size]
                   ELSE [block |-> n + 1, at |-> (i - k - 1) * size]]

AllocateKeepsSize(a, size, num) ==
  IF NewBlock(a, size, num) = 0 THEN a
  ELSE [a EXCEPT !.blocks = Append(@, [size |-> 0, capacity |-> NewBlock(a, size, num)])]

Allocate(a, size, num) ==
  LET k == FromCurrent(a, size, num)
      n == Len(a.blocks)
      grown == IF k = 0 THEN a.blocks ELSE [a.blocks EXCEPT ![n].size = @ + k * size]
      new == NewBlock(a, size, num)
  IN  IF new = 0 THEN [a EXCEPT !.blocks = grown]
      ELSE [blocks |-> Append(grown, [size |-> (num - k) * size, capacity |-> new]),
            block_size |-> IF n > 0 /\ a.block_size < MaxBlock
                             THEN 2 * a.block_size ELSE a.block_size]
-----------------------------------------------------------------------------
\* A Request: what Reset leaves, and what the zeroed memory of a new one holds.
Zeroed == [result |-> FALSE, ref |-> 0, type |-> "read", io |-> "none"]
Reset(type) == [result |-> TRUE, ref |-> 1, type |-> type, io |-> "none"]

Init ==
  /\ pool = [p \in Pools |-> [ring |-> <<>>, num |-> 0, units |-> NewArena, mem |-> NewArena]]
  /\ data = <<>>                 \* a function whose domain is the units cut so far
  /\ held = {}
  /\ get = [t \in Users |-> Idle]
  /\ free = HugePages
  /\ refused = {}

(***************************************************************************)
(* A pool's Get.  GetRequest resets the requests it hands out; a buffer    *)
(* keeps the data it was given when it was new.                            *)
(***************************************************************************)
GetRequest(d, us) == [u \in DOMAIN d |-> IF u \in Range(us) THEN Reset("read") ELSE d[u]]

Give(t, p, us, d) ==
  /\ held' = held \cup {us}
  /\ data' = IF p = RequestPool THEN GetRequest(d, us) ELSE d
  /\ get' = [get EXCEPT ![t] = Idle]

\* The ring gives all n units or none.
GetsBulk(t, p, n) ==
  /\ get[t] = Idle /\ t \in Takers(p)
  /\ IF Len(pool[p].ring) >= n
       THEN /\ pool' = [pool EXCEPT ![p].ring = SubSeq(@, n + 1, Len(@))]
            /\ Give(t, p, SubSeq(pool[p].ring, 1, n), data)
       ELSE /\ get' = [get EXCEPT ![t] = [at |-> "count", pool |-> p, num |-> n, units |-> <<>>]]
            /\ UNCHANGED <<pool, held, data>>
  /\ UNCHANGED <<free, refused>>

\* The ring gives what it has, up to n units.
GetsBurst(t, p, n) ==
  /\ get[t] = Idle /\ t \in Takers(p)
  /\ LET k == LeastOf(n, Len(pool[p].ring))
     IN  /\ k > 0
         /\ pool' = [pool EXCEPT ![p].ring = SubSeq(@, k + 1, Len(@))]
         /\ Give(t, p, SubSeq(pool[p].ring, 1, k), data)
  /\ UNCHANGED <<free, refused>>

\* The compare-and-swap on num_units_: it compares before it adds n.
CountUnits(t) ==
  /\ get[t].at = "count"
  /\ LET p == get[t].pool
     IN  IF pool[p].num >= RingSize
           THEN get' = [get EXCEPT ![t] = Idle] /\ UNCHANGED pool
           ELSE /\ get' = [get EXCEPT ![t].at = "cut"]
                /\ pool' = [pool EXCEPT ![p].num = @ + get[t].num]
  /\ UNCHANGED <<data, held, free, refused>>

\* A failed Get takes its units off the count.
GetFails(t, p) ==
  /\ get' = [get EXCEPT ![t] = Idle]
  /\ pool' = [pool EXCEPT ![p].num = @ - get[t].num]

\* The units, cut from the pool's arena (sizeof(T) is one) as zeroed memory.
CutUnits(t) ==
  /\ get[t].at = "cut"
  /\ LET p == get[t].pool
         n == get[t].num
         a == pool[p].units
         us == [i \in 1..n |-> Pieces(a, 1, n)[i] @@ [pool |-> p]]
         cut == [u \in Range(us) |-> IF p = RequestPool THEN Zeroed ELSE NoBytes] @@ data
     IN  IF ~AllocateFits(a, 1, n)
           THEN GetFails(t, p) /\ UNCHANGED <<data, held, free>>
           ELSE /\ pool' = [pool EXCEPT ![p].units = Allocate(a, 1, n)]
                /\ free' = free - NewBlock(a, 1, n)
                /\ IF p = RequestPool
                     THEN Give(t, p, us, cut)
                     ELSE /\ data' = cut
                          /\ get' = [get EXCEPT ![t].at = "data", ![t].units = us]
                          /\ UNCHANGED held
  /\ UNCHANGED refused

\* IOMem::GetIOUnit(s)Bulk gives new buffers their data; if there is no memory
\* for it the units are forgotten, for they cannot be freed one by one.
GiveData(t) ==
  /\ get[t].at = "data"
  /\ LET p == get[t].pool
         n == get[t].num
         us == get[t].units
         a == pool[p].mem
     IN  IF ~AllocateFits(a, p, n)
           THEN GetFails(t, p) /\ UNCHANGED <<data, held, free>>
           ELSE /\ pool' = [pool EXCEPT ![p].mem = Allocate(a, p, n)]
                /\ free' = free - NewBlock(a, p, n)
                /\ Give(t, p, us,
                        [u \in Range(us) |-> [size |-> p] @@ Pieces(a, p, n)[CHOOSE i \in 1..n : us[i] = u]]
                          @@ data)
  /\ UNCHANGED refused
-----------------------------------------------------------------------------
(***************************************************************************)
(* Buffers above the largest slab: one allocation for n buffers, freed by  *)
(* the address of the first, so they are put back together and in order.   *)
(***************************************************************************)
Direct == MaxSlab + 1
NewDirect == CHOOSE b \in 1..(Cardinality(DOMAIN data) + 1) :
               \A u \in DOMAIN data : u.pool = Direct => u.block # b

alloc_direct(t, size, n) ==
  /\ get[t] = Idle /\ t = Worker
  /\ size * n <= free
  /\ LET us == [i \in 1..n |-> [pool |-> Direct, block |-> NewDirect, at |-> (i - 1) * size]]
     IN  /\ held' = held \cup {us}
         /\ data' = [u \in Range(us) |-> [block |-> u.block, at |-> u.at, size |-> size]] @@ data
  /\ free' = free - size * n
  /\ UNCHANGED <<pool, get, refused>>

free_direct(us) ==
  /\ held' = held \ {us}
  /\ data' = [u \in DOMAIN data \ Range(us) |-> data[u]]
  /\ free' = free + Len(us) * data[us[1]].size
  /\ UNCHANGED <<pool, get, refused>>

\* IOMemMgr finds the slab of a size, or allocates directly.
GetIOUnits(t, size, n) ==
  IF get_index(size) \in Pools THEN GetsBulk(t, get_index(size), n) ELSE alloc_direct(t, size, n)

\* A handler sets the request's fields while it has it.
Use(us) ==
  /\ us[1].pool = RequestPool
  /\ data' = [data EXCEPT ![us[1]] = [result |-> FALSE, ref |-> 2, type |-> "write", io |-> "buffer"]]
  /\ UNCHANGED <<pool, held, get, free, refused>>

(***************************************************************************)
(* Put and Puts: the first k of an array of units, all or none of them.    *)
(* Units the ring has no room for are logged and forgotten.                *)
(***************************************************************************)
PutRequest(us) == [u \in DOMAIN data |->
                     IF u \in Range(us) /\ u.pool = RequestPool THEN Reset("noop") ELSE data[u]]

Puts(us, k) ==
  LET p == us[1].pool
      back == SubSeq(us, 1, k)
      rest == SubSeq(us, k + 1, Len(us))
  IN  /\ p # Direct
      /\ held' = (held \ {us}) \cup (IF rest = <<>> THEN {} ELSE {rest})
      /\ data' = PutRequest(back)
      /\ IF Len(pool[p].ring) + k <= RingSize
           THEN pool' = [pool EXCEPT ![p].ring = @ \o back] /\ UNCHANGED refused
           ELSE refused' = refused \cup Range(back) /\ UNCHANGED pool
      /\ UNCHANGED <<get, free>>

PutIOUnits(us) == us[1].pool = Direct /\ free_direct(us)

Next ==
  \/ \E t \in Users, n \in Nums :
       \/ GetsBulk(t, RequestPool, n)
       \/ \E p \in Pools : GetsBurst(t, p, n)
       \/ \E size \in Sizes : GetIOUnits(t, size, n)
  \/ \E t \in Users : CountUnits(t) \/ CutUnits(t) \/ GiveData(t)
  \/ \E us \in held : Use(us) \/ PutIOUnits(us) \/ \E k \in 1..Len(us) : Puts(us, k)

Spec == Init /\ [][Next]_vars
-----------------------------------------------------------------------------
Units == {[pool |-> p, block |-> b, at |-> a] : p \in 0..Direct, b \in 1..HugePages, a \in 0..HugePages}
Arrays(p) == {us \in held : us[1].pool = p}

TypeOK ==
  /\ \A p \in Pools : Len(pool[p].ring) <= RingSize /\ pool[p].num \in Nat
  /\ DOMAIN data \subseteq Units /\ refused \subseteq DOMAIN data
  /\ \A us \in held : Range(us) \subseteq DOMAIN data
  /\ \A t \in Users : get[t].at \in {"idle", "count", "cut", "data"}
  /\ free \in 0..HugePages

\* The places a unit is in: its ring, a caller's hands, a Get under way.
Owners(u) ==
  Cardinality({<<p, i>> \in Pools \X (1..RingSize) : i <= Len(pool[p].ring) /\ pool[p].ring[i] = u})
    + Cardinality({us \in held : u \in Range(us)})
    + Cardinality({t \in Users : get[t].at = "data" /\ u \in Range(get[t].units)})

(* No piece of memory is given to two callers: the units that can be used  *)
(* have one owner each, and the data of two of them, and the data of a     *)
(* unit and the end of its block, do not overlap (Arena::Allocate under    *)
(* concurrent Gets, a failed one between).                                 *)
Capacity(u) == IF u.pool = Direct THEN HugePages
               ELSE pool[u.pool].mem.blocks[data[u].block].capacity

MemoryDisjoint ==
  /\ \A u \in DOMAIN data : Owners(u) <= 1
  /\ LET D == {u \in DOMAIN data : u.pool # RequestPool /\ data[u] # NoBytes}
     IN  /\ \A u \in D : data[u].at + data[u].size <= Capacity(u)
         /\ \A u, v \in D : u # v /\ u.pool = v.pool /\ data[u].block = data[v].block
              => data[u].at + data[u].size <= data[v].at \/ data[v].at + data[v].size <= data[u].at

(* A pool that is at rest can serve: when no caller has a unit of it and   *)
(* no Get is under way, a unit is in the ring or the count allows a new    *)
(* one.  Units lost to a failed Get must not use up the count.             *)
PoolServes ==
  \A p \in Pools :
    Arrays(p) = {} /\ (\A t \in Users : get[t] = Idle \/ get[t].pool # p)
      => pool[p].ring # <<>> \/ pool[p].num < RingSize

(* A Put is refused only by a pool that made more units than its ring      *)
(* holds, which takes a Get of several units: the server, which takes one  *)
(* at a time, never loses one.                                             *)
RefusedOnlyAfterOvershoot ==
  \A u \in refused : pool[u.pool].num > RingSize

(* A request is handed out as Reset leaves it, whether it comes from the   *)
(* ring, from another thread's use, or from memory that was never a        *)
(* Request.                                                                *)
HandsOutFresh ==
  \A us \in held' \ held :
    us[1].pool = RequestPool /\ (\A vs \in held : Range(us) \cap Range(vs) = {})
      => \A u \in Range(us) : data'[u] = Reset("read")
RequestsFresh == [][HandsOutFresh]_vars
=============================================================================
