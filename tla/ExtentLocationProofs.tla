------------------------ MODULE ExtentLocationProofs ------------------------
(***************************************************************************)
(* Proofs about ExtentLocation, for every device geometry, every set of    *)
(* extents and every number of threads: locations never overlap; then, on  *)
(* top of that, bitmap, free counts and locations agree at every step and  *)
(* through every crash; a running server finds the free place that is      *)
(* left; and an I/O that no reclaim overlaps stays on its extent's place.  *)
(***************************************************************************)
EXTENDS ExtentLocation, WellFoundedInduction, FiniteSetTheorems, TLAPS

(* The locations the allocator can hand out for an extent.                 *)
Units == {AUnitAt(i, b, N) : i \in ChunkIds,
                             b \in 0 .. (MaxBlocksPerChunk - N)}

(* Two locations share no block.                                           *)
Sep(u, v) == \/ calcChunkIdxByOffset(u.offset) # calcChunkIdxByOffset(v.offset)
             \/ BlocksOf(u) \cap BlocksOf(v) = {}

ChunksOK(ch) == /\ ch \in [ChunkIds -> Chunk]
                /\ \A i \in ChunkIds : ch[i].num_blocks <= MaxBlocksPerChunk

-----------------------------------------------------------------------------
(* Arithmetic of offsets.                                                  *)

(* Integer division undoes q * k + r, the way offsets are composed.        *)
LEMMA DivUnique ==
  ASSUME NEW k \in Nat \ {0}, NEW q \in Nat, NEW r \in Nat, r < k
  PROVE  (q * k + r) \div k = q
<1> DEFINE x == q * k + r
           d == x \div k
           m == x % k
<1>1. q * k \in Nat
  OBVIOUS
<1>2. x \in Nat
  BY <1>1
<1>3. d \in Int /\ m \in 0 .. (k - 1) /\ x = k * d + m
  BY <1>2
<1> HIDE DEF x, d, m
<1>4. k * (q - d) = m - r
  BY <1>1, <1>3 DEF x
<1>5. q - d \in Int
  BY <1>3
<1>6. CASE q - d >= 1
  <2>1. k * (q - d) >= k
    BY <1>5, <1>6
  <2> QED
    BY <2>1, <1>4, <1>3
<1>7. CASE q - d <= -1
  <2>1. k * (q - d) <= -k
    BY <1>5, <1>7
  <2> QED
    BY <2>1, <1>4, <1>3
<1>8. CASE q - d = 0
  BY <1>8, <1>3 DEF x, d
<1> QED
  BY <1>5, <1>6, <1>7, <1>8

(* Sizes are exact multiples of the block size.                            *)
LEMMA DivExact ==
  ASSUME NEW k \in Nat \ {0}, NEW q \in Nat
  PROVE  (q * k) \div k = q
<1>1. (q * k + 0) \div k = q
  BY DivUnique
<1>2. q * k + 0 = q * k
  OBVIOUS
<1> QED
  BY <1>1, <1>2

(* A factor on the right of an inequality.                                 *)
LEMMA MulMono ==
  ASSUME NEW k \in Nat, NEW p \in Nat, NEW q \in Nat, p <= q
  PROVE  p * k <= q * k /\ p * k \in Nat /\ q * k \in Nat
<1>1. (q - p) * k >= 0
  OBVIOUS
<1>2. (q - p) * k = q * k - p * k
  OBVIOUS
<1> QED
  BY <1>1, <1>2

-----------------------------------------------------------------------------
(* Constants.                                                              *)

LEMMA NType == N \in Nat \ {0}
<1> DEFINE x == ExtentSize + BlockSize - 1
<1>1. BlockSize \in Nat \ {0} /\ ExtentSize \in Nat \ {0}
  BY AllocatorAssumption, LocationAssumption
<1>2. x \in Nat /\ x >= BlockSize
  BY <1>1
<1>3. x \div BlockSize \in Int /\ x % BlockSize \in 0 .. (BlockSize - 1)
      /\ x = BlockSize * (x \div BlockSize) + (x % BlockSize)
  BY <1>1, <1>2
<1>4. ASSUME x \div BlockSize <= 0  PROVE FALSE
  <2>1. BlockSize * (x \div BlockSize) <= 0
    BY <1>1, <1>3, <1>4
  <2> QED
    BY <2>1, <1>1, <1>2, <1>3
<1> QED
  BY <1>3, <1>4 DEF N, calcBlocksBySize

(* Every chunk of a new allocator has between 0 and MaxBlocksPerChunk      *)
(* blocks.                                                                 *)
LEMMA InitChunksOK == ChunksOK(InitChunks)
<1> DEFINE K == MaxBlocksPerChunk
           x == NumBlocks + K - 1
<1>1. K \in Nat \ {0} /\ BlockSize \in Nat \ {0} /\ Capacity \in Nat
  BY AllocatorAssumption
<1>2. NumBlocks \in Nat
  BY <1>1 DEF NumBlocks
<1>3. /\ NumChunks \in Int
      /\ x % K \in 0 .. (K - 1)
      /\ x = K * NumChunks + (x % K)
  BY <1>1, <1>2 DEF NumChunks
<1>4. ASSUME NEW i \in ChunkIds
      PROVE  BlocksOfChunk(i) \in Nat /\ BlocksOfChunk(i) <= K
  <2>1. i \in Nat /\ i + 1 <= NumChunks
    BY <1>3 DEF ChunkIds
  <2>2. (i + 1) * K <= NumChunks * K
    BY <2>1, <1>1, <1>3, MulMono
  <2>3. i * K \in Nat /\ (i + 1) * K = i * K + K
    BY <2>1, <1>1
  <2>4. i * K + K <= x
    BY <2>2, <2>3, <1>1, <1>2, <1>3
  <2>5. NumBlocks - i * K \in Nat
    BY <2>3, <2>4, <1>1, <1>2
  <2> QED
    BY <2>5, <1>1 DEF BlocksOfChunk
<1> QED
  BY <1>4 DEF ChunksOK, InitChunks, NewChunk, Chunk

-----------------------------------------------------------------------------
(* What the offsets of a unit decode to.                                   *)

LEMMA UnitDecode ==
  ASSUME NEW i \in ChunkIds, NEW b \in 0 .. (MaxBlocksPerChunk - N)
  PROVE  LET u == AUnitAt(i, b, N)
         IN  /\ u \in Units
             /\ u \in Location
             /\ calcChunkIdxByOffset(u.offset) = i
             /\ BeginOf(u) = b
             /\ EndOf(u) = b + N
<1> DEFINE K == MaxBlocksPerChunk
           u == AUnitAt(i, b, N)
<1>1. /\ K \in Nat \ {0} /\ BlockSize \in Nat \ {0}
      /\ N \in Nat \ {0} /\ i \in Nat /\ b \in Nat /\ b < K
  BY AllocatorAssumption, NType DEF ChunkIds
<1>2. i * K + b \in Nat
  BY <1>1
<1>3. u.offset = (i * K + b) * BlockSize /\ u.size = N * BlockSize
  BY DEF AUnitAt
<1>4. u.offset \div BlockSize = i * K + b /\ u.size \div BlockSize = N
  BY <1>1, <1>2, <1>3, DivExact
<1>5. (i * K + b) \div K = i
  BY <1>1, DivUnique
<1>6. calcChunkIdxByOffset(u.offset) = i
  BY <1>4, <1>5 DEF calcChunkIdxByOffset
<1>7. BeginOf(u) = b
  <2>1. i * K \in Nat
    BY <1>1
  <2> QED
    BY <1>1, <1>4, <1>6, <2>1 DEF BeginOf
<1>8. EndOf(u) = b + N
  BY <1>4, <1>7 DEF EndOf
<1>9. u \in Location
  <2>1. (i * K + b) * BlockSize \in Nat /\ N * BlockSize \in Nat
    BY <1>1, <1>2
  <2> QED
    BY <2>1 DEF AUnitAt, Location
<1> QED
  BY <1>6, <1>7, <1>8, <1>9 DEF Units

LEMMA UnitFacts ==
  ASSUME NEW u \in Units
  PROVE  /\ u \in Location
         /\ u # None
         /\ calcChunkIdxByOffset(u.offset) \in ChunkIds
         /\ BeginOf(u) \in Nat
         /\ EndOf(u) = BeginOf(u) + N
         /\ EndOf(u) <= MaxBlocksPerChunk
         /\ u = AUnitAt(calcChunkIdxByOffset(u.offset), BeginOf(u), N)
<1>1. PICK i \in ChunkIds, b \in 0 .. (MaxBlocksPerChunk - N) :
         u = AUnitAt(i, b, N)
  BY DEF Units
<1>2. /\ u \in Location /\ calcChunkIdxByOffset(u.offset) = i
      /\ BeginOf(u) = b /\ EndOf(u) = b + N
  BY <1>1, UnitDecode
<1>3. u # None
  BY <1>2, LocationAssumption DEF Location
<1>4. b \in Nat /\ b + N <= MaxBlocksPerChunk
  BY NType, AllocatorAssumption
<1> QED
  BY <1>1, <1>2, <1>3, <1>4

(* Units without a common block have no common byte.                       *)
LEMMA SepDisjoint ==
  ASSUME NEW u \in Units, NEW v \in Units, Sep(u, v)
  PROVE  Disjoint(u, v)
<1> DEFINE K == MaxBlocksPerChunk
           i == calcChunkIdxByOffset(u.offset)
           j == calcChunkIdxByOffset(v.offset)
           b == BeginOf(u)
           d == BeginOf(v)
<1>1. /\ i \in Nat /\ j \in Nat /\ b \in Nat /\ d \in Nat
      /\ b + N <= K /\ d + N <= K
      /\ K \in Nat \ {0} /\ N \in Nat \ {0} /\ BlockSize \in Nat \ {0}
  BY UnitFacts, NType, AllocatorAssumption DEF ChunkIds
<1>2. /\ u.offset = (i * K + b) * BlockSize /\ u.size = N * BlockSize
      /\ v.offset = (j * K + d) * BlockSize /\ v.size = N * BlockSize
  BY UnitFacts DEF AUnitAt
<1>9. BlocksOf(u) = b .. (b + N - 1) /\ BlocksOf(v) = d .. (d + N - 1)
  <2>1. EndOf(u) - 1 = b + N - 1 /\ EndOf(v) - 1 = d + N - 1
    BY <1>1, UnitFacts
  <2> QED
    BY <2>1 DEF BlocksOf
<1>10. i = j => BlocksOf(u) \cap BlocksOf(v) = {}
  BY DEF Sep
<1> HIDE DEF i, j, b, d
<1>3. ASSUME NEW p \in Nat, NEW q \in Nat, p + N <= q
      PROVE  p * BlockSize + N * BlockSize <= q * BlockSize
  <2>1. (p + N) * BlockSize <= q * BlockSize
    BY <1>1, <1>3, MulMono
  <2>2. (p + N) * BlockSize = p * BlockSize + N * BlockSize
    BY <1>1
  <2> QED
    BY <2>1, <2>2
<1>4. i * K + b \in Nat /\ j * K + d \in Nat
  BY <1>1
<1>5. ASSUME NEW p \in Nat, NEW q \in Nat, p < q
      PROVE  p * K + K <= q * K /\ p * K \in Nat /\ q * K \in Nat
  <2>1. (p + 1) * K <= q * K /\ q * K \in Nat
    BY <1>1, <1>5, MulMono
  <2> QED
    BY <2>1, <1>1
<1>6. CASE i < j
  <2>1. (i * K + b) + N <= j * K + d
    BY <1>1, <1>5, <1>6
  <2> QED
    BY <2>1, <1>2, <1>3, <1>4 DEF Disjoint
<1>7. CASE j < i
  <2>1. (j * K + d) + N <= i * K + b
    BY <1>1, <1>5, <1>7
  <2> QED
    BY <2>1, <1>2, <1>3, <1>4 DEF Disjoint
<1>8. CASE i = j
  <2>1. (b .. (b + N - 1)) \cap (d .. (d + N - 1)) = {}
    BY <1>8, <1>9, <1>10
  <2>2. b + N <= d \/ d + N <= b
    <3>1. b \in b .. (b + N - 1) /\ d \in d .. (d + N - 1)
      BY <1>1
    <3> QED
      BY <2>1, <3>1, <1>1
  <2>3. i * K \in Nat
    BY <1>1
  <2>4. \/ (i * K + b) + N <= j * K + d
        \/ (j * K + d) + N <= i * K + b
    BY <2>2, <2>3, <1>1, <1>8
  <2> QED
    BY <2>4, <1>2, <1>3, <1>4 DEF Disjoint
<1> QED
  BY <1>1, <1>6, <1>7, <1>8

-----------------------------------------------------------------------------
(* The allocator's operations.                                             *)

(* Chunk::Allocate takes the first place of its search.                    *)
LEMMA PlaceFirst ==
  ASSUME NEW c \in Chunk, CanAllocate(c, N), c.num_blocks <= MaxBlocksPerChunk
  PROVE  /\ Place(c, N) \in Places(c, N)
         /\ \A d \in Places(c, N) : Place(c, N) <= d
<1> DEFINE P == Places(c, N)
           R == OpToRel(<, Nat)
<1>1. N \in Nat \ {0} /\ MaxBlocksPerChunk \in Nat
  BY NType, AllocatorAssumption
<1>2. P # {} /\ P \subseteq Nat
  BY <1>1 DEF CanAllocate, Places, Chunk
<1>3. \E x \in P : \A y \in P : ~ (<<y, x>> \in R)
  <2>1. IsWellFoundedOn(R, Nat)
    BY NatLessThanWellFounded
  <2> HIDE DEF R, P
  <2> QED
    BY <2>1, <1>2, WFMin
<1>4. PICK x \in P : \A y \in P : ~ (<<y, x>> \in R)
  BY <1>3
<1>5. \A y \in P : x <= y
  <2> SUFFICES ASSUME NEW y \in P  PROVE x <= y
    OBVIOUS
  <2>1. x \in Nat /\ y \in Nat
    BY <1>2
  <2>2. ~ (y < x)
    BY <1>4, <2>1 DEF OpToRel
  <2> QED
    BY <2>1, <2>2
<1> QED
  BY <1>5 DEF Place

(* The search of Chunk::Allocate ends at a place that fits and is clear.   *)
LEMMA PlaceFits ==
  ASSUME NEW c \in Chunk, CanAllocate(c, N), c.num_blocks <= MaxBlocksPerChunk
  PROVE  /\ Place(c, N) \in 0 .. (MaxBlocksPerChunk - N)
         /\ (Place(c, N) .. (Place(c, N) + N - 1)) \cap c.data = {}
<1>1. N \in Nat \ {0} /\ MaxBlocksPerChunk \in Nat
  BY NType, AllocatorAssumption
<1>2. Places(c, N) \subseteq 0 .. (MaxBlocksPerChunk - N)
  BY <1>1 DEF Places, Chunk
<1> QED
  BY <1>2, PlaceFirst DEF Places

LEMMA SetBlockFacts ==
  ASSUME NEW c \in Chunk, NEW b \in Nat, NEW e \in Nat
  PROVE  /\ setBlock(c, b, e) \in Chunk
         /\ setBlock(c, b, e).num_blocks = c.num_blocks
         /\ setBlock(c, b, e).data = c.data \cup (b .. (e - 1))
<1>1. c.data \cup (b .. (e - 1)) \in SUBSET Nat
  BY DEF Chunk
<1>2. c.num_free_blocks - (e - b) \in Int
  BY DEF Chunk
<1> QED
  BY <1>1, <1>2 DEF setBlock, Chunk

LEMMA UnsetBlockFacts ==
  ASSUME NEW c \in Chunk, NEW b \in Nat, NEW e \in Nat
  PROVE  /\ unsetBlock(c, b, e) \in Chunk
         /\ unsetBlock(c, b, e).num_blocks = c.num_blocks
         /\ unsetBlock(c, b, e).data = c.data \ (b .. (e - 1))
<1>1. c.data \ (b .. (e - 1)) \in SUBSET Nat
  BY DEF Chunk
<1>2. c.num_free_blocks + (e - b) \in Int
  BY DEF Chunk
<1> QED
  BY <1>1, <1>2 DEF unsetBlock, Chunk

(* Allocate gives a unit that nobody had, sets its bits, and clears none.  *)
LEMMA AllocateFresh ==
  ASSUME NEW ch, ChunksOK(ch), NEW i \in ChunkIds, CanAllocate(ch[i], N)
  PROVE  LET u   == Allocated(ch, i, N)
             new == Allocate(ch, i, N)
         IN  /\ u \in Units
             /\ ChunksOK(new)
             /\ IsSet(new, u)
             /\ \A v \in Units : IsSet(ch, v) => IsSet(new, v) /\ Sep(u, v)
<1> DEFINE u   == Allocated(ch, i, N)
           new == Allocate(ch, i, N)
           b   == Place(ch[i], N)
<1>1. ch[i] \in Chunk /\ ch[i].num_blocks <= MaxBlocksPerChunk
  BY DEF ChunksOK
<1>2. b \in 0 .. (MaxBlocksPerChunk - N) /\ (b .. (b + N - 1)) \cap ch[i].data = {}
  BY <1>1, PlaceFits
<1>3. u = AUnitAt(i, b, N)
  BY DEF Allocated
<1>4. /\ u \in Units
      /\ calcChunkIdxByOffset(u.offset) = i
      /\ BlocksOf(u) = b .. (b + N - 1)
  <2>1. u \in Units /\ calcChunkIdxByOffset(u.offset) = i
        /\ BeginOf(u) = b /\ EndOf(u) = b + N
    BY <1>2, <1>3, UnitDecode
  <2>2. EndOf(u) - 1 = b + N - 1
    BY <2>1, <1>2, NType, AllocatorAssumption
  <2> QED
    BY <2>1, <2>2 DEF BlocksOf
<1>5. /\ new = [ch EXCEPT ![i] = setBlock(ch[i], b, b + N)]
      /\ setBlock(ch[i], b, b + N) \in Chunk
      /\ setBlock(ch[i], b, b + N).num_blocks = ch[i].num_blocks
      /\ setBlock(ch[i], b, b + N).data = ch[i].data \cup (b .. (b + N - 1))
  <2>1. N \in Nat /\ b \in Nat
    BY NType, <1>2, AllocatorAssumption
  <2>2. new = [ch EXCEPT ![i] = setBlock(ch[i], b, b + N)]
    BY DEF Allocate, ChunksOK
  <2>3. /\ (b + N) - b \in Int /\ b + N \in Nat
        /\ b .. ((b + N) - 1) = b .. (b + N - 1)
        /\ b .. (b + N - 1) \subseteq Nat
    BY <2>1
  <2> HIDE DEF b
  <2>4. /\ setBlock(ch[i], b, b + N) \in Chunk
        /\ setBlock(ch[i], b, b + N).num_blocks = ch[i].num_blocks
        /\ setBlock(ch[i], b, b + N).data = ch[i].data \cup (b .. ((b + N) - 1))
    BY <2>1, <2>3, <1>1, SetBlockFacts
  <2> QED
    BY <2>2, <2>3, <2>4
<1> HIDE DEF u, new, b
<1>6. ChunksOK(new)
  BY <1>1, <1>5 DEF ChunksOK
<1>7. \A j \in ChunkIds : ch[j].data \subseteq new[j].data
  BY <1>5 DEF ChunksOK
<1>8. IsSet(new, u)
  BY <1>4, <1>5 DEF IsSet, ChunksOK
<1>9. ASSUME NEW v \in Units, IsSet(ch, v)
      PROVE  IsSet(new, v) /\ Sep(u, v)
  <2>1. calcChunkIdxByOffset(v.offset) \in ChunkIds
    BY UnitFacts
  <2>2. IsSet(new, v)
    BY <2>1, <1>7, <1>9 DEF IsSet
  <2>3. Sep(u, v)
    BY <1>2, <1>4, <1>9 DEF IsSet, Sep
  <2> QED
    BY <2>2, <2>3
<1> QED
  BY <1>4, <1>6, <1>8, <1>9 DEF u, new

(* Free clears no bit of a unit that is apart from the one given back.     *)
LEMMA FreeKeepsOthers ==
  ASSUME NEW ch, ChunksOK(ch), NEW u \in Units
  PROVE  LET new == Free(ch, u)
         IN  /\ ChunksOK(new)
             /\ \A v \in Units : IsSet(ch, v) /\ Sep(u, v) => IsSet(new, v)
<1> DEFINE new == Free(ch, u)
           i   == calcChunkIdxByOffset(u.offset)
           b   == BeginOf(u)
           e   == EndOf(u)
<1>1. i \in ChunkIds /\ b \in Nat /\ e \in Nat
  BY UnitFacts, NType
<1>2. ch[i] \in Chunk
  BY <1>1 DEF ChunksOK
<1>3. /\ new = [ch EXCEPT ![i] = unsetBlock(ch[i], b, e)]
      /\ unsetBlock(ch[i], b, e) \in Chunk
      /\ unsetBlock(ch[i], b, e).num_blocks = ch[i].num_blocks
      /\ unsetBlock(ch[i], b, e).data = ch[i].data \ BlocksOf(u)
  <2>1. new = [ch EXCEPT ![i] = unsetBlock(ch[i], b, e)]
    BY <1>1 DEF Free, ChunksOK
  <2> QED
    BY <2>1, <1>1, <1>2, UnsetBlockFacts DEF BlocksOf
<1> HIDE DEF new
<1>4. ChunksOK(new)
  BY <1>1, <1>3 DEF ChunksOK
<1>5. ASSUME NEW v \in Units, IsSet(ch, v), Sep(u, v)
      PROVE  IsSet(new, v)
  <2>1. calcChunkIdxByOffset(v.offset) \in ChunkIds
    BY UnitFacts
  <2> QED
    BY <2>1, <1>1, <1>3, <1>5 DEF IsSet, Sep, ChunksOK
<1> QED
  BY <1>4, <1>5 DEF new

(* Mark sets the bits of a unit and clears none.                           *)
LEMMA MarkSets ==
  ASSUME NEW ch, ChunksOK(ch), NEW u \in Units
  PROVE  LET new == Mark(ch, u)
         IN  /\ ChunksOK(new)
             /\ IsSet(new, u)
             /\ \A v \in Units : IsSet(ch, v) => IsSet(new, v)
<1> DEFINE new == Mark(ch, u)
           i   == calcChunkIdxByOffset(u.offset)
           b   == BeginOf(u)
           e   == EndOf(u)
<1>1. i \in ChunkIds /\ b \in Nat /\ e \in Nat
  BY UnitFacts, NType
<1>2. ch[i] \in Chunk
  BY <1>1 DEF ChunksOK
<1>3. /\ new = [ch EXCEPT ![i] = setBlock(ch[i], b, e)]
      /\ setBlock(ch[i], b, e) \in Chunk
      /\ setBlock(ch[i], b, e).num_blocks = ch[i].num_blocks
      /\ setBlock(ch[i], b, e).data = ch[i].data \cup BlocksOf(u)
  <2>1. new = [ch EXCEPT ![i] = setBlock(ch[i], b, e)]
    BY <1>1 DEF Mark, ChunksOK
  <2> QED
    BY <2>1, <1>1, <1>2, SetBlockFacts DEF BlocksOf
<1> HIDE DEF new
<1>4. ChunksOK(new)
  BY <1>1, <1>3 DEF ChunksOK
<1>5. ASSUME NEW v \in Units, IsSet(ch, v)
      PROVE  IsSet(new, v)
  <2>1. calcChunkIdxByOffset(v.offset) \in ChunkIds
    BY UnitFacts
  <2> QED
    BY <2>1, <1>1, <1>3, <1>5 DEF IsSet, ChunksOK
<1>6. IsSet(new, u)
  BY <1>1, <1>3 DEF IsSet, ChunksOK
<1> QED
  BY <1>4, <1>5, <1>6 DEF new

-----------------------------------------------------------------------------
(* The inductive invariant.                                                *)

(* Where a thread is tells what it knows: it holds the mutex of its extent *)
(* from the second look on, and under the mutex map and RocksDB are as the *)
(* steps behind it left them.                                              *)
ThreadOK(t) ==
  /\ pc[t] # "idle" => ext[t] \in Extents /\ status = "up"
  /\ pc[t] \in LockedPCs => extent_lock[ext[t]] = t
  /\ pc[t] \in {"scan", "persist", "undo", "rfree"} =>
       extent_loc_map[ext[t]] = None /\ rocks[ext[t]] = None
  /\ pc[t] = "add" => extent_loc_map[ext[t]] = None /\ rocks[ext[t]] = loc[t]
  /\ pc[t] = "rdelete" => extent_loc_map[ext[t]] = loc[t] /\ rocks[ext[t]] = loc[t]
  /\ pc[t] = "rremove" => extent_loc_map[ext[t]] = loc[t] /\ rocks[ext[t]] = None
  /\ pc[t] \in HolderPCs \cup {"rdelete", "rremove"} => loc[t] \in Units

(* Map and RocksDB differ only for an extent some thread is between the    *)
(* two of, or one that the recovery scan has not reached.                  *)
StoreOK(e) ==
  /\ status = "up" => \/ extent_loc_map[e] = rocks[e]
                      \/ \E t \in Threads : pc[t] \in {"add", "rremove"} /\ ext[t] = e
  /\ status = "loading" => IF e \in todo
                             THEN extent_loc_map[e] = None /\ rocks[e] # None
                             ELSE extent_loc_map[e] = rocks[e]

UnitsOK == \A e \in Extents : /\ extent_loc_map[e] \in Units \cup {None}
                              /\ rocks[e] \in Units \cup {None}

(* Whatever is held has its bits set ...                                   *)
SetOK ==
  /\ \A e \in Extents : extent_loc_map[e] # None => IsSet(chunks, extent_loc_map[e])
  /\ \A t \in Threads : pc[t] \in HolderPCs => IsSet(chunks, loc[t])

(* ... and shares no block with anything else that is held or stored.      *)
SepOK ==
  /\ \A e, f \in Extents :
       e # f /\ extent_loc_map[e] # None /\ extent_loc_map[f] # None
         => Sep(extent_loc_map[e], extent_loc_map[f])
  /\ \A e \in Extents, t \in Threads :
       extent_loc_map[e] # None /\ pc[t] \in HolderPCs
         => Sep(extent_loc_map[e], loc[t])
  /\ \A s, t \in Threads :
       s # t /\ pc[s] \in HolderPCs /\ pc[t] \in HolderPCs => Sep(loc[s], loc[t])
  /\ \A e, f \in Extents :
       e # f /\ rocks[e] # None /\ rocks[f] # None => Sep(rocks[e], rocks[f])

Inv == /\ TypeOK
       /\ ChunksOK(chunks)
       /\ \A t \in Threads : ThreadOK(t)
       /\ \A e \in Extents : StoreOK(e)
       /\ UnitsOK
       /\ SetOK
       /\ SepOK

-----------------------------------------------------------------------------
(* Every step preserves it.                                                *)

LEMMA NoneFresh ==
  /\ None \notin Extents /\ None \notin Threads /\ None \notin Units
  /\ None \notin Location
BY LocationAssumption, UnitFacts DEF Location

LEMMA ChunkIdsFacts ==
  /\ NumChunks \in Nat \ {0}
  /\ 0 \in ChunkIds
  /\ \A i \in ChunkIds : (i + 1) % NumChunks \in ChunkIds
<1> DEFINE K == MaxBlocksPerChunk
           x == NumBlocks + K - 1
<1>1. K \in Nat \ {0} /\ BlockSize \in Nat \ {0} /\ Capacity \in Nat
      /\ BlockSize <= Capacity
  BY AllocatorAssumption
<1>2. NumBlocks \in Nat /\ NumBlocks >= 1
  <2>1. /\ Capacity \div BlockSize \in Int
        /\ Capacity % BlockSize \in 0 .. (BlockSize - 1)
        /\ Capacity = BlockSize * (Capacity \div BlockSize) + (Capacity % BlockSize)
    BY <1>1
  <2>2. ASSUME Capacity \div BlockSize <= 0  PROVE FALSE
    <3>1. BlockSize * (Capacity \div BlockSize) <= 0
      BY <2>1, <2>2, <1>1
    <3> QED
      BY <3>1, <2>1, <1>1
  <2> QED
    BY <2>1, <2>2 DEF NumBlocks
<1>3. /\ NumChunks \in Int
      /\ x % K \in 0 .. (K - 1)
      /\ x = K * NumChunks + (x % K)
  BY <1>1, <1>2 DEF NumChunks
<1>4. ASSUME NumChunks <= 0  PROVE FALSE
  <2>1. K * NumChunks <= 0
    BY <1>1, <1>3, <1>4
  <2> QED
    BY <2>1, <1>1, <1>2, <1>3
<1>5. NumChunks \in Nat \ {0}
  BY <1>3, <1>4
<1> QED
  BY <1>5 DEF ChunkIds

LEMMA SepSym == \A u, v : Sep(u, v) => Sep(v, u)
BY DEF Sep

(* A step that leaves bitmap, map and RocksDB alone and makes no thread a  *)
(* holder keeps the space invariants.                                      *)
LEMMA QuietSpace ==
  ASSUME UnitsOK, SetOK, SepOK, UNCHANGED shared,
         \A s \in Threads : pc'[s] \in HolderPCs =>
                               pc[s] \in HolderPCs /\ loc'[s] = loc[s]
  PROVE  UnitsOK' /\ SetOK' /\ SepOK'
<1> USE DEF shared
<1>1. UnitsOK'
  BY DEF UnitsOK
<1>2. SetOK'
  BY DEF SetOK, IsSet
<1>3. SepOK'
  BY DEF SepOK
<1> QED
  BY <1>1, <1>2, <1>3

(* An extent's mutex has one owner.                                        *)
LEMMA Exclusive ==
  ASSUME Inv, NEW s \in Threads, NEW t \in Threads, s # t,
         pc[s] \in LockedPCs, pc[t] \in LockedPCs
  PROVE  ext[s] # ext[t]
BY DEF Inv, ThreadOK

(* A thread that has just taken the mutex finds map and RocksDB equal.     *)
LEMMA LockedAgree ==
  ASSUME Inv, NEW t \in Threads, pc[t] \in {"recheck", "rrecheck"}
  PROVE  ext[t] \in Extents /\ extent_loc_map[ext[t]] = rocks[ext[t]]
<1>1. ext[t] \in Extents /\ status = "up" /\ pc[t] \in LockedPCs
  BY DEF Inv, ThreadOK, LockedPCs
<1>2. \A s \in Threads : pc[s] \in {"add", "rremove"} => ext[s] # ext[t]
  BY <1>1, Exclusive DEF LockedPCs
<1> QED
  BY <1>1, <1>2 DEF Inv, StoreOK

LEMMA QueryInv ==
  ASSUME Inv, NEW t \in Threads, NEW e \in Extents, NEW a \in BOOLEAN, Query(t, e, a)
  PROVE  Inv'
<1> USE DEF Inv
<1>1. TypeOK'
  BY NoneFresh, ChunkIdsFacts DEF TypeOK, Query, Begin, Return, At, LockedPCs, HolderPCs, QueryPCs, ReclaimPCs, shared, scan, server
<1>2. ChunksOK(chunks)'
  BY DEF Query, Begin, Return, At, LockedPCs, HolderPCs, QueryPCs, ReclaimPCs, shared, scan, server
<1>3. \A s \in Threads : ThreadOK(s)'
  BY NoneFresh DEF TypeOK, ThreadOK, Query, Begin, Return, At, LockedPCs, HolderPCs, QueryPCs, ReclaimPCs, shared, scan, server
<1>4. \A f \in Extents : StoreOK(f)'
  BY NoneFresh DEF TypeOK, ThreadOK, StoreOK, Query, Begin, Return, At, LockedPCs, HolderPCs, QueryPCs, ReclaimPCs, shared, scan, server
<1>5. UnitsOK' /\ SetOK' /\ SepOK'
  <2>1. \A s \in Threads : pc'[s] \in HolderPCs => pc[s] \in HolderPCs /\ loc'[s] = loc[s]
    BY DEF TypeOK, Query, Begin, Return, At, LockedPCs, HolderPCs, QueryPCs, ReclaimPCs, shared, scan, server
  <2> QED
    BY <2>1, QuietSpace DEF Query, Begin, Return, At, LockedPCs, HolderPCs, QueryPCs, ReclaimPCs, shared, scan, server
<1> QED
  BY <1>1, <1>2, <1>3, <1>4, <1>5

LEMMA LockExtentInv ==
  ASSUME Inv, NEW t \in Threads, LockExtent(t)
  PROVE  Inv'
<1> USE DEF Inv
<1>1. TypeOK'
  BY NoneFresh DEF TypeOK, LockExtent, Acquire, Goto, At, LockedPCs, HolderPCs, QueryPCs, ReclaimPCs, shared, scan, server
<1>2. ChunksOK(chunks)'
  BY DEF LockExtent, Acquire, Goto, At, LockedPCs, HolderPCs, QueryPCs, ReclaimPCs, shared, scan, server
<1>3. \A s \in Threads : ThreadOK(s)'
  BY NoneFresh DEF TypeOK, ThreadOK, LockExtent, Acquire, Goto, At, LockedPCs, HolderPCs, QueryPCs, ReclaimPCs, shared, scan, server
<1>4. \A f \in Extents : StoreOK(f)'
  BY NoneFresh DEF TypeOK, ThreadOK, StoreOK, LockExtent, Acquire, Goto, At, LockedPCs, HolderPCs, QueryPCs, ReclaimPCs, shared, scan, server
<1>5. UnitsOK' /\ SetOK' /\ SepOK'
  <2>1. \A s \in Threads : pc'[s] \in HolderPCs => pc[s] \in HolderPCs /\ loc'[s] = loc[s]
    BY DEF TypeOK, LockExtent, Acquire, Goto, At, LockedPCs, HolderPCs, QueryPCs, ReclaimPCs, shared, scan, server
  <2> QED
    BY <2>1, QuietSpace DEF LockExtent, Acquire, Goto, At, LockedPCs, HolderPCs, QueryPCs, ReclaimPCs, shared, scan, server
<1> QED
  BY <1>1, <1>2, <1>3, <1>4, <1>5

LEMMA RecheckInv ==
  ASSUME Inv, NEW t \in Threads, Recheck(t)
  PROVE  Inv'
<1> USE DEF Inv
<1>0. /\ pc[t] \in LockedPCs /\ ext[t] \in Extents
      /\ \A s \in Threads : s # t /\ pc[s] \in LockedPCs => ext[s] # ext[t]
  BY Exclusive DEF ThreadOK, Recheck, At, LockedPCs
<1>1. TypeOK'
  <2>1. extent_lock' \in [Extents -> Threads \cup {None}]
    BY <1>0 DEF TypeOK, Recheck, Release, Goto, At, LockedPCs, HolderPCs, QueryPCs, ReclaimPCs, shared, scan, server
  <2>2. /\ chunk' \in [Threads -> ChunkIds] /\ left' \in [Threads -> 0 .. NumChunks]
    BY ChunkIdsFacts DEF TypeOK, Recheck, Release, Goto, At, LockedPCs, HolderPCs, QueryPCs, ReclaimPCs, shared, scan, server
  <2>3. /\ pc' \in [Threads -> QueryPCs \cup ReclaimPCs \cup {"idle"}]
        /\ ext' \in [Threads -> Extents \cup {None}]
        /\ loc' \in [Threads -> Location \cup {None}]
        /\ ret' \in [Threads -> {"none", "ok", "not_found", "no_space", "store_error"}]
    BY <1>0 DEF TypeOK, Recheck, Release, Goto, At, LockedPCs, HolderPCs, QueryPCs, ReclaimPCs, shared, scan, server
  <2>4. UNCHANGED <<chunks, rocks, extent_loc_map, status, todo, crossed>>
    BY DEF Recheck, shared, server
  <2> QED
    BY <2>1, <2>2, <2>3, <2>4 DEF TypeOK
<1>2. ChunksOK(chunks)'
  BY DEF Recheck, Release, Goto, At, LockedPCs, HolderPCs, QueryPCs, ReclaimPCs, shared, scan, server
<1>3. \A s \in Threads : ThreadOK(s)'
  <2>1. ASSUME NEW s \in Threads, s # t  PROVE ThreadOK(s)'
    BY <1>0, <2>1 DEF TypeOK, ThreadOK, Recheck, Release, Goto, At, LockedPCs, HolderPCs, QueryPCs, ReclaimPCs, shared, scan, server
  <2>2. ThreadOK(t)'
    BY <1>0, LockedAgree, NoneFresh DEF TypeOK, ThreadOK, UnitsOK, Recheck, Release, Goto, At, LockedPCs, HolderPCs, QueryPCs, ReclaimPCs, shared, scan, server
  <2> QED
    BY <2>1, <2>2
<1>4. \A f \in Extents : StoreOK(f)'
  BY NoneFresh DEF TypeOK, ThreadOK, StoreOK, Recheck, Release, Goto, At, LockedPCs, HolderPCs, QueryPCs, ReclaimPCs, shared, scan, server
<1>5. UnitsOK' /\ SetOK' /\ SepOK'
  <2>1. \A s \in Threads : pc'[s] \in HolderPCs => pc[s] \in HolderPCs /\ loc'[s] = loc[s]
    BY DEF TypeOK, Recheck, Release, Goto, At, LockedPCs, HolderPCs, QueryPCs, ReclaimPCs, shared, scan, server
  <2> QED
    BY <2>1, QuietSpace DEF Recheck, Release, Goto, At, LockedPCs, HolderPCs, QueryPCs, ReclaimPCs, shared, scan, server
<1> QED
  BY <1>1, <1>2, <1>3, <1>4, <1>5

LEMMA SkipChunkInv ==
  ASSUME Inv, NEW t \in Threads, SkipChunk(t)
  PROVE  Inv'
<1> USE DEF Inv
<1>1. TypeOK'
  BY NoneFresh, ChunkIdsFacts DEF TypeOK, SkipChunk, Release, Return, At, LockedPCs, HolderPCs, QueryPCs, ReclaimPCs, shared, scan, server
<1>2. ChunksOK(chunks)'
  BY DEF SkipChunk, Release, Return, At, LockedPCs, HolderPCs, QueryPCs, ReclaimPCs, shared, scan, server
<1>3. \A s \in Threads : ThreadOK(s)'
  BY NoneFresh DEF TypeOK, ThreadOK, SkipChunk, Release, Return, At, LockedPCs, HolderPCs, QueryPCs, ReclaimPCs, shared, scan, server
<1>4. \A f \in Extents : StoreOK(f)'
  BY NoneFresh DEF TypeOK, ThreadOK, StoreOK, SkipChunk, Release, Return, At, LockedPCs, HolderPCs, QueryPCs, ReclaimPCs, shared, scan, server
<1>5. UnitsOK' /\ SetOK' /\ SepOK'
  <2>1. \A s \in Threads : pc'[s] \in HolderPCs => pc[s] \in HolderPCs /\ loc'[s] = loc[s]
    BY DEF TypeOK, SkipChunk, Release, Return, At, LockedPCs, HolderPCs, QueryPCs, ReclaimPCs, shared, scan, server
  <2> QED
    BY <2>1, QuietSpace DEF SkipChunk, Release, Return, At, LockedPCs, HolderPCs, QueryPCs, ReclaimPCs, shared, scan, server
<1> QED
  BY <1>1, <1>2, <1>3, <1>4, <1>5

LEMMA PersistFailsInv ==
  ASSUME Inv, NEW t \in Threads, PersistFails(t)
  PROVE  Inv'
<1> USE DEF Inv
<1>1. TypeOK'
  BY NoneFresh DEF TypeOK, PersistFails, Goto, At, LockedPCs, HolderPCs, QueryPCs, ReclaimPCs, shared, scan, server
<1>2. ChunksOK(chunks)'
  BY DEF PersistFails, Goto, At, LockedPCs, HolderPCs, QueryPCs, ReclaimPCs, shared, scan, server
<1>3. \A s \in Threads : ThreadOK(s)'
  BY NoneFresh DEF TypeOK, ThreadOK, PersistFails, Goto, At, LockedPCs, HolderPCs, QueryPCs, ReclaimPCs, shared, scan, server
<1>4. \A f \in Extents : StoreOK(f)'
  BY NoneFresh DEF TypeOK, ThreadOK, StoreOK, PersistFails, Goto, At, LockedPCs, HolderPCs, QueryPCs, ReclaimPCs, shared, scan, server
<1>5. UnitsOK' /\ SetOK' /\ SepOK'
  <2>1. \A s \in Threads : pc'[s] \in HolderPCs => pc[s] \in HolderPCs /\ loc'[s] = loc[s]
    BY DEF TypeOK, PersistFails, Goto, At, LockedPCs, HolderPCs, QueryPCs, ReclaimPCs, shared, scan, server
  <2> QED
    BY <2>1, QuietSpace DEF PersistFails, Goto, At, LockedPCs, HolderPCs, QueryPCs, ReclaimPCs, shared, scan, server
<1> QED
  BY <1>1, <1>2, <1>3, <1>4, <1>5

LEMMA IoDoneInv ==
  ASSUME Inv, NEW t \in Threads, IoDone(t)
  PROVE  Inv'
<1> USE DEF Inv
<1>1. TypeOK'
  BY NoneFresh, ChunkIdsFacts DEF TypeOK, IoDone, Return, At, LockedPCs, HolderPCs, QueryPCs, ReclaimPCs, shared, scan, server
<1>2. ChunksOK(chunks)'
  BY DEF IoDone, Return, At, LockedPCs, HolderPCs, QueryPCs, ReclaimPCs, shared, scan, server
<1>3. \A s \in Threads : ThreadOK(s)'
  BY NoneFresh DEF TypeOK, ThreadOK, IoDone, Return, At, LockedPCs, HolderPCs, QueryPCs, ReclaimPCs, shared, scan, server
<1>4. \A f \in Extents : StoreOK(f)'
  BY NoneFresh DEF TypeOK, ThreadOK, StoreOK, IoDone, Return, At, LockedPCs, HolderPCs, QueryPCs, ReclaimPCs, shared, scan, server
<1>5. UnitsOK' /\ SetOK' /\ SepOK'
  <2>1. \A s \in Threads : pc'[s] \in HolderPCs => pc[s] \in HolderPCs /\ loc'[s] = loc[s]
    BY DEF TypeOK, IoDone, Return, At, LockedPCs, HolderPCs, QueryPCs, ReclaimPCs, shared, scan, server
  <2> QED
    BY <2>1, QuietSpace DEF IoDone, Return, At, LockedPCs, HolderPCs, QueryPCs, ReclaimPCs, shared, scan, server
<1> QED
  BY <1>1, <1>2, <1>3, <1>4, <1>5

LEMMA ReclaimInv ==
  ASSUME Inv, NEW t \in Threads, NEW e \in Extents, Reclaim(t, e)
  PROVE  Inv'
<1> USE DEF Inv
<1>1. TypeOK'
  BY NoneFresh, ChunkIdsFacts DEF TypeOK, Reclaim, Begin, Return, At, LockedPCs, HolderPCs, QueryPCs, ReclaimPCs, shared, scan, server
<1>2. ChunksOK(chunks)'
  BY DEF Reclaim, Begin, Return, At, LockedPCs, HolderPCs, QueryPCs, ReclaimPCs, shared, scan, server
<1>3. \A s \in Threads : ThreadOK(s)'
  BY NoneFresh DEF TypeOK, ThreadOK, Reclaim, Begin, Return, At, LockedPCs, HolderPCs, QueryPCs, ReclaimPCs, shared, scan, server
<1>4. \A f \in Extents : StoreOK(f)'
  BY NoneFresh DEF TypeOK, ThreadOK, StoreOK, Reclaim, Begin, Return, At, LockedPCs, HolderPCs, QueryPCs, ReclaimPCs, shared, scan, server
<1>5. UnitsOK' /\ SetOK' /\ SepOK'
  <2>1. \A s \in Threads : pc'[s] \in HolderPCs => pc[s] \in HolderPCs /\ loc'[s] = loc[s]
    BY DEF TypeOK, Reclaim, Begin, Return, At, LockedPCs, HolderPCs, QueryPCs, ReclaimPCs, shared, scan, server
  <2> QED
    BY <2>1, QuietSpace DEF Reclaim, Begin, Return, At, LockedPCs, HolderPCs, QueryPCs, ReclaimPCs, shared, scan, server
<1> QED
  BY <1>1, <1>2, <1>3, <1>4, <1>5

LEMMA ReclaimLockInv ==
  ASSUME Inv, NEW t \in Threads, ReclaimLock(t)
  PROVE  Inv'
<1> USE DEF Inv
<1>1. TypeOK'
  BY NoneFresh DEF TypeOK, ReclaimLock, Acquire, Goto, At, LockedPCs, HolderPCs, QueryPCs, ReclaimPCs, shared, scan, server
<1>2. ChunksOK(chunks)'
  BY DEF ReclaimLock, Acquire, Goto, At, LockedPCs, HolderPCs, QueryPCs, ReclaimPCs, shared, scan, server
<1>3. \A s \in Threads : ThreadOK(s)'
  BY NoneFresh DEF TypeOK, ThreadOK, ReclaimLock, Acquire, Goto, At, LockedPCs, HolderPCs, QueryPCs, ReclaimPCs, shared, scan, server
<1>4. \A f \in Extents : StoreOK(f)'
  BY NoneFresh DEF TypeOK, ThreadOK, StoreOK, ReclaimLock, Acquire, Goto, At, LockedPCs, HolderPCs, QueryPCs, ReclaimPCs, shared, scan, server
<1>5. UnitsOK' /\ SetOK' /\ SepOK'
  <2>1. \A s \in Threads : pc'[s] \in HolderPCs => pc[s] \in HolderPCs /\ loc'[s] = loc[s]
    BY DEF TypeOK, ReclaimLock, Acquire, Goto, At, LockedPCs, HolderPCs, QueryPCs, ReclaimPCs, shared, scan, server
  <2> QED
    BY <2>1, QuietSpace DEF ReclaimLock, Acquire, Goto, At, LockedPCs, HolderPCs, QueryPCs, ReclaimPCs, shared, scan, server
<1> QED
  BY <1>1, <1>2, <1>3, <1>4, <1>5

LEMMA ReclaimRecheckInv ==
  ASSUME Inv, NEW t \in Threads, ReclaimRecheck(t)
  PROVE  Inv'
<1> USE DEF Inv
<1>0. /\ pc[t] \in LockedPCs /\ ext[t] \in Extents
      /\ \A s \in Threads : s # t /\ pc[s] \in LockedPCs => ext[s] # ext[t]
  BY Exclusive DEF ThreadOK, ReclaimRecheck, At, LockedPCs
<1>1. TypeOK'
  <2>1. extent_lock' \in [Extents -> Threads \cup {None}]
    BY <1>0 DEF TypeOK, ReclaimRecheck, Release, Return, Goto, At, LockedPCs, HolderPCs, QueryPCs, ReclaimPCs, shared, scan, server
  <2>2. /\ chunk' \in [Threads -> ChunkIds] /\ left' \in [Threads -> 0 .. NumChunks]
    BY ChunkIdsFacts DEF TypeOK, ReclaimRecheck, Release, Return, Goto, At, LockedPCs, HolderPCs, QueryPCs, ReclaimPCs, shared, scan, server
  <2>3. /\ pc' \in [Threads -> QueryPCs \cup ReclaimPCs \cup {"idle"}]
        /\ ext' \in [Threads -> Extents \cup {None}]
        /\ loc' \in [Threads -> Location \cup {None}]
        /\ ret' \in [Threads -> {"none", "ok", "not_found", "no_space", "store_error"}]
    BY <1>0 DEF TypeOK, ReclaimRecheck, Release, Return, Goto, At, LockedPCs, HolderPCs, QueryPCs, ReclaimPCs, shared, scan, server
  <2>4. UNCHANGED <<chunks, rocks, extent_loc_map, status, todo, crossed>>
    BY DEF ReclaimRecheck, shared, server
  <2> QED
    BY <2>1, <2>2, <2>3, <2>4 DEF TypeOK
<1>2. ChunksOK(chunks)'
  BY DEF ReclaimRecheck, Release, Return, Goto, At, LockedPCs, HolderPCs, QueryPCs, ReclaimPCs, shared, scan, server
<1>3. \A s \in Threads : ThreadOK(s)'
  <2>1. ASSUME NEW s \in Threads, s # t  PROVE ThreadOK(s)'
    BY <1>0, <2>1 DEF TypeOK, ThreadOK, ReclaimRecheck, Release, Return, Goto, At, LockedPCs, HolderPCs, QueryPCs, ReclaimPCs, shared, scan, server
  <2>2. ThreadOK(t)'
    BY <1>0, LockedAgree, NoneFresh DEF TypeOK, ThreadOK, UnitsOK, ReclaimRecheck, Release, Return, Goto, At, LockedPCs, HolderPCs, QueryPCs, ReclaimPCs, shared, scan, server
  <2> QED
    BY <2>1, <2>2
<1>4. \A f \in Extents : StoreOK(f)'
  BY NoneFresh DEF TypeOK, ThreadOK, StoreOK, ReclaimRecheck, Release, Return, Goto, At, LockedPCs, HolderPCs, QueryPCs, ReclaimPCs, shared, scan, server
<1>5. UnitsOK' /\ SetOK' /\ SepOK'
  <2>1. \A s \in Threads : pc'[s] \in HolderPCs => pc[s] \in HolderPCs /\ loc'[s] = loc[s]
    BY DEF TypeOK, ReclaimRecheck, Release, Return, Goto, At, LockedPCs, HolderPCs, QueryPCs, ReclaimPCs, shared, scan, server
  <2> QED
    BY <2>1, QuietSpace DEF ReclaimRecheck, Release, Return, Goto, At, LockedPCs, HolderPCs, QueryPCs, ReclaimPCs, shared, scan, server
<1> QED
  BY <1>1, <1>2, <1>3, <1>4, <1>5

LEMMA DeleteFailsInv ==
  ASSUME Inv, NEW t \in Threads, DeleteFails(t)
  PROVE  Inv'
<1> USE DEF Inv
<1>0. /\ pc[t] \in LockedPCs /\ ext[t] \in Extents
      /\ \A s \in Threads : s # t /\ pc[s] \in LockedPCs => ext[s] # ext[t]
  BY Exclusive DEF ThreadOK, DeleteFails, At, LockedPCs
<1>1. TypeOK'
  <2>1. extent_lock' \in [Extents -> Threads \cup {None}]
    BY <1>0 DEF TypeOK, DeleteFails, Release, Return, At, LockedPCs, HolderPCs, QueryPCs, ReclaimPCs, shared, scan, server
  <2>2. /\ chunk' \in [Threads -> ChunkIds] /\ left' \in [Threads -> 0 .. NumChunks]
    BY ChunkIdsFacts DEF TypeOK, DeleteFails, Release, Return, At, LockedPCs, HolderPCs, QueryPCs, ReclaimPCs, shared, scan, server
  <2>3. /\ pc' \in [Threads -> QueryPCs \cup ReclaimPCs \cup {"idle"}]
        /\ ext' \in [Threads -> Extents \cup {None}]
        /\ loc' \in [Threads -> Location \cup {None}]
        /\ ret' \in [Threads -> {"none", "ok", "not_found", "no_space", "store_error"}]
    BY <1>0 DEF TypeOK, DeleteFails, Release, Return, At, LockedPCs, HolderPCs, QueryPCs, ReclaimPCs, shared, scan, server
  <2>4. UNCHANGED <<chunks, rocks, extent_loc_map, status, todo, crossed>>
    BY DEF DeleteFails, shared, server
  <2> QED
    BY <2>1, <2>2, <2>3, <2>4 DEF TypeOK
<1>2. ChunksOK(chunks)'
  BY DEF DeleteFails, Release, Return, At, LockedPCs, HolderPCs, QueryPCs, ReclaimPCs, shared, scan, server
<1>3. \A s \in Threads : ThreadOK(s)'
  <2>1. ASSUME NEW s \in Threads, s # t  PROVE ThreadOK(s)'
    BY <1>0, <2>1 DEF TypeOK, ThreadOK, DeleteFails, Release, Return, At, LockedPCs, HolderPCs, QueryPCs, ReclaimPCs, shared, scan, server
  <2>2. ThreadOK(t)'
    BY <1>0, NoneFresh DEF TypeOK, ThreadOK, UnitsOK, DeleteFails, Release, Return, At, LockedPCs, HolderPCs, QueryPCs, ReclaimPCs, shared, scan, server
  <2> QED
    BY <2>1, <2>2
<1>4. \A f \in Extents : StoreOK(f)'
  BY NoneFresh DEF TypeOK, ThreadOK, StoreOK, DeleteFails, Release, Return, At, LockedPCs, HolderPCs, QueryPCs, ReclaimPCs, shared, scan, server
<1>5. UnitsOK' /\ SetOK' /\ SepOK'
  <2>1. \A s \in Threads : pc'[s] \in HolderPCs => pc[s] \in HolderPCs /\ loc'[s] = loc[s]
    BY DEF TypeOK, DeleteFails, Release, Return, At, LockedPCs, HolderPCs, QueryPCs, ReclaimPCs, shared, scan, server
  <2> QED
    BY <2>1, QuietSpace DEF DeleteFails, Release, Return, At, LockedPCs, HolderPCs, QueryPCs, ReclaimPCs, shared, scan, server
<1> QED
  BY <1>1, <1>2, <1>3, <1>4, <1>5

LEMMA TryChunkInv ==
  ASSUME Inv, NEW t \in Threads, TryChunk(t)
  PROVE  Inv'
<1> USE DEF Inv
<1>0. /\ pc[t] \in LockedPCs /\ ext[t] \in Extents
      /\ \A s \in Threads : s # t /\ pc[s] \in LockedPCs => ext[s] # ext[t]
  BY Exclusive DEF ThreadOK, TryChunk, At, LockedPCs
<1> DEFINE u == Allocated(chunks, chunk[t], N)
<1>1. /\ u \in Units /\ u \in Location
      /\ ChunksOK(chunks')
      /\ IsSet(chunks', u)
      /\ \A v \in Units : IsSet(chunks, v) => IsSet(chunks', v) /\ Sep(u, v)
  <2>1. chunk[t] \in ChunkIds /\ CanAllocate(chunks[chunk[t]], N)
        /\ chunks' = Allocate(chunks, chunk[t], N)
    BY DEF TypeOK, TryChunk
  <2> QED
    BY <2>1, AllocateFresh, UnitFacts
<1>2. /\ pc' = [pc EXCEPT ![t] = "persist"] /\ loc' = [loc EXCEPT ![t] = u]
      /\ pc[t] = "scan" /\ status = "up"
      /\ UNCHANGED <<rocks, extent_loc_map, extent_lock, status, todo, crossed,
                     ext, chunk, left, ret>>
  BY DEF TryChunk, Goto, At, LockedPCs, HolderPCs, QueryPCs, ReclaimPCs, shared, scan, server
<1> HIDE DEF u
<1>3. TypeOK'
  BY <1>1, <1>2 DEF TypeOK, ChunksOK, QueryPCs
<1>4. \A s \in Threads : ThreadOK(s)'
  BY <1>1, <1>2 DEF TypeOK, ThreadOK, LockedPCs, HolderPCs
<1>5. \A f \in Extents : StoreOK(f)'
  BY <1>2 DEF TypeOK, StoreOK
<1>6. UnitsOK'
  BY <1>2 DEF UnitsOK
<1>7. SetOK'
  BY <1>1, <1>2 DEF TypeOK, SetOK, UnitsOK, ThreadOK, HolderPCs
<1>8. SepOK'
  <2>1. \A e \in Extents : extent_loc_map[e] # None => Sep(extent_loc_map[e], u)
    BY <1>1, SepSym DEF SetOK, UnitsOK
  <2>2. \A s \in Threads : pc[s] \in HolderPCs => Sep(loc[s], u) /\ Sep(u, loc[s])
    BY <1>1, SepSym DEF SetOK, ThreadOK
  <2>3. pc[t] \notin HolderPCs
    BY <1>2 DEF HolderPCs
  <2> QED
    BY <1>2, <2>1, <2>2, <2>3 DEF TypeOK, SepOK
<1> QED
  BY <1>1, <1>3, <1>4, <1>5, <1>6, <1>7, <1>8

LEMMA PersistInv ==
  ASSUME Inv, NEW t \in Threads, Persist(t)
  PROVE  Inv'
<1> USE DEF Inv
<1>0. /\ pc[t] \in LockedPCs /\ ext[t] \in Extents
      /\ \A s \in Threads : s # t /\ pc[s] \in LockedPCs => ext[s] # ext[t]
  BY Exclusive DEF ThreadOK, Persist, At, LockedPCs
<1>1. /\ rocks' = [rocks EXCEPT ![ext[t]] = loc[t]]
      /\ pc' = [pc EXCEPT ![t] = "add"] /\ pc[t] = "persist" /\ status = "up"
      /\ UNCHANGED <<chunks, extent_loc_map, extent_lock, status, todo, crossed,
                     ext, loc, chunk, left, ret>>
  BY DEF Persist, Goto, At, LockedPCs, HolderPCs, QueryPCs, ReclaimPCs, shared, scan, server
<1>2. loc[t] \in Units /\ loc[t] \in Location
  BY <1>1, UnitFacts DEF ThreadOK, HolderPCs
<1>3. TypeOK'
  BY <1>0, <1>1, <1>2 DEF TypeOK, QueryPCs
<1>4. \A s \in Threads : ThreadOK(s)'
  <2>1. ASSUME NEW s \in Threads, s # t  PROVE ThreadOK(s)'
    BY <1>0, <1>1, <2>1 DEF TypeOK, ThreadOK, LockedPCs, HolderPCs
  <2>2. ThreadOK(t)'
    BY <1>0, <1>1, <1>2 DEF TypeOK, ThreadOK, LockedPCs, HolderPCs
  <2> QED
    BY <2>1, <2>2
<1>5. \A f \in Extents : StoreOK(f)'
  BY <1>0, <1>1 DEF TypeOK, StoreOK
<1>6. UnitsOK'
  BY <1>1, <1>2 DEF UnitsOK, TypeOK
<1>7. SetOK'
  BY <1>1 DEF TypeOK, SetOK, HolderPCs
<1>8. ASSUME NEW f \in Extents, f # ext[t], rocks[f] # None
      PROVE  Sep(rocks[f], loc[t])
  <2>1. CASE extent_loc_map[f] = rocks[f]
    BY <2>1, <1>1, <1>8 DEF SepOK, HolderPCs
  <2>2. CASE extent_loc_map[f] # rocks[f]
    <3>1. PICK s \in Threads : pc[s] \in {"add", "rremove"} /\ ext[s] = f
      BY <2>2, <1>1 DEF StoreOK
    <3>2. pc[s] = "add" /\ rocks[f] = loc[s] /\ s # t
      BY <3>1, <1>1, <1>8 DEF ThreadOK
    <3> QED
      BY <3>2, <1>1 DEF SepOK, HolderPCs
  <2> QED
    BY <2>1, <2>2
<1>9. SepOK'
  BY <1>0, <1>1, <1>8, SepSym DEF TypeOK, SepOK, HolderPCs
<1> QED
  BY <1>1, <1>3, <1>4, <1>5, <1>6, <1>7, <1>9

LEMMA AddExtentInv ==
  ASSUME Inv, NEW t \in Threads, AddExtent(t)
  PROVE  Inv'
<1> USE DEF Inv
<1>0. /\ pc[t] \in LockedPCs /\ ext[t] \in Extents
      /\ \A s \in Threads : s # t /\ pc[s] \in LockedPCs => ext[s] # ext[t]
  BY Exclusive DEF ThreadOK, AddExtent, At, LockedPCs
<1>1. /\ extent_loc_map' = [extent_loc_map EXCEPT ![ext[t]] = loc[t]]
      /\ extent_lock' = [extent_lock EXCEPT ![ext[t]] = None]
      /\ pc' = [pc EXCEPT ![t] = "io"] /\ pc[t] = "add" /\ status = "up"
      /\ UNCHANGED <<chunks, rocks, status, todo, crossed, ext, loc, chunk, left, ret>>
  BY <1>0 DEF ThreadOK, TypeOK, AddExtent, Goto, Release, At, LockedPCs, HolderPCs, QueryPCs, ReclaimPCs, shared, scan, server
<1>2. /\ loc[t] \in Units /\ loc[t] \in Location
      /\ extent_loc_map[ext[t]] = None /\ rocks[ext[t]] = loc[t]
  BY <1>1, UnitFacts DEF ThreadOK, HolderPCs
<1>3. TypeOK'
  BY <1>0, <1>1, <1>2 DEF TypeOK, QueryPCs
<1>4. \A s \in Threads : ThreadOK(s)'
  <2>1. ASSUME NEW s \in Threads, s # t  PROVE ThreadOK(s)'
    BY <1>0, <1>1, <2>1 DEF TypeOK, ThreadOK, LockedPCs, HolderPCs
  <2>2. ThreadOK(t)'
    BY <1>0, <1>1, <1>2 DEF TypeOK, ThreadOK, LockedPCs, HolderPCs
  <2> QED
    BY <2>1, <2>2
<1>5. \A f \in Extents : StoreOK(f)'
  BY <1>0, <1>1, <1>2 DEF TypeOK, StoreOK
<1>6. UnitsOK'
  BY <1>1, <1>2 DEF UnitsOK, TypeOK
<1>7. SetOK'
  BY <1>0, <1>1 DEF TypeOK, SetOK, IsSet, HolderPCs
<1>8. SepOK'
  <2>1. pc[t] \in HolderPCs /\ pc'[t] \notin HolderPCs
    BY <1>1 DEF HolderPCs, TypeOK
  <2>2. \A s \in Threads : pc'[s] \in HolderPCs => s # t /\ pc[s] \in HolderPCs
    BY <2>1, <1>1 DEF TypeOK
  <2>3. \A f \in Extents : f # ext[t] => extent_loc_map'[f] = extent_loc_map[f]
    BY <1>1 DEF TypeOK
  <2>4. extent_loc_map'[ext[t]] = loc[t]
    BY <1>0, <1>1 DEF TypeOK
  <2> QED
    BY <1>1, <2>1, <2>2, <2>3, <2>4, SepSym DEF SepOK
<1> QED
  BY <1>1, <1>3, <1>4, <1>5, <1>6, <1>7, <1>8

LEMMA UndoAllocateInv ==
  ASSUME Inv, NEW t \in Threads, UndoAllocate(t)
  PROVE  Inv'
<1> USE DEF Inv
<1>0. /\ pc[t] \in LockedPCs /\ ext[t] \in Extents
      /\ \A s \in Threads : s # t /\ pc[s] \in LockedPCs => ext[s] # ext[t]
  BY Exclusive DEF ThreadOK, UndoAllocate, At, LockedPCs
<1>1. /\ chunks' = Free(chunks, loc[t])
      /\ extent_lock' = [extent_lock EXCEPT ![ext[t]] = None]
      /\ pc' = [pc EXCEPT ![t] = "idle"] /\ pc[t] = "undo"
      /\ ext' = [ext EXCEPT ![t] = None] /\ loc' = [loc EXCEPT ![t] = None]
      /\ chunk' = [chunk EXCEPT ![t] = 0] /\ left' = [left EXCEPT ![t] = 0]
      /\ ret' = [ret EXCEPT ![t] = "store_error"]
      /\ UNCHANGED <<rocks, extent_loc_map, status, todo, crossed>>
  BY DEF UndoAllocate, Return, Release, At, LockedPCs, HolderPCs, QueryPCs, ReclaimPCs, shared, scan, server
<1>2. loc[t] \in Units /\ pc[t] \in HolderPCs
  BY <1>1 DEF ThreadOK, HolderPCs
<1>3. /\ ChunksOK(chunks')
      /\ \A v \in Units : IsSet(chunks, v) /\ Sep(loc[t], v) => IsSet(chunks', v)
  BY <1>1, <1>2, FreeKeepsOthers
<1>4. TypeOK'
  <2>1. chunks' \in [ChunkIds -> Chunk]
    BY <1>3 DEF ChunksOK
  <2>2. chunk' \in [Threads -> ChunkIds] /\ left' \in [Threads -> 0 .. NumChunks]
    BY <1>1, ChunkIdsFacts DEF TypeOK
  <2>3. /\ pc' \in [Threads -> QueryPCs \cup ReclaimPCs \cup {"idle"}]
        /\ ext' \in [Threads -> Extents \cup {None}]
        /\ loc' \in [Threads -> Location \cup {None}]
        /\ ret' \in [Threads -> {"none", "ok", "not_found", "no_space", "store_error"}]
        /\ extent_lock' \in [Extents -> Threads \cup {None}]
    BY <1>1 DEF TypeOK
  <2> QED
    BY <2>1, <2>2, <2>3, <1>1 DEF TypeOK
<1>5. \A s \in Threads : ThreadOK(s)'
  <2>1. ASSUME NEW s \in Threads, s # t  PROVE ThreadOK(s)'
    BY <1>0, <1>1, <2>1 DEF TypeOK, ThreadOK, LockedPCs, HolderPCs
  <2>2. ThreadOK(t)'
    BY <1>1 DEF TypeOK, ThreadOK, LockedPCs, HolderPCs
  <2> QED
    BY <2>1, <2>2
<1>6. \A f \in Extents : StoreOK(f)'
  BY <1>1 DEF TypeOK, StoreOK
<1>7. UnitsOK'
  BY <1>1 DEF UnitsOK
<1>8. \A s \in Threads : pc'[s] \in HolderPCs =>
                          s # t /\ pc[s] \in HolderPCs /\ loc'[s] = loc[s]
  BY <1>1 DEF TypeOK, HolderPCs
<1>9. SetOK'
  <2>1. ASSUME NEW e \in Extents, extent_loc_map[e] # None
        PROVE  IsSet(chunks', extent_loc_map[e])
    BY <2>1, <1>2, <1>3, SepSym DEF SetOK, SepOK, UnitsOK
  <2>2. ASSUME NEW s \in Threads, s # t, pc[s] \in HolderPCs
        PROVE  IsSet(chunks', loc[s])
    BY <2>2, <1>2, <1>3 DEF SetOK, SepOK, ThreadOK
  <2> QED
    BY <2>1, <2>2, <1>1, <1>8 DEF SetOK
<1>10. SepOK'
  BY <1>1, <1>8 DEF SepOK
<1> QED
  BY <1>3, <1>4, <1>5, <1>6, <1>7, <1>9, <1>10

LEMMA FreeSpaceInv ==
  ASSUME Inv, NEW t \in Threads, FreeSpace(t)
  PROVE  Inv'
<1> USE DEF Inv
<1>0. /\ pc[t] \in LockedPCs /\ ext[t] \in Extents
      /\ \A s \in Threads : s # t /\ pc[s] \in LockedPCs => ext[s] # ext[t]
  BY Exclusive DEF ThreadOK, FreeSpace, At, LockedPCs
<1>1. /\ chunks' = Free(chunks, loc[t])
      /\ extent_lock' = [extent_lock EXCEPT ![ext[t]] = None]
      /\ pc' = [pc EXCEPT ![t] = "idle"] /\ pc[t] = "rfree"
      /\ ext' = [ext EXCEPT ![t] = None] /\ loc' = [loc EXCEPT ![t] = None]
      /\ chunk' = [chunk EXCEPT ![t] = 0] /\ left' = [left EXCEPT ![t] = 0]
      /\ ret' = [ret EXCEPT ![t] = "ok"]
      /\ UNCHANGED <<rocks, extent_loc_map, status, todo, crossed>>
  BY DEF FreeSpace, Return, Release, At, LockedPCs, HolderPCs, QueryPCs, ReclaimPCs, shared, scan, server
<1>2. loc[t] \in Units /\ pc[t] \in HolderPCs
  BY <1>1 DEF ThreadOK, HolderPCs
<1>3. /\ ChunksOK(chunks')
      /\ \A v \in Units : IsSet(chunks, v) /\ Sep(loc[t], v) => IsSet(chunks', v)
  BY <1>1, <1>2, FreeKeepsOthers
<1>4. TypeOK'
  <2>1. chunks' \in [ChunkIds -> Chunk]
    BY <1>3 DEF ChunksOK
  <2>2. chunk' \in [Threads -> ChunkIds] /\ left' \in [Threads -> 0 .. NumChunks]
    BY <1>1, ChunkIdsFacts DEF TypeOK
  <2>3. /\ pc' \in [Threads -> QueryPCs \cup ReclaimPCs \cup {"idle"}]
        /\ ext' \in [Threads -> Extents \cup {None}]
        /\ loc' \in [Threads -> Location \cup {None}]
        /\ ret' \in [Threads -> {"none", "ok", "not_found", "no_space", "store_error"}]
        /\ extent_lock' \in [Extents -> Threads \cup {None}]
    BY <1>1 DEF TypeOK
  <2> QED
    BY <2>1, <2>2, <2>3, <1>1 DEF TypeOK
<1>5. \A s \in Threads : ThreadOK(s)'
  <2>1. ASSUME NEW s \in Threads, s # t  PROVE ThreadOK(s)'
    BY <1>0, <1>1, <2>1 DEF TypeOK, ThreadOK, LockedPCs, HolderPCs
  <2>2. ThreadOK(t)'
    BY <1>1 DEF TypeOK, ThreadOK, LockedPCs, HolderPCs
  <2> QED
    BY <2>1, <2>2
<1>6. \A f \in Extents : StoreOK(f)'
  BY <1>1 DEF TypeOK, StoreOK
<1>7. UnitsOK'
  BY <1>1 DEF UnitsOK
<1>8. \A s \in Threads : pc'[s] \in HolderPCs =>
                          s # t /\ pc[s] \in HolderPCs /\ loc'[s] = loc[s]
  BY <1>1 DEF TypeOK, HolderPCs
<1>9. SetOK'
  <2>1. ASSUME NEW e \in Extents, extent_loc_map[e] # None
        PROVE  IsSet(chunks', extent_loc_map[e])
    BY <2>1, <1>2, <1>3, SepSym DEF SetOK, SepOK, UnitsOK
  <2>2. ASSUME NEW s \in Threads, s # t, pc[s] \in HolderPCs
        PROVE  IsSet(chunks', loc[s])
    BY <2>2, <1>2, <1>3 DEF SetOK, SepOK, ThreadOK
  <2> QED
    BY <2>1, <2>2, <1>1, <1>8 DEF SetOK
<1>10. SepOK'
  BY <1>1, <1>8 DEF SepOK
<1> QED
  BY <1>3, <1>4, <1>5, <1>6, <1>7, <1>9, <1>10

LEMMA DeleteKeyInv ==
  ASSUME Inv, NEW t \in Threads, DeleteKey(t)
  PROVE  Inv'
<1> USE DEF Inv
<1>0. /\ pc[t] \in LockedPCs /\ ext[t] \in Extents
      /\ \A s \in Threads : s # t /\ pc[s] \in LockedPCs => ext[s] # ext[t]
  BY Exclusive DEF ThreadOK, DeleteKey, At, LockedPCs
<1>1. /\ rocks' = [rocks EXCEPT ![ext[t]] = None]
      /\ pc' = [pc EXCEPT ![t] = "rremove"] /\ pc[t] = "rdelete" /\ status = "up"
      /\ UNCHANGED <<chunks, extent_loc_map, extent_lock, status, todo, crossed,
                     ext, loc, chunk, left, ret>>
  BY DEF DeleteKey, Goto, At, scan, server
<1>2. loc[t] \in Units /\ extent_loc_map[ext[t]] = loc[t]
  BY <1>1 DEF ThreadOK
<1>3. TypeOK'
  BY <1>0, <1>1 DEF TypeOK, ReclaimPCs
<1>4. \A s \in Threads : ThreadOK(s)'
  <2>1. ASSUME NEW s \in Threads, s # t  PROVE ThreadOK(s)'
    BY <1>0, <1>1, <2>1 DEF TypeOK, ThreadOK, LockedPCs, HolderPCs
  <2>2. ThreadOK(t)'
    BY <1>0, <1>1, <1>2 DEF TypeOK, ThreadOK, LockedPCs, HolderPCs
  <2> QED
    BY <2>1, <2>2
<1>5. \A f \in Extents : StoreOK(f)'
  BY <1>0, <1>1 DEF TypeOK, StoreOK
<1>6. UnitsOK'
  BY <1>1 DEF UnitsOK, TypeOK
<1>7. SetOK' /\ SepOK'
  <2>1. \A s \in Threads : pc'[s] \in HolderPCs => pc[s] \in HolderPCs
    BY <1>1 DEF TypeOK, HolderPCs
  <2>2. \A f \in Extents : rocks'[f] # None => rocks'[f] = rocks[f]
    BY <1>1 DEF TypeOK
  <2> QED
    BY <1>1, <2>1, <2>2 DEF SetOK, SepOK
<1> QED
  BY <1>1, <1>3, <1>4, <1>5, <1>6, <1>7

LEMMA RemoveExtentInv ==
  ASSUME Inv, NEW t \in Threads, RemoveExtent(t)
  PROVE  Inv'
<1> USE DEF Inv
<1>0. /\ pc[t] \in LockedPCs /\ ext[t] \in Extents
      /\ \A s \in Threads : s # t /\ pc[s] \in LockedPCs => ext[s] # ext[t]
  BY Exclusive DEF ThreadOK, RemoveExtent, At, LockedPCs
<1>1. /\ extent_loc_map' = [extent_loc_map EXCEPT ![ext[t]] = None]
      /\ pc' = [pc EXCEPT ![t] = "rfree"] /\ pc[t] = "rremove" /\ status = "up"
      /\ UNCHANGED <<chunks, rocks, extent_lock, status, todo, crossed,
                     ext, loc, chunk, left, ret>>
  BY DEF RemoveExtent, Goto, At, scan, server
<1>2. /\ loc[t] \in Units /\ loc[t] # None
      /\ extent_loc_map[ext[t]] = loc[t] /\ rocks[ext[t]] = None
  BY <1>1, UnitFacts DEF ThreadOK
<1>3. TypeOK'
  BY <1>0, <1>1 DEF TypeOK, ReclaimPCs
<1>4. \A s \in Threads : ThreadOK(s)'
  <2>1. ASSUME NEW s \in Threads, s # t  PROVE ThreadOK(s)'
    BY <1>0, <1>1, <2>1 DEF TypeOK, ThreadOK, LockedPCs, HolderPCs
  <2>2. ThreadOK(t)'
    BY <1>0, <1>1, <1>2 DEF TypeOK, ThreadOK, LockedPCs, HolderPCs
  <2> QED
    BY <2>1, <2>2
<1>5. \A f \in Extents : StoreOK(f)'
  BY <1>0, <1>1, <1>2 DEF TypeOK, StoreOK
<1>6. UnitsOK'
  BY <1>1 DEF UnitsOK, TypeOK
<1>7. /\ \A s \in Threads : pc'[s] \in HolderPCs => s = t \/ pc[s] \in HolderPCs
      /\ \A f \in Extents : extent_loc_map'[f] # None =>
            f # ext[t] /\ extent_loc_map'[f] = extent_loc_map[f]
  BY <1>1 DEF TypeOK, HolderPCs
<1>8. SetOK'
  <2>1. IsSet(chunks, loc[t])
    BY <1>0, <1>2 DEF SetOK
  <2> QED
    BY <1>1, <1>7, <2>1 DEF SetOK
<1>9. SepOK'
  <2>1. \A f \in Extents : f # ext[t] /\ extent_loc_map[f] # None =>
           Sep(extent_loc_map[f], loc[t])
    BY <1>0, <1>2 DEF SepOK
  <2>2. \A s \in Threads : pc[s] \in HolderPCs => Sep(loc[s], loc[t]) /\ Sep(loc[t], loc[s])
    BY <1>0, <1>2, SepSym DEF SepOK
  <2> QED
    BY <1>1, <1>7, <2>1, <2>2 DEF SepOK
<1> QED
  BY <1>1, <1>3, <1>4, <1>5, <1>6, <1>8, <1>9

LEMMA LoadExtentInv ==
  ASSUME Inv, NEW e \in Extents, LoadExtent(e)
  PROVE  Inv'
<1> USE DEF Inv
<1>1. /\ status = "loading" /\ e \in todo
      /\ todo' = todo \ {e}
      /\ extent_loc_map' = [extent_loc_map EXCEPT ![e] = rocks[e]]
      /\ chunks' = Mark(chunks, rocks[e])
      /\ UNCHANGED <<rocks, extent_lock, status, crossed, pc, ext, loc, chunk, left, ret>>
  BY DEF LoadExtent, scan
<1>2. extent_loc_map[e] = None /\ rocks[e] \in Units /\ rocks[e] \in Location
  BY <1>1, UnitFacts DEF StoreOK, UnitsOK
<1>3. /\ ChunksOK(chunks') /\ IsSet(chunks', rocks[e])
      /\ \A v \in Units : IsSet(chunks, v) => IsSet(chunks', v)
  BY <1>1, <1>2, MarkSets
<1>4. \A t \in Threads : pc[t] = "idle" /\ pc[t] \notin HolderPCs
  <2>1. status # "up"
    BY <1>1
  <2>2. \A t \in Threads : pc[t] = "idle"
    BY <2>1 DEF ThreadOK
  <2> QED
    BY <2>2 DEF HolderPCs
<1>5. TypeOK'
  BY <1>1, <1>2, <1>3 DEF TypeOK, ChunksOK
<1>6. \A t \in Threads : ThreadOK(t)'
  BY <1>1, <1>4 DEF ThreadOK, LockedPCs, HolderPCs
<1>7. \A f \in Extents : StoreOK(f)'
  BY <1>1 DEF TypeOK, StoreOK
<1>8. UnitsOK'
  BY <1>1, <1>2 DEF TypeOK, UnitsOK
<1>9. SetOK'
  BY <1>1, <1>3, <1>4 DEF TypeOK, SetOK, UnitsOK
<1>10. SepOK'
  <2>1. \A f \in Extents : extent_loc_map'[f] # None => extent_loc_map'[f] = rocks[f]
    BY <1>1 DEF TypeOK, StoreOK
  <2> QED
    BY <1>1, <1>4, <2>1 DEF SepOK
<1> QED
  BY <1>3, <1>5, <1>6, <1>7, <1>8, <1>9, <1>10

LEMMA LoadDoneInv ==
  ASSUME Inv, LoadDone
  PROVE  Inv'
<1> USE DEF Inv
<1>1. /\ status = "loading" /\ todo = {} /\ status' = "up"
      /\ UNCHANGED <<chunks, rocks, extent_loc_map, extent_lock, todo, crossed,
                     pc, ext, loc, chunk, left, ret>>
  BY DEF LoadDone, shared, scan
<1>2. TypeOK' /\ ChunksOK(chunks)'
  BY <1>1 DEF TypeOK
<1>3. \A t \in Threads : ThreadOK(t)'
  BY <1>1 DEF ThreadOK
<1>4. \A e \in Extents : StoreOK(e)'
  BY <1>1 DEF StoreOK
<1>5. UnitsOK' /\ SetOK' /\ SepOK'
  BY <1>1, QuietSpace DEF shared
<1> QED
  BY <1>2, <1>3, <1>4, <1>5

LEMMA CrashRestartInv ==
  ASSUME Inv, CrashRestart
  PROVE  Inv'
<1> USE DEF Inv
<1>1. /\ chunks' = InitChunks
      /\ extent_loc_map' = [e \in Extents |-> None]
      /\ extent_lock' = [e \in Extents |-> None]
      /\ status' = "loading"
      /\ todo' = {e \in Extents : rocks[e] # None}
      /\ crossed' = {}
      /\ pc' = [t \in Threads |-> "idle"]
      /\ ext' = [t \in Threads |-> None]
      /\ loc' = [t \in Threads |-> None]
      /\ chunk' = [t \in Threads |-> 0]
      /\ left' = [t \in Threads |-> 0]
      /\ ret' = [t \in Threads |-> "none"]
      /\ UNCHANGED rocks
  BY DEF CrashRestart, Volatile
<1>2. ChunksOK(chunks)'
  BY <1>1, InitChunksOK
<1>3. TypeOK'
  <2>1. chunks' \in [ChunkIds -> Chunk]
    BY <1>2 DEF ChunksOK
  <2>2. chunk' \in [Threads -> ChunkIds] /\ left' \in [Threads -> 0 .. NumChunks]
    BY <1>1, ChunkIdsFacts
  <2> QED
    BY <1>1, <2>1, <2>2 DEF TypeOK
<1>4. \A t \in Threads : ThreadOK(t)'
  BY <1>1 DEF ThreadOK, LockedPCs, HolderPCs
<1>5. \A e \in Extents : StoreOK(e)'
  BY <1>1 DEF StoreOK
<1>6. UnitsOK'
  BY <1>1 DEF UnitsOK
<1>7. SetOK' /\ SepOK'
  BY <1>1 DEF SetOK, SepOK, HolderPCs
<1> QED
  BY <1>2, <1>3, <1>4, <1>5, <1>6, <1>7

-----------------------------------------------------------------------------
(* The theorems.                                                           *)

(* In every reachable state of the location manager, with any number of    *)
(* threads and through any number of crashes, the inductive invariant      *)
(* holds.                                                                  *)
THEOREM Invariance == Spec => []Inv
<1>1. Init => Inv
  <2> SUFFICES ASSUME Init  PROVE Inv
    OBVIOUS
  <2>1. ChunksOK(chunks)
    BY InitChunksOK DEF Init
  <2>2. TypeOK
    BY <2>1, ChunkIdsFacts DEF Init, TypeOK, ChunksOK
  <2>3. \A t \in Threads : ThreadOK(t)
    BY DEF Init, ThreadOK, LockedPCs, HolderPCs
  <2>4. \A e \in Extents : StoreOK(e)
    BY DEF Init, StoreOK
  <2>5. UnitsOK /\ SetOK /\ SepOK
    BY DEF Init, UnitsOK, SetOK, SepOK, HolderPCs
  <2> QED
    BY <2>1, <2>2, <2>3, <2>4, <2>5 DEF Inv
<1>2. Inv /\ [Next]_vars => Inv'
  <2> SUFFICES ASSUME Inv, [Next]_vars  PROVE Inv'
    OBVIOUS
  <2>1. ASSUME NEW t \in Threads, QueryStep(t)  PROVE Inv'
    BY <2>1, QueryInv, LockExtentInv, RecheckInv, TryChunkInv, SkipChunkInv,
       PersistInv, PersistFailsInv, AddExtentInv, UndoAllocateInv, IoDoneInv
       DEF QueryStep
  <2>2. ASSUME NEW t \in Threads, ReclaimStep(t)  PROVE Inv'
    BY <2>2, ReclaimInv, ReclaimLockInv, ReclaimRecheckInv, DeleteKeyInv,
       DeleteFailsInv, RemoveExtentInv, FreeSpaceInv
       DEF ReclaimStep
  <2>3. CASE UNCHANGED vars
    <3>1. UnitsOK' /\ SetOK' /\ SepOK'
      BY <2>3, QuietSpace DEF Inv, vars, shared
    <3> QED
      BY <2>3, <3>1 DEF Inv, vars, TypeOK, ThreadOK, StoreOK
  <2> QED
    BY <2>1, <2>2, <2>3, LoadExtentInv, LoadDoneInv, CrashRestartInv DEF Next
<1> QED
  BY <1>1, <1>2, PTL DEF Spec

(* Every variable of the location manager keeps its type.                  *)
THEOREM TypeCorrect == Spec => []TypeOK
<1>1. Inv => TypeOK
  BY DEF Inv
<1> QED
  BY <1>1, Invariance, PTL

(* No two extents ever get overlapping byte ranges, in memory or in        *)
(* RocksDB, whatever QueryLocation, ReclaimExtent, failed stores and       *)
(* restarts are interleaved.                                               *)
THEOREM DisjointLocations == Spec => []LocationsDisjoint
<1>1. Inv => LocationsDisjoint
  <2> SUFFICES ASSUME Inv, NEW e \in Extents, NEW f \in Extents, e # f
               PROVE  /\ extent_loc_map[e] # None /\ extent_loc_map[f] # None
                           => Disjoint(extent_loc_map[e], extent_loc_map[f])
                      /\ rocks[e] # None /\ rocks[f] # None
                           => Disjoint(rocks[e], rocks[f])
    BY DEF LocationsDisjoint
  <2> QED
    BY SepDisjoint DEF Inv, SepOK, UnitsOK
<1> QED
  BY <1>1, Invariance, PTL

(* Unless its mutex is held, an extent's entry in memory is the one        *)
(* RocksDB has.                                                            *)
THEOREM StoreAgreement == Spec => []MapMatchesStore
<1>1. Inv => MapMatchesStore
  BY NoneFresh DEF Inv, MapMatchesStore, StoreOK, ThreadOK, LockedPCs
<1> QED
  BY <1>1, Invariance, PTL

(* The contents of RocksDB implement the durable table of locations: a     *)
(* step of the manager assigns a fresh range to an extent that has none,   *)
(* removes one, or leaves the table alone; a crash always leaves it alone. *)
THEOREM TableRefinement == Spec => ImplementsTable
<1>1. Init => Table!Init
  BY DEF Init, Table!Init
<1>2. Inv /\ Inv' /\ [Next]_vars => [Table!Next]_rocks
  <2> SUFFICES ASSUME Inv, Inv', [Next]_vars, rocks' # rocks
               PROVE  Table!Next
    OBVIOUS
  <2>1. PICK t \in Threads : Persist(t) \/ DeleteKey(t)
    BY DEF Next, QueryStep, ReclaimStep, Query, LockExtent, Recheck, TryChunk,
           SkipChunk, PersistFails, AddExtent, UndoAllocate, IoDone, Reclaim,
           ReclaimLock, ReclaimRecheck, DeleteFails, RemoveExtent, FreeSpace,
           LoadExtent, LoadDone, CrashRestart, shared, vars
  <2>2. ext[t] \in Extents
    BY <2>1 DEF Inv, ThreadOK, Persist, DeleteKey, At
  <2>3. CASE Persist(t)
    <3>1. /\ rocks[ext[t]] = None /\ loc[t] \in Units
          /\ rocks' = [rocks EXCEPT ![ext[t]] = loc[t]]
      BY <2>3 DEF Inv, ThreadOK, Persist, At, HolderPCs
    <3>2. rocks'[ext[t]] = loc[t] /\ rocks'[ext[t]] # None
      BY <3>1, <2>2, NoneFresh DEF Inv, TypeOK
    <3>3. ASSUME NEW f \in Extents, rocks[f] # None
          PROVE  Table!Apart(loc[t], rocks[f])
      <4>1. f # ext[t] /\ rocks'[f] = rocks[f]
        BY <3>1, <3>3 DEF Inv, TypeOK
      <4>2. Sep(loc[t], rocks[f])
        BY <4>1, <3>2, <3>3, <2>2 DEF Inv, SepOK
      <4>3. rocks[f] \in Units
        BY <3>3 DEF Inv, UnitsOK
      <4> QED
        BY <4>2, <4>3, <3>1, SepDisjoint DEF Disjoint, Table!Apart
    <3>4. loc[t] \in LocationRanges
      BY <3>1, NType, AllocatorAssumption DEF Units, LocationRanges
    <3>5. Table!Assign(ext[t])
      BY <3>1, <3>3, <3>4 DEF Table!Assign
    <3> QED
      BY <3>5, <2>2 DEF Table!Next
  <2>4. CASE DeleteKey(t)
    <3>1. /\ rocks[ext[t]] # None
          /\ rocks' = [rocks EXCEPT ![ext[t]] = None]
      BY <2>4, NoneFresh DEF Inv, ThreadOK, DeleteKey, At
    <3>2. Table!Remove(ext[t])
      BY <3>1 DEF Table!Remove
    <3> QED
      BY <3>2, <2>2 DEF Table!Next
  <2> QED
    BY <2>1, <2>3, <2>4
<1> QED
  BY <1>1, <1>2, Invariance, PTL DEF Spec, ImplementsTable, Table!Spec

-----------------------------------------------------------------------------
(* The space: what the bits and the counts say.                            *)

(* The unit u has bit b of chunk i.                                        *)
Has(u, i, b) == calcChunkIdxByOffset(u.offset) = i /\ b \in BlocksOf(u)

(* Bit b of chunk i belongs to a location of the map or to one a thread    *)
(* has taken and neither published nor given back.                         *)
Owned(i, b) ==
  \/ \E e \in Extents : extent_loc_map[e] # None /\ Has(extent_loc_map[e], i, b)
  \/ \E t \in Threads : pc[t] \in HolderPCs /\ Has(loc[t], i, b)

(* No bit is set without an owner: nothing leaks.                          *)
OwnedOK == \A i \in ChunkIds : \A b \in chunks[i].data : Owned(i, b)

(* The free count of one chunk counts its clear bits.                      *)
Counted(c) == /\ IsFiniteSet(c.data)
              /\ c.num_free_blocks = c.num_blocks - Cardinality(c.data)

CountOK == \A i \in ChunkIds : Counted(chunks[i])

SpaceInv == OwnedOK /\ CountOK

-----------------------------------------------------------------------------
(* What the allocator's operations do to one chunk and to its count.       *)

LEMMA UnitBlocks ==
  ASSUME NEW u \in Units
  PROVE  /\ BlocksOf(u) = BeginOf(u) .. (BeginOf(u) + N - 1)
         /\ EndOf(u) - BeginOf(u) = N
         /\ IsFiniteSet(BlocksOf(u))
         /\ Cardinality(BlocksOf(u)) = N
<1>1. /\ BeginOf(u) \in Nat /\ EndOf(u) = BeginOf(u) + N /\ N \in Nat \ {0}
  BY UnitFacts, NType
<1>2. BlocksOf(u) = BeginOf(u) .. (BeginOf(u) + N - 1)
  BY <1>1 DEF BlocksOf
<1> DEFINE b == BeginOf(u)
           e == b + N - 1
<1>3. b \in Int /\ e \in Int /\ ~(b > e) /\ e - b + 1 = N
  BY <1>1
<1>4. IsFiniteSet(b .. e) /\ Cardinality(b .. e) = N
  <2> HIDE DEF b, e
  <2> QED
    BY <1>3, FS_Interval
<1> QED
  BY <1>1, <1>2, <1>4

(* Setting the clear bits of a unit takes as many off the free count.      *)
LEMMA SetCounted ==
  ASSUME NEW c \in Chunk, Counted(c), NEW u \in Units,
         BlocksOf(u) \cap c.data = {}
  PROVE  LET d == setBlock(c, BeginOf(u), EndOf(u))
         IN  Counted(d) /\ d.data = c.data \cup BlocksOf(u)
<1> DEFINE d == setBlock(c, BeginOf(u), EndOf(u))
<1>1. /\ d.data = c.data \cup BlocksOf(u)
      /\ d.num_blocks = c.num_blocks
      /\ d.num_free_blocks = c.num_free_blocks - N
  <2>1. EndOf(u) - BeginOf(u) = N
    BY UnitBlocks
  <2> QED
    BY <2>1 DEF setBlock, Chunk, BlocksOf
<1>2. /\ IsFiniteSet(d.data)
      /\ Cardinality(d.data) =
           Cardinality(c.data) + Cardinality(BlocksOf(u)) - Cardinality({})
  <2>1. c.data \cap BlocksOf(u) = {}
    OBVIOUS
  <2> QED
    BY <1>1, <2>1, UnitBlocks, FS_Union DEF Counted
<1>3. Cardinality({}) = 0 /\ Cardinality(BlocksOf(u)) = N /\ N \in Nat
  BY FS_EmptySet, UnitBlocks, NType
<1>4. Cardinality(c.data) \in Nat /\ c.num_blocks \in Nat
  BY FS_CardinalityType DEF Counted, Chunk
<1> HIDE DEF d
<1>5. Counted(d)
  BY <1>1, <1>2, <1>3, <1>4 DEF Counted
<1> QED
  BY <1>1, <1>5 DEF d

(* Clearing the set bits of a unit gives as many back.                     *)
LEMMA UnsetCounted ==
  ASSUME NEW c \in Chunk, Counted(c), NEW u \in Units, BlocksOf(u) \subseteq c.data
  PROVE  LET d == unsetBlock(c, BeginOf(u), EndOf(u))
         IN  Counted(d) /\ d.data = c.data \ BlocksOf(u)
<1> DEFINE d == unsetBlock(c, BeginOf(u), EndOf(u))
<1>1. /\ d.data = c.data \ BlocksOf(u)
      /\ d.num_blocks = c.num_blocks
      /\ d.num_free_blocks = c.num_free_blocks + N
  <2>1. EndOf(u) - BeginOf(u) = N
    BY UnitBlocks
  <2> QED
    BY <2>1 DEF unsetBlock, Chunk, BlocksOf
<1>2. /\ IsFiniteSet(d.data)
      /\ Cardinality(d.data) = Cardinality(c.data) - Cardinality(BlocksOf(u))
  <2>1. c.data \cap BlocksOf(u) = BlocksOf(u)
    OBVIOUS
  <2>2. IsFiniteSet(c.data)
    BY DEF Counted
  <2>3. /\ IsFiniteSet(c.data \ BlocksOf(u))
        /\ Cardinality(c.data \ BlocksOf(u)) =
             Cardinality(c.data) - Cardinality(c.data \cap BlocksOf(u))
    BY <2>2, FS_Difference
  <2> QED
    BY <1>1, <2>1, <2>3
<1>3. Cardinality(BlocksOf(u)) = N /\ N \in Nat
  BY UnitBlocks, NType
<1>4. Cardinality(c.data) \in Nat /\ c.num_blocks \in Nat
  BY FS_CardinalityType DEF Counted, Chunk
<1> HIDE DEF d
<1>5. Counted(d)
  BY <1>1, <1>2, <1>3, <1>4 DEF Counted
<1> QED
  BY <1>1, <1>5 DEF d

(* The unit that Allocate gives has clear bits before and decodes to the   *)
(* place the search found.                                                 *)
LEMMA AllocatedUnit ==
  ASSUME NEW ch, ChunksOK(ch), NEW i \in ChunkIds, CanAllocate(ch[i], N)
  PROVE  LET u == Allocated(ch, i, N)
         IN  /\ u \in Units
             /\ calcChunkIdxByOffset(u.offset) = i
             /\ BeginOf(u) = Place(ch[i], N)
             /\ BlocksOf(u) \cap ch[i].data = {}
             /\ Allocate(ch, i, N) =
                  [ch EXCEPT ![i] = setBlock(ch[i], BeginOf(u), EndOf(u))]
<1> DEFINE u == Allocated(ch, i, N)
           b == Place(ch[i], N)
<1>1. ch[i] \in Chunk /\ ch[i].num_blocks <= MaxBlocksPerChunk
  BY DEF ChunksOK
<1>2. b \in 0 .. (MaxBlocksPerChunk - N) /\ (b .. (b + N - 1)) \cap ch[i].data = {}
  BY <1>1, PlaceFits
<1>3. u = AUnitAt(i, b, N)
  BY DEF Allocated
<1>4. u \in Units /\ calcChunkIdxByOffset(u.offset) = i
      /\ BeginOf(u) = b /\ EndOf(u) = b + N
  BY <1>2, <1>3, UnitDecode
<1>5. BlocksOf(u) = b .. (b + N - 1)
  BY <1>4, UnitBlocks
<1>6. Allocate(ch, i, N) = [ch EXCEPT ![i] = setBlock(ch[i], b, b + N)]
  BY DEF Allocate, ChunksOK
<1> QED
  BY <1>2, <1>4, <1>5, <1>6

-----------------------------------------------------------------------------
(* Every step keeps the space accounted for.                               *)

(* A step that leaves bitmap and map alone and takes no thread's location  *)
(* away.                                                                   *)
LEMMA QuietOwned ==
  ASSUME SpaceInv, UNCHANGED <<chunks, extent_loc_map>>,
         \A s \in Threads : pc[s] \in HolderPCs =>
                               pc'[s] \in HolderPCs /\ loc'[s] = loc[s]
  PROVE  SpaceInv'
<1>1. OwnedOK'
  BY DEF SpaceInv, OwnedOK, Owned, Has
<1>2. CountOK'
  BY DEF SpaceInv, CountOK, Counted
<1> QED
  BY <1>1, <1>2 DEF SpaceInv

(* addExtent and removeExtent hand a location from thread to map and back. *)
LEMMA AddExtentSpace ==
  ASSUME Inv, SpaceInv, NEW t \in Threads, AddExtent(t)
  PROVE  SpaceInv'
<1>1. /\ pc[t] = "add" /\ ext[t] \in Extents /\ extent_loc_map[ext[t]] = None
      /\ loc[t] \in Units
  BY DEF AddExtent, At, Inv, ThreadOK, HolderPCs
<1>2. /\ extent_loc_map' = [extent_loc_map EXCEPT ![ext[t]] = loc[t]]
      /\ pc' = [pc EXCEPT ![t] = "io"]
      /\ UNCHANGED <<chunks, loc>>
  BY <1>1 DEF AddExtent, Goto
<1>3. /\ extent_loc_map'[ext[t]] = loc[t] /\ loc[t] # None
      /\ \A e \in Extents : extent_loc_map[e] # None =>
                              extent_loc_map'[e] = extent_loc_map[e]
      /\ \A s \in Threads : pc[s] \in HolderPCs => s = t \/ pc'[s] \in HolderPCs
  BY <1>1, <1>2, UnitFacts DEF Inv, TypeOK
<1>4. \A i, b : Owned(i, b) => Owned(i, b)'
  BY <1>1, <1>2, <1>3 DEF Owned, Has
<1>5. OwnedOK'
  BY <1>2, <1>4 DEF SpaceInv, OwnedOK
<1>6. CountOK'
  BY <1>2 DEF SpaceInv, CountOK, Counted
<1> QED
  BY <1>5, <1>6 DEF SpaceInv

LEMMA RemoveExtentSpace ==
  ASSUME Inv, SpaceInv, NEW t \in Threads, RemoveExtent(t)
  PROVE  SpaceInv'
<1>1. /\ pc[t] = "rremove" /\ ext[t] \in Extents /\ extent_loc_map[ext[t]] = loc[t]
      /\ loc[t] \in Units
  BY DEF RemoveExtent, At, Inv, ThreadOK
<1>2. /\ extent_loc_map' = [extent_loc_map EXCEPT ![ext[t]] = None]
      /\ pc' = [pc EXCEPT ![t] = "rfree"]
      /\ UNCHANGED <<chunks, loc>>
  BY DEF RemoveExtent, Goto
<1>3. /\ pc'[t] \in HolderPCs
      /\ \A e \in Extents : e # ext[t] => extent_loc_map'[e] = extent_loc_map[e]
      /\ \A s \in Threads : pc[s] \in HolderPCs => pc'[s] \in HolderPCs
  BY <1>1, <1>2 DEF Inv, TypeOK, HolderPCs
<1>4. \A i, b : Owned(i, b) => Owned(i, b)'
  BY <1>1, <1>2, <1>3 DEF Owned, Has
<1>5. OwnedOK'
  BY <1>2, <1>4 DEF SpaceInv, OwnedOK
<1>6. CountOK'
  BY <1>2 DEF SpaceInv, CountOK, Counted
<1> QED
  BY <1>5, <1>6 DEF SpaceInv

LEMMA TryChunkSpace ==
  ASSUME Inv, SpaceInv, NEW t \in Threads, TryChunk(t)
  PROVE  SpaceInv'
<1>0. PICK i, u : i = chunk[t] /\ u = Allocated(chunks, i, N)
  OBVIOUS
<1> DEFINE d == setBlock(chunks[i], BeginOf(u), EndOf(u))
<1>1. /\ ChunksOK(chunks) /\ i \in ChunkIds /\ CanAllocate(chunks[i], N)
      /\ pc[t] = "scan"
      /\ pc' = [pc EXCEPT ![t] = "persist"]
      /\ loc' = [loc EXCEPT ![t] = u]
      /\ chunks' = Allocate(chunks, i, N)
      /\ UNCHANGED extent_loc_map
  BY <1>0 DEF TryChunk, At, Goto, Inv, TypeOK
<1>2. /\ u \in Units /\ calcChunkIdxByOffset(u.offset) = i
      /\ BlocksOf(u) \cap chunks[i].data = {}
      /\ chunks' = [chunks EXCEPT ![i] = d]
  BY <1>0, <1>1, AllocatedUnit
<1>3. Counted(d) /\ d.data = chunks[i].data \cup BlocksOf(u)
  BY <1>1, <1>2, SetCounted DEF ChunksOK, SpaceInv, CountOK
<1> HIDE DEF d
<1>4. /\ chunks'[i] = d
      /\ \A j \in ChunkIds : j # i => chunks'[j] = chunks[j]
  BY <1>1, <1>2 DEF ChunksOK
<1>5. /\ pc'[t] \in HolderPCs /\ loc'[t] = u
      /\ \A s \in Threads : pc[s] \in HolderPCs => pc'[s] \in HolderPCs /\ loc'[s] = loc[s]
  BY <1>1 DEF Inv, TypeOK, HolderPCs
<1>6. \A j, b : Owned(j, b) => Owned(j, b)'
  BY <1>1, <1>5 DEF Owned, Has
<1>7. \A b \in BlocksOf(u) : Owned(i, b)'
  BY <1>2, <1>5 DEF Owned, Has
<1>8. OwnedOK'
  <2> SUFFICES ASSUME NEW j \in ChunkIds, NEW b \in chunks'[j].data
               PROVE  Owned(j, b)'
    BY DEF OwnedOK
  <2>1. CASE j = i
    <3>1. b \in chunks[i].data \/ b \in BlocksOf(u)
      BY <2>1, <1>3, <1>4
    <3> QED
      BY <3>1, <2>1, <1>1, <1>6, <1>7 DEF SpaceInv, OwnedOK
  <2>2. CASE j # i
    BY <2>2, <1>4, <1>6 DEF SpaceInv, OwnedOK
  <2> QED
    BY <2>1, <2>2
<1>9. CountOK'
  BY <1>3, <1>4 DEF SpaceInv, CountOK
<1> QED
  BY <1>8, <1>9 DEF SpaceInv

(* Both ways out of a call that give a held location back to the bitmap.   *)
LEMMA FreeSpaceKept ==
  ASSUME Inv, SpaceInv, NEW t \in Threads, pc[t] \in HolderPCs,
         chunks' = Free(chunks, loc[t]),
         pc' = [pc EXCEPT ![t] = "idle"], loc' = [loc EXCEPT ![t] = None],
         UNCHANGED extent_loc_map
  PROVE  SpaceInv'
<1> DEFINE u == loc[t]
           i == calcChunkIdxByOffset(u.offset)
           d == unsetBlock(chunks[i], BeginOf(u), EndOf(u))
<1>1. u \in Units /\ IsSet(chunks, u) /\ ChunksOK(chunks)
  BY DEF Inv, ThreadOK, SetOK
<1>2. i \in ChunkIds /\ BlocksOf(u) \subseteq chunks[i].data
  BY <1>1, UnitFacts DEF IsSet
<1>3. Counted(d) /\ d.data = chunks[i].data \ BlocksOf(u)
  BY <1>1, <1>2, UnsetCounted DEF ChunksOK, SpaceInv, CountOK
<1>4. /\ chunks'[i] = d
      /\ \A j \in ChunkIds : j # i => chunks'[j] = chunks[j]
  BY <1>1, <1>2 DEF ChunksOK, Free
<1> HIDE DEF d
<1>5. \A s \in Threads : s # t /\ pc[s] \in HolderPCs =>
                            pc'[s] \in HolderPCs /\ loc'[s] = loc[s]
  BY DEF Inv, TypeOK
<1>6. ASSUME NEW j, NEW b, Owned(j, b), ~ Has(u, j, b)
      PROVE  Owned(j, b)'
  BY <1>5, <1>6 DEF Owned, Has
<1>7. OwnedOK'
  <2> SUFFICES ASSUME NEW j \in ChunkIds, NEW b \in chunks'[j].data
               PROVE  Owned(j, b)'
    BY DEF OwnedOK
  <2>1. b \in chunks[j].data /\ ~ Has(u, j, b)
    BY <1>2, <1>3, <1>4 DEF Has
  <2> QED
    BY <2>1, <1>6 DEF SpaceInv, OwnedOK
<1>8. CountOK'
  BY <1>3, <1>4 DEF SpaceInv, CountOK
<1> QED
  BY <1>7, <1>8 DEF SpaceInv

(* While the recovery scan runs, what it has yet to mark has clear bits.   *)
LEMMA TodoClear ==
  ASSUME Inv, OwnedOK, status = "loading", NEW e \in todo
  PROVE  /\ rocks[e] \in Units
         /\ BlocksOf(rocks[e]) \cap chunks[calcChunkIdxByOffset(rocks[e].offset)].data = {}
<1> DEFINE u == rocks[e]
           i == calcChunkIdxByOffset(u.offset)
<1>1. e \in Extents /\ extent_loc_map[e] = None /\ u # None /\ u \in Units
  BY DEF Inv, TypeOK, StoreOK, UnitsOK
<1>2. i \in ChunkIds
  BY <1>1, UnitFacts
<1>3. \A t \in Threads : pc[t] \notin HolderPCs
  <2>1. \A t \in Threads : pc[t] = "idle"
    BY DEF Inv, ThreadOK
  <2> QED
    BY <2>1 DEF HolderPCs
<1>4. ASSUME NEW b \in BlocksOf(u), b \in chunks[i].data  PROVE FALSE
  <2>1. Owned(i, b)
    BY <1>2, <1>4 DEF OwnedOK
  <2>2. PICK f \in Extents : extent_loc_map[f] # None /\ Has(extent_loc_map[f], i, b)
    BY <2>1, <1>3 DEF Owned
  <2>3. f # e /\ rocks[f] = extent_loc_map[f]
    BY <2>2, <1>1 DEF Inv, StoreOK
  <2>4. Sep(u, rocks[f])
    BY <2>2, <2>3, <1>1 DEF Inv, SepOK
  <2> QED
    BY <2>2, <2>3, <2>4, <1>4 DEF Sep, Has
<1> QED
  BY <1>1, <1>4

LEMMA LoadExtentSpace ==
  ASSUME Inv, SpaceInv, NEW e \in Extents, LoadExtent(e)
  PROVE  SpaceInv'
<1>0. PICK u, i : u = rocks[e] /\ i = calcChunkIdxByOffset(u.offset)
  OBVIOUS
<1> DEFINE d == setBlock(chunks[i], BeginOf(u), EndOf(u))
<1>1. /\ status = "loading" /\ e \in todo /\ ChunksOK(chunks)
      /\ extent_loc_map' = [extent_loc_map EXCEPT ![e] = u]
      /\ chunks' = Mark(chunks, u)
      /\ extent_loc_map[e] = None
      /\ UNCHANGED <<pc, loc>>
  BY <1>0 DEF LoadExtent, Inv, StoreOK
<1>2. u \in Units /\ BlocksOf(u) \cap chunks[i].data = {}
  BY <1>0, <1>1, TodoClear DEF SpaceInv
<1>3. i \in ChunkIds /\ u # None
  BY <1>0, <1>2, UnitFacts
<1>4. Counted(d) /\ d.data = chunks[i].data \cup BlocksOf(u)
  BY <1>1, <1>2, <1>3, SetCounted DEF ChunksOK, SpaceInv, CountOK
<1>5. /\ chunks'[i] = d
      /\ \A j \in ChunkIds : j # i => chunks'[j] = chunks[j]
  BY <1>0, <1>1, <1>3 DEF ChunksOK, Mark
<1> HIDE DEF d
<1>6. /\ extent_loc_map'[e] = u
      /\ \A f \in Extents : extent_loc_map[f] # None =>
                               extent_loc_map'[f] = extent_loc_map[f]
  BY <1>1 DEF Inv, TypeOK
<1>7. \A j, b : Owned(j, b) => Owned(j, b)'
  BY <1>1, <1>6 DEF Owned, Has
<1>8. \A b \in BlocksOf(u) : Owned(i, b)'
  BY <1>0, <1>3, <1>6 DEF Owned, Has
<1>9. OwnedOK'
  <2> SUFFICES ASSUME NEW j \in ChunkIds, NEW b \in chunks'[j].data
               PROVE  Owned(j, b)'
    BY DEF OwnedOK
  <2>1. CASE j = i
    <3>1. b \in chunks[i].data \/ b \in BlocksOf(u)
      BY <2>1, <1>4, <1>5
    <3> QED
      BY <3>1, <2>1, <1>3, <1>7, <1>8 DEF SpaceInv, OwnedOK
  <2>2. CASE j # i
    BY <2>2, <1>5, <1>7 DEF SpaceInv, OwnedOK
  <2> QED
    BY <2>1, <2>2
<1>10. CountOK'
  BY <1>4, <1>5 DEF SpaceInv, CountOK
<1> QED
  BY <1>9, <1>10 DEF SpaceInv

LEMMA InitSpace ==
  ASSUME NEW i \in ChunkIds
  PROVE  InitChunks[i].data = {} /\ Counted(InitChunks[i])
<1>1. /\ InitChunks[i].data = {}
      /\ InitChunks[i].num_free_blocks = InitChunks[i].num_blocks
  BY DEF InitChunks, NewChunk
<1>2. InitChunks[i].num_blocks \in Nat
  BY InitChunksOK DEF ChunksOK, Chunk
<1> QED
  BY <1>1, <1>2, FS_EmptySet DEF Counted

-----------------------------------------------------------------------------
(* The space theorems.                                                     *)

(* Through any interleaving, any failed store and any crash, no bit is set *)
(* without an owner and the counts are exact.                              *)
THEOREM SpaceInvariance == Spec => []SpaceInv
<1>1. Init => SpaceInv
  BY InitSpace DEF Init, SpaceInv, OwnedOK, CountOK
<1>2. Inv /\ SpaceInv /\ [Next]_vars => SpaceInv'
  <2> SUFFICES ASSUME Inv, SpaceInv, [Next]_vars  PROVE SpaceInv'
    OBVIOUS
  <2>1. ASSUME NEW t \in Threads,
               \/ \E e \in Extents, a \in BOOLEAN : Query(t, e, a)
               \/ LockExtent(t) \/ Recheck(t) \/ SkipChunk(t) \/ Persist(t)
               \/ PersistFails(t) \/ IoDone(t)
               \/ \E e \in Extents : Reclaim(t, e)
               \/ ReclaimLock(t) \/ ReclaimRecheck(t) \/ DeleteKey(t) \/ DeleteFails(t)
        PROVE  SpaceInv'
    <3>1. UNCHANGED <<chunks, extent_loc_map>>
      BY <2>1 DEF Query, LockExtent, Recheck, SkipChunk, Persist, PersistFails, IoDone,
                  Reclaim, ReclaimLock, ReclaimRecheck, DeleteKey, DeleteFails, shared
    <3>2. pc[t] \in HolderPCs => pc'[t] \in HolderPCs /\ loc'[t] = loc[t]
      BY <2>1 DEF Query, LockExtent, Recheck, SkipChunk, Persist, PersistFails, IoDone,
                  Reclaim, ReclaimLock, ReclaimRecheck, DeleteKey, DeleteFails,
                  At, Goto, HolderPCs, Inv, TypeOK
    <3>3. \A s \in Threads : s # t => pc'[s] = pc[s] /\ loc'[s] = loc[s]
      BY <2>1 DEF Query, LockExtent, Recheck, SkipChunk, Persist, PersistFails, IoDone,
                  Reclaim, ReclaimLock, ReclaimRecheck, DeleteKey, DeleteFails,
                  Begin, Return, Goto, Inv, TypeOK
    <3> QED
      BY <3>1, <3>2, <3>3, QuietOwned
  <2>2. ASSUME NEW t \in Threads, UndoAllocate(t) \/ FreeSpace(t)
        PROVE  SpaceInv'
    <3>1. /\ pc[t] \in HolderPCs
          /\ chunks' = Free(chunks, loc[t])
          /\ pc' = [pc EXCEPT ![t] = "idle"] /\ loc' = [loc EXCEPT ![t] = None]
          /\ UNCHANGED extent_loc_map
      BY <2>2 DEF UndoAllocate, FreeSpace, At, Return, HolderPCs
    <3> QED
      BY <3>1, FreeSpaceKept
  <2>3. ASSUME LoadDone \/ UNCHANGED vars  PROVE SpaceInv'
    BY <2>3, QuietOwned DEF LoadDone, shared, vars
  <2>4. ASSUME CrashRestart  PROVE SpaceInv'
    <3>1. chunks' = InitChunks
      BY <2>4 DEF CrashRestart, Volatile
    <3> QED
      BY <3>1, InitSpace DEF SpaceInv, OwnedOK, CountOK
  <2> QED
    BY <2>1, <2>2, <2>3, <2>4, AddExtentSpace, RemoveExtentSpace, TryChunkSpace,
       LoadExtentSpace DEF Next, QueryStep, ReclaimStep
<1> QED
  BY <1>1, <1>2, Invariance, PTL DEF Spec

(* Bitmap, free counts and locations agree at all times: a failed store, a *)
(* reclaim or a crash between two steps leaks no block and frees none that *)
(* is in use, and a restart marks only clear bits (the assertion of        *)
(* Chunk::setBlock).                                                       *)
THEOREM SpaceExact == Spec => []SpaceAccounted
<1>1. Inv /\ SpaceInv => SpaceAccounted
  <2> SUFFICES ASSUME Inv, SpaceInv  PROVE SpaceAccounted
    OBVIOUS
  <2>1. BlocksOwned
    <3> SUFFICES ASSUME NEW i \in ChunkIds
                 PROVE  chunks[i].data =
                          UNION {BlocksOf(u) : u \in
                                   {v \in Held : calcChunkIdxByOffset(v.offset) = i}}
      BY DEF BlocksOwned
    <3>1. ASSUME NEW b \in chunks[i].data
          PROVE  \E u \in Held : calcChunkIdxByOffset(u.offset) = i /\ b \in BlocksOf(u)
      BY DEF SpaceInv, OwnedOK, Owned, Has, Held
    <3>2. ASSUME NEW u \in Held, calcChunkIdxByOffset(u.offset) = i
          PROVE  BlocksOf(u) \subseteq chunks[i].data
      BY <3>2 DEF Held, Inv, SetOK, IsSet
    <3> QED
      BY <3>1, <3>2
  <2>2. FreeCountExact
    BY DEF FreeCountExact, SpaceInv, CountOK, Counted
  <2>3. MarkFindsClearBits
    BY TodoClear DEF MarkFindsClearBits, SpaceInv
  <2> QED
    BY <2>1, <2>2, <2>3 DEF SpaceAccounted
<1> QED
  BY <1>1, Invariance, SpaceInvariance, PTL

-----------------------------------------------------------------------------
(* A running server, from its first start on, only has units at multiples  *)
(* of N in its bitmap, and no chunk has a free slot below the place where  *)
(* its search starts.                                                      *)

Slot(b) == b .. (b + N - 1)

SlotsOK(c) ==
  /\ c.last_free_bit % N = 0
  /\ c.data \subseteq 0 .. (c.num_blocks - 1)
  /\ \A b \in Nat : b % N = 0 /\ b < c.last_free_bit => Slot(b) \cap c.data # {}

Aligned(u) == BeginOf(u) % N = 0

RunningInv ==
  /\ \A i \in ChunkIds : SlotsOK(chunks[i])
  /\ \A e \in Extents : extent_loc_map[e] # None => Aligned(extent_loc_map[e])
  /\ \A t \in Threads : pc[t] \in HolderPCs => Aligned(loc[t])
  /\ todo = {}

(* Multiples of k.                                                         *)
LEMMA Multiple ==
  ASSUME NEW k \in Nat \ {0}, NEW a \in Int
  PROVE  a % k = 0 <=> \E q \in Int : a = k * q
<1>1. a \div k \in Int /\ a % k \in 0 .. (k - 1) /\ a = k * (a \div k) + (a % k)
  OBVIOUS
<1>2. ASSUME a % k = 0  PROVE \E q \in Int : a = k * q
  <2>1. a = k * (a \div k)
    BY <1>1, <1>2
  <2> QED
    BY <2>1, <1>1
<1>3. ASSUME NEW q \in Int, a = k * q  PROVE a % k = 0
  <2> DEFINE d == a \div k
             m == a % k
  <2> HIDE DEF d, m
  <2>1. d \in Int /\ m \in 0 .. (k - 1) /\ a = k * d + m
    BY <1>1 DEF d, m
  <2>2. k * (q - d) = m /\ q - d \in Int
    BY <2>1, <1>3
  <2>3. ~ (q - d >= 1)
    <3> SUFFICES ASSUME q - d >= 1  PROVE FALSE
      OBVIOUS
    <3>1. k * (q - d) >= k
      BY <2>2
    <3> QED
      BY <3>1, <2>1, <2>2
  <2>4. ~ (q - d <= -1)
    <3> SUFFICES ASSUME q - d <= -1  PROVE FALSE
      OBVIOUS
    <3>1. k * (q - d) <= -k
      BY <2>2
    <3> QED
      BY <3>1, <2>1, <2>2
  <2>5. q - d = 0
    BY <2>2, <2>3, <2>4
  <2>6. m = 0
    BY <2>2, <2>5
  <2> QED
    BY <2>6 DEF m
<1> QED
  BY <1>2, <1>3

LEMMA Multiples ==
  ASSUME NEW a \in Int, NEW b \in Int, a % N = 0, b % N = 0
  PROVE  (a - b) % N = 0 /\ (a + N) % N = 0 /\ (a < b => a + N <= b)
<1>1. N \in Nat \ {0}
  BY NType
<1>2. PICK p \in Int : a = N * p
  BY <1>1, Multiple
<1>3. PICK q \in Int : b = N * q
  BY <1>1, Multiple
<1>4. (a - b) % N = 0
  <2>1. a - b = N * (p - q) /\ p - q \in Int /\ a - b \in Int
    BY <1>1, <1>2, <1>3
  <2> QED
    BY <2>1, <1>1, Multiple
<1>5. (a + N) % N = 0
  <2>1. a + N = N * (p + 1) /\ p + 1 \in Int /\ a + N \in Int
    BY <1>1, <1>2
  <2> QED
    BY <2>1, <1>1, Multiple
<1>6. ASSUME a < b  PROVE a + N <= b
  <2>1. ASSUME q - p <= 0  PROVE FALSE
    <3>1. N * (q - p) <= 0
      BY <1>1, <2>1
    <3> QED
      BY <3>1, <1>1, <1>2, <1>3, <1>6
  <2>2. N * ((q - p) - 1) >= 0
    BY <2>1, <1>1
  <2> QED
    BY <2>2, <1>1, <1>2, <1>3
<1> QED
  BY <1>4, <1>5, <1>6

(* A place of the search from a multiple of N is a multiple of N.          *)
LEMMA MultipleAhead ==
  ASSUME NEW a \in Int, NEW b \in Int, a % N = 0, (b - a) % N = 0
  PROVE  b % N = 0
<1>1. N \in Nat \ {0} /\ b - a \in Int
  BY NType
<1>2. PICK p \in Int : a = N * p
  BY <1>1, Multiple
<1>3. PICK q \in Int : b - a = N * q
  BY <1>1, Multiple
<1>4. b = N * (p + q) /\ p + q \in Int
  BY <1>1, <1>2, <1>3
<1> QED
  BY <1>1, <1>4, Multiple

(* Giving a slot out leaves none free behind the search start.             *)
LEMMA SetSlots ==
  ASSUME NEW c \in Chunk, SlotsOK(c), CanAllocate(c, N),
         c.num_blocks <= MaxBlocksPerChunk
  PROVE  LET b == Place(c, N)
         IN  b % N = 0 /\ SlotsOK(setBlock(c, b, b + N))
<1>0. PICK b : b = Place(c, N)
  OBVIOUS
<1> DEFINE d == setBlock(c, b, b + N)
<1>1. /\ N \in Nat \ {0} /\ c.last_free_bit \in Nat /\ c.num_blocks \in Nat
      /\ c.last_free_bit % N = 0 /\ c.data \subseteq 0 .. (c.num_blocks - 1)
  BY NType DEF Chunk, SlotsOK
<1>2. /\ b \in Nat /\ c.last_free_bit <= b /\ b + N <= c.num_blocks
      /\ (b - c.last_free_bit) % N = 0
      /\ \A x \in Places(c, N) : b <= x
  BY <1>0, <1>1, PlaceFirst DEF Places
<1>3. b % N = 0 /\ (b + N) % N = 0
  BY <1>1, <1>2, MultipleAhead, Multiples
<1>4. /\ d.data = c.data \cup Slot(b)
      /\ d.num_blocks = c.num_blocks /\ d.last_free_bit = b + N
  <2>1. b .. ((b + N) - 1) = Slot(b)
    BY <1>1, <1>2 DEF Slot
  <2> QED
    BY <2>1 DEF setBlock, Chunk
<1> HIDE DEF d
<1>5. d.data \subseteq 0 .. (d.num_blocks - 1)
  BY <1>1, <1>2, <1>4 DEF Slot
<1>6. ASSUME NEW x \in Nat, x % N = 0, x < b + N
      PROVE  Slot(x) \cap d.data # {}
  <2>1. CASE x < c.last_free_bit
    BY <2>1, <1>4, <1>6 DEF SlotsOK
  <2>2. CASE c.last_free_bit <= x /\ x < b
    <3>1. (x - c.last_free_bit) % N = 0
      BY <1>1, <1>6, Multiples
    <3>2. x \in c.last_free_bit .. (c.num_blocks - N)
      BY <2>2, <1>1, <1>2
    <3>3. x \notin Places(c, N)
      BY <2>2, <1>2
    <3>4. Slot(x) \cap c.data # {}
      BY <3>1, <3>2, <3>3 DEF Places, Slot
    <3> QED
      BY <3>4, <1>4
  <2>3. CASE b <= x
    <3>0. x \in Int /\ b \in Int
      BY <1>2
    <3>1. x = b
      <4>1. b < x => b + N <= x
        BY <3>0, <1>3, <1>6, Multiples
      <4> QED
        BY <4>1, <2>3, <1>1, <1>2, <1>6
    <3>2. b \in Slot(b)
      BY <1>1, <1>2 DEF Slot
    <3> QED
      BY <3>1, <3>2, <1>4
  <2> QED
    BY <2>1, <2>2, <2>3, <1>1, <1>2
<1>7. SlotsOK(d)
  BY <1>3, <1>4, <1>5, <1>6 DEF SlotsOK
<1> QED
  BY <1>0, <1>3, <1>7 DEF d

(* Giving a slot back moves the search start down to it.                   *)
LEMMA UnsetSlots ==
  ASSUME NEW c \in Chunk, SlotsOK(c), NEW u \in Units, Aligned(u)
  PROVE  SlotsOK(unsetBlock(c, BeginOf(u), EndOf(u)))
<1>0. PICK b : b = BeginOf(u)
  OBVIOUS
<1> DEFINE d == unsetBlock(c, BeginOf(u), EndOf(u))
<1>1. /\ N \in Nat \ {0} /\ c.last_free_bit \in Nat /\ c.num_blocks \in Nat
      /\ c.last_free_bit % N = 0 /\ c.data \subseteq 0 .. (c.num_blocks - 1)
      /\ b \in Nat /\ b % N = 0
  BY <1>0, NType, UnitFacts DEF Chunk, SlotsOK, Aligned
<1>2. /\ d.data = c.data \ Slot(b)
      /\ d.num_blocks = c.num_blocks
      /\ d.last_free_bit = IF b < c.last_free_bit THEN b ELSE c.last_free_bit
  <2>1. BeginOf(u) .. (EndOf(u) - 1) = Slot(b)
    BY <1>0, UnitBlocks DEF Slot, BlocksOf
  <2> QED
    BY <1>0, <2>1 DEF unsetBlock, Chunk
<1> HIDE DEF d
<1>3. ASSUME NEW x \in Nat, x % N = 0, x < d.last_free_bit
      PROVE  Slot(x) \cap d.data # {}
  <2>1. x < b /\ x < c.last_free_bit
    BY <1>1, <1>2, <1>3
  <2>2. x + N <= b
    <3>1. x \in Int /\ b \in Int
      BY <1>1
    <3> QED
      BY <3>1, <2>1, <1>1, <1>3, Multiples
  <2>3. Slot(x) \cap Slot(b) = {}
    BY <2>2, <1>1 DEF Slot
  <2>4. Slot(x) \cap c.data # {}
    BY <2>1, <1>3 DEF SlotsOK
  <2> QED
    BY <2>3, <2>4, <1>2
<1>4. d.last_free_bit % N = 0 /\ d.data \subseteq 0 .. (d.num_blocks - 1)
  BY <1>1, <1>2
<1>5. SlotsOK(d)
  BY <1>3, <1>4 DEF SlotsOK
<1> QED
  BY <1>5 DEF d

(* Where no slot is free below the search start, a free slot is found, and *)
(* the count that Allocate looks at first does not stand in the way.       *)
LEMMA SlotFound ==
  ASSUME NEW c \in Chunk, SlotsOK(c), Counted(c), FreeSlots(c, N) # {}
  PROVE  CanAllocate(c, N)
<1>1. /\ N \in Nat \ {0} /\ c.last_free_bit \in Nat /\ c.num_blocks \in Nat
      /\ c.last_free_bit % N = 0 /\ c.data \subseteq 0 .. (c.num_blocks - 1)
  BY NType DEF Chunk, SlotsOK
<1>2. PICK b : b \in 0 .. (c.num_blocks - N) /\ b % N = 0 /\ Slot(b) \cap c.data = {}
  BY DEF FreeSlots, Slot
<1>3. b \in Nat /\ b + N <= c.num_blocks
  BY <1>1, <1>2
<1>4. b \in Places(c, N)
  <2>1. c.last_free_bit <= b
    BY <1>1, <1>2, <1>3 DEF SlotsOK
  <2>2. (b - c.last_free_bit) % N = 0
    BY <1>1, <1>2, <1>3, Multiples
  <2> QED
    BY <2>1, <2>2, <1>1, <1>2, <1>3 DEF Places, Slot
<1>5. c.num_free_blocks >= N
  <2> DEFINE A == 0 .. (c.num_blocks - 1)
             B == Slot(b)
             D == c.data
  <2>1. IsFiniteSet(A) /\ Cardinality(A) = c.num_blocks
    <3>1. PICK n \in Int : n = c.num_blocks - 1 /\ ~ (0 > n) /\ n - 0 + 1 = c.num_blocks
      BY <1>1, <1>3
    <3>2. IsFiniteSet(0 .. n) /\ Cardinality(0 .. n) = IF 0 > n THEN 0 ELSE n - 0 + 1
      BY FS_Interval
    <3> QED
      BY <3>1, <3>2
  <2>2. IsFiniteSet(B) /\ Cardinality(B) = N
    <3>1. b \in Int /\ b + N - 1 \in Int /\ ~ (b > b + N - 1) /\ (b + N - 1) - b + 1 = N
      BY <1>1, <1>3
    <3> QED
      BY <3>1, FS_Interval DEF Slot
  <2>3. D \cup B \subseteq A /\ D \cap B = {}
    BY <1>1, <1>2, <1>3 DEF Slot
  <2>4. IsFiniteSet(D)
    BY DEF Counted
  <2> HIDE DEF A, B, D
  <2>5. Cardinality(D \cup B) = Cardinality(D) + N
    <3>1. Cardinality(D \cup B) = Cardinality(D) + Cardinality(B) - Cardinality(D \cap B)
      BY <2>2, <2>4, FS_Union
    <3>2. Cardinality(D \cap B) = 0 /\ Cardinality(D) \in Nat
      BY <2>3, <2>4, FS_EmptySet, FS_CardinalityType
    <3> QED
      BY <3>1, <3>2, <2>2, <1>1
  <2>6. Cardinality(D \cup B) <= Cardinality(A)
    BY <2>1, <2>3, FS_Subset
  <2>7. Cardinality(D) \in Nat /\ c.num_free_blocks = c.num_blocks - Cardinality(D)
    BY <2>4, FS_CardinalityType DEF Counted, D
  <2> QED
    BY <2>1, <2>5, <2>6, <2>7, <1>1
<1> QED
  BY <1>4, <1>5 DEF CanAllocate

(* A step that leaves the bitmap alone and brings no location in.          *)
LEMMA QuietRunning ==
  ASSUME RunningInv, UNCHANGED <<chunks, todo>>,
         \A e \in Extents : extent_loc_map'[e] # None =>
           \/ extent_loc_map'[e] = extent_loc_map[e]
           \/ \E s \in Threads : pc[s] \in HolderPCs /\ extent_loc_map'[e] = loc[s],
         \A s \in Threads : pc'[s] \in HolderPCs =>
           \/ pc[s] \in HolderPCs /\ loc'[s] = loc[s]
           \/ \E e \in Extents : extent_loc_map[e] # None /\ loc'[s] = extent_loc_map[e]
  PROVE  RunningInv'
<1>1. \A i \in ChunkIds : SlotsOK(chunks'[i])
  BY DEF RunningInv
<1>2. \A e \in Extents : extent_loc_map'[e] # None => Aligned(extent_loc_map'[e])
  BY DEF RunningInv
<1>3. \A s \in Threads : pc'[s] \in HolderPCs => Aligned(loc'[s])
  BY DEF RunningInv
<1>4. todo' = {}
  BY DEF RunningInv
<1> QED
  BY <1>1, <1>2, <1>3, <1>4 DEF RunningInv

LEMMA TryChunkRunning ==
  ASSUME Inv, RunningInv, NEW t \in Threads, TryChunk(t)
  PROVE  RunningInv'
<1>0. PICK i, u : i = chunk[t] /\ u = Allocated(chunks, i, N)
  OBVIOUS
<1>1. /\ ChunksOK(chunks) /\ i \in ChunkIds /\ CanAllocate(chunks[i], N)
      /\ pc' = [pc EXCEPT ![t] = "persist"]
      /\ loc' = [loc EXCEPT ![t] = u]
      /\ chunks' = Allocate(chunks, i, N)
      /\ UNCHANGED <<extent_loc_map, todo>>
  BY <1>0 DEF TryChunk, At, Goto, Inv, TypeOK, server
<1> DEFINE b == Place(chunks[i], N)
           d == setBlock(chunks[i], b, b + N)
<1>2. b % N = 0 /\ SlotsOK(d)
  BY <1>1, SetSlots DEF ChunksOK, RunningInv
<1>3. BeginOf(u) = b
  BY <1>0, <1>1, AllocatedUnit
<1>4. chunks' = [chunks EXCEPT ![i] = d]
  BY <1>1 DEF Allocate, ChunksOK
<1> HIDE DEF b, d
<1>5. \A j \in ChunkIds : SlotsOK(chunks'[j])
  BY <1>1, <1>2, <1>4 DEF RunningInv, ChunksOK
<1>6. \A s \in Threads : pc'[s] \in HolderPCs => Aligned(loc'[s])
  <2>1. Aligned(u)
    BY <1>2, <1>3 DEF Aligned
  <2>2. \A s \in Threads : loc'[s] = IF s = t THEN u ELSE loc[s]
    BY <1>1 DEF Inv, TypeOK
  <2>3. \A s \in Threads : s # t => pc'[s] = pc[s]
    BY <1>1 DEF Inv, TypeOK
  <2> QED
    BY <2>1, <2>2, <2>3 DEF RunningInv
<1> QED
  BY <1>1, <1>5, <1>6 DEF RunningInv

LEMMA FreeRunning ==
  ASSUME Inv, RunningInv, NEW t \in Threads, pc[t] \in HolderPCs,
         chunks' = Free(chunks, loc[t]),
         pc' = [pc EXCEPT ![t] = "idle"], loc' = [loc EXCEPT ![t] = None],
         UNCHANGED <<extent_loc_map, todo>>
  PROVE  RunningInv'
<1>0. PICK u, i : u = loc[t] /\ i = calcChunkIdxByOffset(u.offset)
  OBVIOUS
<1>1. u \in Units /\ i \in ChunkIds /\ ChunksOK(chunks) /\ Aligned(u)
  BY <1>0, UnitFacts DEF Inv, ThreadOK, RunningInv
<1> DEFINE d == unsetBlock(chunks[i], BeginOf(u), EndOf(u))
<1>2. SlotsOK(d)
  BY <1>1, UnsetSlots DEF ChunksOK, RunningInv
<1>3. chunks' = [chunks EXCEPT ![i] = d]
  BY <1>0, <1>1 DEF Free, ChunksOK
<1> HIDE DEF d
<1>4. \A j \in ChunkIds : SlotsOK(chunks'[j])
  BY <1>1, <1>2, <1>3 DEF RunningInv, ChunksOK
<1>5. \A s \in Threads : pc'[s] \in HolderPCs => pc[s] \in HolderPCs /\ loc'[s] = loc[s]
  BY DEF Inv, TypeOK, HolderPCs
<1>6. \A s \in Threads : pc'[s] \in HolderPCs => Aligned(loc'[s])
  BY <1>5 DEF RunningInv
<1> QED
  BY <1>4, <1>6 DEF RunningInv

(* One run of the process is a behaviour of the server.                    *)
LEMMA RunningIsSpec == SpecRunning => Spec
<1>1. [NextRunning]_vars => [Next]_vars
  BY DEF NextRunning, Next
<1> QED
  BY <1>1, PTL DEF Spec, SpecRunning

(* As long as the server has not been restarted, every unit is aligned and *)
(* no chunk has a free slot below its last_free_bit.                       *)
THEOREM RunningInvariance == SpecRunning => []RunningInv
<1>1. Init => RunningInv
  <2> SUFFICES ASSUME Init  PROVE RunningInv
    OBVIOUS
  <2>1. ASSUME NEW i \in ChunkIds  PROVE SlotsOK(chunks[i])
    <3>1. chunks[i].data = {} /\ chunks[i].last_free_bit = 0
      BY DEF Init, InitChunks, NewChunk
    <3>2. 0 % N = 0
      BY NType
    <3> QED
      BY <3>1, <3>2 DEF SlotsOK
  <2> QED
    BY <2>1 DEF Init, RunningInv, HolderPCs
<1>2. Inv /\ RunningInv /\ [NextRunning]_vars => RunningInv'
  <2> SUFFICES ASSUME Inv, RunningInv, [NextRunning]_vars  PROVE RunningInv'
    OBVIOUS
  <2>1. ASSUME NEW t \in Threads,
               \/ \E e \in Extents, a \in BOOLEAN : Query(t, e, a)
               \/ LockExtent(t) \/ Recheck(t) \/ SkipChunk(t) \/ Persist(t)
               \/ PersistFails(t) \/ IoDone(t)
               \/ \E e \in Extents : Reclaim(t, e)
               \/ ReclaimLock(t) \/ ReclaimRecheck(t) \/ DeleteKey(t) \/ DeleteFails(t)
        PROVE  RunningInv'
    <3>1. UNCHANGED <<chunks, extent_loc_map, todo>>
      BY <2>1 DEF Query, LockExtent, Recheck, SkipChunk, Persist, PersistFails, IoDone,
                  Reclaim, ReclaimLock, ReclaimRecheck, DeleteKey, DeleteFails, shared,
                  server
    <3>2. pc'[t] \in HolderPCs => pc[t] \in HolderPCs /\ loc'[t] = loc[t]
      BY <2>1 DEF Query, LockExtent, Recheck, SkipChunk, Persist, PersistFails, IoDone,
                  Reclaim, ReclaimLock, ReclaimRecheck, DeleteKey, DeleteFails,
                  At, Goto, Begin, Return, HolderPCs, Inv, TypeOK
    <3>3. \A s \in Threads : s # t => pc'[s] = pc[s] /\ loc'[s] = loc[s]
      BY <2>1 DEF Query, LockExtent, Recheck, SkipChunk, Persist, PersistFails, IoDone,
                  Reclaim, ReclaimLock, ReclaimRecheck, DeleteKey, DeleteFails,
                  Begin, Return, Goto, Inv, TypeOK
    <3> QED
      BY <3>1, <3>2, <3>3, QuietRunning
  <2>2. ASSUME NEW t \in Threads, UndoAllocate(t) \/ FreeSpace(t)
        PROVE  RunningInv'
    <3>1. /\ pc[t] \in HolderPCs
          /\ chunks' = Free(chunks, loc[t])
          /\ pc' = [pc EXCEPT ![t] = "idle"] /\ loc' = [loc EXCEPT ![t] = None]
          /\ UNCHANGED <<extent_loc_map, todo>>
      BY <2>2 DEF UndoAllocate, FreeSpace, At, Return, HolderPCs, server
    <3> QED
      BY <3>1, FreeRunning
  <2>3. ASSUME NEW t \in Threads, AddExtent(t)  PROVE RunningInv'
    <3>1. pc[t] \in HolderPCs /\ ext[t] \in Extents /\ UNCHANGED <<chunks, todo, loc>>
      BY <2>3 DEF AddExtent, At, Inv, ThreadOK, HolderPCs, server
    <3>2. \A e \in Extents : extent_loc_map'[e] # extent_loc_map[e] =>
                               extent_loc_map'[e] = loc[t]
      BY <2>3 DEF AddExtent, Inv, TypeOK
    <3>3. \A s \in Threads : pc'[s] \in HolderPCs => pc[s] \in HolderPCs
      BY <2>3 DEF AddExtent, Goto, Inv, TypeOK, HolderPCs
    <3> QED
      BY <3>1, <3>2, <3>3, QuietRunning
  <2>4. ASSUME NEW t \in Threads, RemoveExtent(t)  PROVE RunningInv'
    <3>1. /\ ext[t] \in Extents /\ UNCHANGED <<chunks, todo, loc>>
          /\ extent_loc_map[ext[t]] = loc[t] /\ loc[t] # None
      BY <2>4, UnitFacts DEF RemoveExtent, At, Inv, ThreadOK, server
    <3>2. \A e \in Extents : extent_loc_map'[e] # None =>
                               extent_loc_map'[e] = extent_loc_map[e]
      BY <2>4 DEF RemoveExtent, Inv, TypeOK
    <3>3. \A s \in Threads : pc'[s] \in HolderPCs => pc[s] \in HolderPCs \/ s = t
      BY <2>4 DEF RemoveExtent, Goto, Inv, TypeOK
    <3> QED
      BY <3>1, <3>2, <3>3, QuietRunning
  <2>5. ASSUME LoadDone \/ UNCHANGED vars  PROVE RunningInv'
    BY <2>5, QuietRunning DEF LoadDone, shared, vars
  <2> QED
    BY <2>1, <2>2, <2>3, <2>4, <2>5, TryChunkRunning
       DEF NextRunning, QueryStep, ReclaimStep
<1> QED
  BY <1>1, <1>2, RunningIsSpec, Invariance, PTL DEF SpecRunning

(* A server that was never restarted gives out every free slot it has:     *)
(* Chunk::Allocate does not report "no enough space" while there is one.   *)
THEOREM FreeSpaceFound == SpecRunning => []FreeSpaceReachable
<1>1. Inv /\ SpaceInv /\ RunningInv => FreeSpaceReachable
  BY SlotFound DEF FreeSpaceReachable, Inv, ChunksOK, SpaceInv, CountOK, RunningInv
<1> QED
  BY <1>1, RunningIsSpec, Invariance, SpaceInvariance, RunningInvariance, PTL

-----------------------------------------------------------------------------
(* A request and a reclaim of its extent that are under way at one time    *)
(* know of each other, and what any other I/O was given is what the map    *)
(* has.                                                                    *)

CrossInv ==
  /\ \A s, t \in Threads :
       pc[s] \in ReclaimPCs /\ pc[t] \in QueryPCs /\ ext[s] = ext[t] => t \in crossed
  /\ \A t \in Threads : pc[t] = "io" /\ t \notin crossed =>
       extent_loc_map[ext[t]] = loc[t] /\ loc[t] # None

(* Nobody changes what the other threads do, ...                           *)
Others(t) ==
  \A s \in Threads : s # t => pc'[s] = pc[s] /\ ext'[s] = ext[s] /\ loc'[s] = loc[s]

(* ... nor the place of an I/O that no reclaim overlaps.                   *)
LEMMA CrossStep ==
  ASSUME CrossInv, NEW t \in Threads, Others(t),
         \A s \in Threads : s # t /\ s \in crossed => s \in crossed',
         \A s \in Threads : s # t /\ pc'[t] \in ReclaimPCs /\ pc[s] \in QueryPCs
                              /\ ext'[t] = ext[s] => s \in crossed',
         \A s \in Threads : s # t /\ pc'[t] \in QueryPCs /\ pc[s] \in ReclaimPCs
                              /\ ext'[t] = ext[s] => t \in crossed',
         pc'[t] = "io" /\ t \notin crossed' =>
           extent_loc_map'[ext'[t]] = loc'[t] /\ loc'[t] # None,
         \A s \in Threads : s # t /\ pc[s] = "io" /\ s \notin crossed =>
           extent_loc_map'[ext[s]] = extent_loc_map[ext[s]]
  PROVE  CrossInv'
<1>0. QueryPCs \cap ReclaimPCs = {}
  BY DEF QueryPCs, ReclaimPCs
<1>1. ASSUME NEW r \in Threads, NEW s \in Threads,
             pc'[r] \in ReclaimPCs, pc'[s] \in QueryPCs, ext'[r] = ext'[s]
      PROVE  s \in crossed'
  <2>1. r # s
    BY <1>0, <1>1
  <2>2. CASE r = t
    BY <1>1, <2>1, <2>2 DEF Others
  <2>3. CASE s = t
    BY <1>1, <2>1, <2>3 DEF Others
  <2>4. CASE r # t /\ s # t
    BY <1>1, <2>4 DEF Others, CrossInv
  <2> QED
    BY <2>2, <2>3, <2>4
<1>2. ASSUME NEW s \in Threads, pc'[s] = "io", s \notin crossed'
      PROVE  extent_loc_map'[ext'[s]] = loc'[s] /\ loc'[s] # None
  BY <1>2 DEF Others, CrossInv
<1> QED
  BY <1>1, <1>2 DEF CrossInv

(* Through first writes, reclaims, failed stores and crashes, a reclaim    *)
(* reaches no I/O but those it overlaps.                                   *)
THEOREM CrossInvariance == Spec => []CrossInv
<1>1. Init => CrossInv
  BY DEF Init, CrossInv, QueryPCs, ReclaimPCs
<1>2. Inv /\ CrossInv /\ [Next]_vars => CrossInv'
  <2> SUFFICES ASSUME Inv, CrossInv, [Next]_vars  PROVE CrossInv'
    OBVIOUS
  <2>1. ASSUME NEW t \in Threads, NEW e \in Extents, NEW a \in BOOLEAN, Query(t, e, a)
        PROVE  CrossInv'
    <3>1. /\ UNCHANGED extent_loc_map
          /\ \A s \in Threads : s # t /\ s \in crossed => s \in crossed'
          /\ \A s \in Threads : ext[s] = e /\ pc[s] \in ReclaimPCs => t \in crossed'
      BY <2>1 DEF Query, shared
    <3>2. Others(t)
      BY <2>1 DEF Query, Begin, Return, Inv, TypeOK, Others
    <3>3. /\ pc'[t] \in {"io", "lock", "idle"}
          /\ pc'[t] # "idle" => ext'[t] = e
          /\ pc'[t] = "io" => extent_loc_map[e] = loc'[t] /\ loc'[t] # None
      BY <2>1 DEF Query, Begin, Return, Inv, TypeOK
    <3> QED
      BY <3>1, <3>2, <3>3, CrossStep DEF QueryPCs, ReclaimPCs
  <2>2. ASSUME NEW t \in Threads, NEW e \in Extents, Reclaim(t, e)
        PROVE  CrossInv'
    <3>1. /\ UNCHANGED extent_loc_map
          /\ crossed \subseteq crossed'
          /\ pc'[t] # "idle" =>
               \A s \in Threads : ext[s] = e /\ pc[s] \in QueryPCs => s \in crossed'
      BY <2>2 DEF Reclaim, Return, shared, Inv, TypeOK
    <3>2. Others(t)
      BY <2>2 DEF Reclaim, Begin, Return, Inv, TypeOK, Others
    <3>3. /\ pc'[t] \in {"rlock", "idle"}
          /\ pc'[t] # "idle" => ext'[t] = e
      BY <2>2 DEF Reclaim, Begin, Return, Inv, TypeOK
    <3> QED
      BY <3>1, <3>2, <3>3, CrossStep DEF QueryPCs, ReclaimPCs
  <2>3. ASSUME NEW t \in Threads,
               \/ LockExtent(t) \/ Recheck(t) \/ TryChunk(t) \/ SkipChunk(t)
               \/ Persist(t) \/ PersistFails(t) \/ UndoAllocate(t) \/ IoDone(t)
               \/ ReclaimLock(t) \/ ReclaimRecheck(t) \/ DeleteKey(t) \/ DeleteFails(t)
               \/ FreeSpace(t)
        PROVE  CrossInv'
    <3>1. UNCHANGED <<extent_loc_map, crossed>>
      BY <2>3 DEF LockExtent, Recheck, TryChunk, SkipChunk, Persist, PersistFails,
                  UndoAllocate, IoDone, ReclaimLock, ReclaimRecheck, DeleteKey,
                  DeleteFails, FreeSpace, shared
    <3>2. Others(t)
      BY <2>3 DEF LockExtent, Recheck, TryChunk, SkipChunk, Persist, PersistFails,
                  UndoAllocate, IoDone, ReclaimLock, ReclaimRecheck, DeleteKey,
                  DeleteFails, FreeSpace, Goto, Return, Inv, TypeOK, Others
    <3>3. /\ pc'[t] \in QueryPCs => pc[t] \in QueryPCs /\ ext'[t] = ext[t]
          /\ pc'[t] \in ReclaimPCs => pc[t] \in ReclaimPCs /\ ext'[t] = ext[t]
      BY <2>3 DEF LockExtent, Recheck, TryChunk, SkipChunk, Persist, PersistFails,
                  UndoAllocate, IoDone, ReclaimLock, ReclaimRecheck, DeleteKey,
                  DeleteFails, FreeSpace, Goto, Return, At, Inv, TypeOK, QueryPCs, ReclaimPCs
    <3>4. pc'[t] = "io" => extent_loc_map[ext[t]] = loc'[t] /\ loc'[t] # None
      BY <2>3 DEF LockExtent, Recheck, TryChunk, SkipChunk, Persist, PersistFails,
                  UndoAllocate, IoDone, ReclaimLock, ReclaimRecheck, DeleteKey,
                  DeleteFails, FreeSpace, Goto, Return, At, Inv, TypeOK
    <3>5. pc'[t] = "io" => ext'[t] = ext[t]
      BY <3>3 DEF QueryPCs
    <3>6. \A s \in Threads :
            /\ pc'[t] \in ReclaimPCs /\ pc[s] \in QueryPCs /\ ext'[t] = ext[s] => s \in crossed'
            /\ pc'[t] \in QueryPCs /\ pc[s] \in ReclaimPCs /\ ext'[t] = ext[s] => t \in crossed'
      BY <3>1, <3>3 DEF CrossInv
    <3> QED
      BY <3>1, <3>2, <3>4, <3>5, <3>6, CrossStep
  <2>4. ASSUME NEW t \in Threads, AddExtent(t)  PROVE CrossInv'
    <3>1. /\ pc[t] = "add" /\ ext[t] \in Extents /\ extent_loc_map[ext[t]] = None
          /\ loc[t] # None
          /\ UNCHANGED <<crossed, ext, loc>>
          /\ pc' = [pc EXCEPT ![t] = "io"]
          /\ extent_loc_map' = [extent_loc_map EXCEPT ![ext[t]] = loc[t]]
      BY <2>4, UnitFacts DEF AddExtent, Goto, At, Inv, ThreadOK, HolderPCs
    <3>2. /\ \A s \in Threads : s # t => pc'[s] = pc[s]
          /\ pc'[t] = "io" /\ extent_loc_map'[ext[t]] = loc[t]
          /\ \A e \in Extents : extent_loc_map[e] # None =>
               extent_loc_map'[e] = extent_loc_map[e]
      BY <3>1 DEF Inv, TypeOK
    <3>3. \A s \in Threads : pc[s] = "io" => ext[s] \in Extents
      BY DEF Inv, ThreadOK
    <3>4. \A s \in Threads : pc[s] = "io" /\ s \notin crossed =>
            extent_loc_map'[ext[s]] = extent_loc_map[ext[s]]
      BY <3>2, <3>3 DEF CrossInv
    <3>5. \A s \in Threads : pc[s] \in ReclaimPCs /\ ext'[t] = ext[s] => t \in crossed'
      BY <3>1 DEF CrossInv, QueryPCs
    <3>6. Others(t)
      BY <3>1, <3>2 DEF Others
    <3> QED
      BY <3>1, <3>2, <3>4, <3>5, <3>6, CrossStep DEF ReclaimPCs
  <2>5. ASSUME NEW t \in Threads, RemoveExtent(t)  PROVE CrossInv'
    <3>1. /\ pc[t] = "rremove"
          /\ UNCHANGED <<crossed, ext, loc>>
          /\ pc' = [pc EXCEPT ![t] = "rfree"]
          /\ extent_loc_map' = [extent_loc_map EXCEPT ![ext[t]] = None]
      BY <2>5 DEF RemoveExtent, Goto, At
    <3>2. /\ \A s \in Threads : s # t => pc'[s] = pc[s]
          /\ pc'[t] = "rfree"
          /\ \A e \in Extents : e # ext[t] => extent_loc_map'[e] = extent_loc_map[e]
      BY <3>1 DEF Inv, TypeOK
    <3>3. \A s \in Threads : pc[s] \in QueryPCs /\ ext[s] = ext[t] => s \in crossed
      BY <3>1 DEF CrossInv, ReclaimPCs
    <3>4. \A s \in Threads : pc[s] = "io" /\ s \notin crossed =>
            ext[s] \in Extents /\ ext[s] # ext[t]
      BY <3>3 DEF Inv, ThreadOK, QueryPCs
    <3>5. Others(t)
      BY <3>1, <3>2 DEF Others
    <3> QED
      BY <3>1, <3>2, <3>3, <3>4, <3>5, CrossStep DEF QueryPCs
  <2>6. ASSUME NEW e \in Extents, LoadExtent(e)  PROVE CrossInv'
    <3>1. UNCHANGED pc /\ \A s \in Threads : pc[s] = "idle"
      BY <2>6 DEF LoadExtent, Inv, ThreadOK
    <3> QED
      BY <3>1 DEF CrossInv, QueryPCs, ReclaimPCs
  <2>7. ASSUME CrashRestart  PROVE CrossInv'
    <3>1. \A s \in Threads : pc'[s] = "idle"
      BY <2>7 DEF CrashRestart, Volatile
    <3> QED
      BY <3>1 DEF CrossInv, QueryPCs, ReclaimPCs
  <2>8. ASSUME LoadDone \/ UNCHANGED vars  PROVE CrossInv'
    BY <2>8 DEF LoadDone, vars, shared, CrossInv
  <2> QED
    BY <2>1, <2>2, <2>3, <2>4, <2>5, <2>6, <2>7, <2>8
       DEF Next, QueryStep, ReclaimStep
<1> QED
  BY <1>1, <1>2, Invariance, PTL DEF Spec

(* The physical offset of a request, computed once and used outside of the *)
(* mutex, stays that of its extent through everything the server does but  *)
(* a reclaim of this extent that overlaps the request.                     *)
THEOREM IoStaysPut == Spec => []IoOnOwnExtent
<1>1. CrossInv => IoOnOwnExtent
  BY DEF CrossInv, IoOnOwnExtent
<1> QED
  BY <1>1, CrossInvariance, PTL

=============================================================================
