--------------------------- MODULE ExtentLocation ---------------------------
(***************************************************************************)
(* ExtentLocationMgr (extentserver/extent_location.{h,cpp}): the map from  *)
(* extent ids to places on the device, its copy in RocksDB, the bitmap of  *)
(* the device, and the request threads that use them.                      *)
(*                                                                         *)
(* A write looks its extent up and, when it has no place yet, takes the    *)
(* extent's mutex, looks again, allocates, stores the location in RocksDB  *)
(* and only then publishes it in the map.  Reclaim undoes this in the      *)
(* order RocksDB, map, bitmap.  Every step that takes a lock of its own    *)
(* (the map's lock, a chunk's mutex, RocksDB) is one action, so that the   *)
(* threads interleave where the code lets them.  The process may crash at  *)
(* any point; a restart rebuilds map and bitmap from RocksDB.              *)
(*                                                                         *)
(* Abstracted: an extent id is a number (its order is RocksDB's key        *)
(* order); a request keeps, of its physical offset, the location it was    *)
(* computed from.  RocksDB writes are synchronous (WriteOptions.sync) and  *)
(* either happen or fail without effect.                                   *)
(***************************************************************************)
EXTENDS BitmapAllocator

CONSTANTS
  Extents,     \* extent ids, numbered in RocksDB key order
  Threads,     \* request threads (bthreads) of the server
  ExtentSize,  \* extent_size_, as told by the extent manager's heartbeat
  None         \* no location, no owner

ASSUME LocationAssumption ==
  /\ Extents \subseteq Nat
  /\ ExtentSize \in Nat \ {0}
  /\ None \notin [offset : Nat, size : Nat]
  /\ None \notin Extents
  /\ None \notin Threads

(* Blocks per extent: the only size this manager asks for.                 *)
N == calcBlocksBySize(ExtentSize)

VARIABLES
  chunks,          \* the bitmap allocator's chunks
  rocks,           \* RocksDB: [Extents -> location or None]; survives a crash
  extent_loc_map,  \* the map in memory
  extent_lock,     \* owner of each extent's mutex, or None
  status,          \* "loading" (LoadExtents) or "up"
  todo,            \* keys the recovery scan has not reached
  crossed,         \* history: threads whose request overlapped a reclaim of
                   \* its extent
  pc,              \* where each thread is
  ext,             \* the extent its request is about
  loc,             \* the location it works with
  chunk,           \* next chunk its allocation tries ...
  left,            \* ... and how many it has still to try
  ret              \* the status its last call returned

vars == <<chunks, rocks, extent_loc_map, extent_lock, status, todo, crossed,
          pc, ext, loc, chunk, left, ret>>

shared  == <<chunks, rocks, extent_loc_map>>
scan    == <<chunk, left>>
server  == <<status, todo>>

Location == [offset : Nat, size : Nat]

(* In QueryLocation: waiting for the mutex, holding it, doing I/O; in      *)
(* ReclaimExtent the same.                                                 *)
QueryPCs   == {"lock", "recheck", "scan", "persist", "undo", "add", "io"}
ReclaimPCs == {"rlock", "rrecheck", "rdelete", "rremove", "rfree"}
LockedPCs  == {"recheck", "scan", "persist", "undo", "add",
               "rrecheck", "rdelete", "rremove", "rfree"}

(* The thread owns a location that the map does not show.                  *)
HolderPCs  == {"persist", "undo", "add", "rfree"}

TypeOK ==
  /\ chunks \in [ChunkIds -> Chunk]
  /\ rocks \in [Extents -> Location \cup {None}]
  /\ extent_loc_map \in [Extents -> Location \cup {None}]
  /\ extent_lock \in [Extents -> Threads \cup {None}]
  /\ status \in {"loading", "up"}
  /\ todo \subseteq Extents
  /\ crossed \subseteq Threads
  /\ pc \in [Threads -> QueryPCs \cup ReclaimPCs \cup {"idle"}]
  /\ ext \in [Threads -> Extents \cup {None}]
  /\ loc \in [Threads -> Location \cup {None}]
  /\ chunk \in [Threads -> ChunkIds]
  /\ left \in [Threads -> 0 .. NumChunks]
  /\ ret \in [Threads -> {"none", "ok", "not_found", "no_space", "store_error"}]

-----------------------------------------------------------------------------
(* A freshly started process: Init, then LoadExtents over what RocksDB has. *)

Volatile(stored) ==
  /\ chunks' = InitChunks
  /\ extent_loc_map' = [e \in Extents |-> None]
  /\ extent_lock' = [e \in Extents |-> None]
  /\ status' = "loading"
  /\ todo' = stored
  /\ crossed' = {}
  /\ pc' = [t \in Threads |-> "idle"]
  /\ ext' = [t \in Threads |-> None]
  /\ loc' = [t \in Threads |-> None]
  /\ chunk' = [t \in Threads |-> 0]
  /\ left' = [t \in Threads |-> 0]
  /\ ret' = [t \in Threads |-> "none"]

Init ==
  /\ chunks = InitChunks
  /\ rocks = [e \in Extents |-> None]
  /\ extent_loc_map = [e \in Extents |-> None]
  /\ extent_lock = [e \in Extents |-> None]
  /\ status = "loading"
  /\ todo = {}
  /\ crossed = {}
  /\ pc = [t \in Threads |-> "idle"]
  /\ ext = [t \in Threads |-> None]
  /\ loc = [t \in Threads |-> None]
  /\ chunk = [t \in Threads |-> 0]
  /\ left = [t \in Threads |-> 0]
  /\ ret = [t \in Threads |-> "none"]

(* The process dies and is started again; its RPCs are gone.               *)
CrashRestart ==
  /\ Volatile({e \in Extents : rocks[e] # None})
  /\ UNCHANGED rocks

(* Mutant: the scan fills the map and forgets the bitmap.                  *)
LoadExtentUnmarked(e) ==
  /\ status = "loading"
  /\ e \in todo
  /\ \A f \in todo : e <= f
  /\ todo' = todo \ {e}
  /\ extent_loc_map' = [extent_loc_map EXCEPT ![e] = rocks[e]]
  /\ UNCHANGED <<chunks, rocks, extent_lock, status, crossed, pc, ext, loc, scan, ret>>

(* One round of LoadExtents' loop: the next key goes to the map (insert)   *)
(* and to the bitmap (Mark).                                               *)
LoadExtent(e) ==
  /\ status = "loading"
  /\ e \in todo
  /\ \A f \in todo : e <= f
  /\ todo' = todo \ {e}
  /\ extent_loc_map' = [extent_loc_map EXCEPT ![e] = rocks[e]]
  /\ chunks' = Mark(chunks, rocks[e])
  /\ UNCHANGED <<rocks, extent_lock, status, crossed, pc, ext, loc, scan, ret>>

LoadDone ==
  /\ status = "loading"
  /\ todo = {}
  /\ status' = "up"
  /\ UNCHANGED <<shared, extent_lock, todo, crossed, pc, ext, loc, scan, ret>>

-----------------------------------------------------------------------------
(* Helpers of the thread steps.                                            *)

Goto(t, label) == pc' = [pc EXCEPT ![t] = label]

(* The call returns and its locals go out of scope.                        *)
Return(t, s) == /\ pc' = [pc EXCEPT ![t] = "idle"]
                /\ ret' = [ret EXCEPT ![t] = s]
                /\ ext' = [ext EXCEPT ![t] = None]
                /\ loc' = [loc EXCEPT ![t] = None]
                /\ chunk' = [chunk EXCEPT ![t] = 0]
                /\ left' = [left EXCEPT ![t] = 0]

(* A call about extent e enters its first locked region.                   *)
Begin(t, e, l, label) == /\ pc' = [pc EXCEPT ![t] = label]
                         /\ ret' = [ret EXCEPT ![t] = "none"]
                         /\ ext' = [ext EXCEPT ![t] = e]
                         /\ loc' = [loc EXCEPT ![t] = l]
                         /\ UNCHANGED scan

Acquire(t) == /\ extent_lock[ext[t]] = None
              /\ extent_lock' = [extent_lock EXCEPT ![ext[t]] = t]

Release(t) == extent_lock' = [extent_lock EXCEPT ![ext[t]] = None]

At(t, label) == /\ status = "up"
                /\ pc[t] = label

-----------------------------------------------------------------------------
(* QueryLocation.                                                          *)

(* The first look into the map, for a request that may allocate (a write)  *)
(* or may not (a read, a delete, a scrub).                                 *)
Query(t, e, alloc_if_not_exists) ==
  /\ At(t, "idle")
  /\ \/ /\ extent_loc_map[e] # None
        /\ Begin(t, e, extent_loc_map[e], "io")
     \/ /\ extent_loc_map[e] = None
        /\ ~alloc_if_not_exists
        /\ Return(t, "not_found")
     \/ /\ extent_loc_map[e] = None
        /\ alloc_if_not_exists
        /\ Begin(t, e, None, "lock")
  /\ crossed' = IF \E s \in Threads : ext[s] = e /\ pc[s] \in ReclaimPCs
                  THEN crossed \cup {t} ELSE crossed \ {t}
  /\ UNCHANGED <<shared, extent_lock, server>>

LockExtent(t) ==
  /\ At(t, "lock")
  /\ Acquire(t)
  /\ Goto(t, "recheck")
  /\ UNCHANGED <<shared, server, crossed, ext, loc, scan, ret>>

(* Mutant of Recheck: the first look is trusted.                           *)
RecheckSkipped(t) ==
  /\ At(t, "recheck")
  /\ \E i \in ChunkIds : chunk' = [chunk EXCEPT ![t] = i]
  /\ left' = [left EXCEPT ![t] = NumChunks]
  /\ Goto(t, "scan")
  /\ UNCHANGED <<shared, extent_lock, server, crossed, ext, loc, ret>>

(* Under the mutex the map is looked at again; when there is still nothing *)
(* the allocation starts at a random chunk.                                *)
Recheck(t) ==
  /\ At(t, "recheck")
  /\ \/ /\ extent_loc_map[ext[t]] # None
        /\ loc' = [loc EXCEPT ![t] = extent_loc_map[ext[t]]]
        /\ Release(t)
        /\ Goto(t, "io")
        /\ UNCHANGED scan
     \/ /\ extent_loc_map[ext[t]] = None
        /\ \E i \in ChunkIds : chunk' = [chunk EXCEPT ![t] = i]
        /\ left' = [left EXCEPT ![t] = NumChunks]
        /\ Goto(t, "scan")
        /\ UNCHANGED <<loc, extent_lock>>
  /\ UNCHANGED <<shared, server, crossed, ext, ret>>

(* BitmapAllocator::Allocate's loop, one chunk (and one chunk mutex) a     *)
(* time, in round-robin order.                                             *)
TryChunk(t) ==
  /\ At(t, "scan")
  /\ CanAllocate(chunks[chunk[t]], N)
  /\ chunks' = Allocate(chunks, chunk[t], N)
  /\ loc' = [loc EXCEPT ![t] = Allocated(chunks, chunk[t], N)]
  /\ Goto(t, "persist")
  /\ UNCHANGED <<rocks, extent_loc_map, extent_lock, server, crossed, ext,
                 scan, ret>>

(* Mutant of SkipChunk: the round-robin index does not wrap.               *)
SkipChunkNoWrap(t) ==
  /\ At(t, "scan")
  /\ ~CanAllocate(chunks[chunk[t]], N)
  /\ \/ /\ left[t] > 1
        /\ left' = [left EXCEPT ![t] = @ - 1]
        /\ chunk' = [chunk EXCEPT ![t] = @ + 1]
        /\ UNCHANGED <<pc, ret, ext, loc, extent_lock>>
     \/ /\ left[t] = 1
        /\ Return(t, "no_space")
        /\ Release(t)
  /\ UNCHANGED <<shared, server, crossed>>

SkipChunk(t) ==
  /\ At(t, "scan")
  /\ ~CanAllocate(chunks[chunk[t]], N)
  /\ \/ /\ left[t] > 1
        /\ left' = [left EXCEPT ![t] = @ - 1]
        /\ chunk' = [chunk EXCEPT ![t] = (@ + 1) % NumChunks]
        /\ UNCHANGED <<pc, ret, ext, loc, extent_lock>>
     \/ /\ left[t] = 1
        /\ Return(t, "no_space")
        /\ Release(t)
  /\ UNCHANGED <<shared, server, crossed>>

(* persistExtent: RocksDB first ...                                        *)
Persist(t) ==
  /\ At(t, "persist")
  /\ rocks' = [rocks EXCEPT ![ext[t]] = loc[t]]
  /\ Goto(t, "add")
  /\ UNCHANGED <<chunks, extent_loc_map, extent_lock, server, crossed, ext,
                 loc, scan, ret>>

PersistFails(t) ==
  /\ At(t, "persist")
  /\ Goto(t, "undo")
  /\ UNCHANGED <<shared, extent_lock, server, crossed, ext, loc, scan, ret>>

(* ... then addExtent, which like std::map::insert keeps an entry that is  *)
(* there already.                                                          *)
AddExtent(t) ==
  /\ At(t, "add")
  /\ extent_loc_map' = [extent_loc_map EXCEPT ![ext[t]] =
                          IF @ = None THEN loc[t] ELSE @]
  /\ Release(t)
  /\ Goto(t, "io")
  /\ UNCHANGED <<chunks, rocks, server, crossed, ext, loc, scan, ret>>

(* Mutant of UndoAllocate: the space is not given back.                    *)
UndoAllocateLeaks(t) ==
  /\ At(t, "undo")
  /\ Release(t)
  /\ Return(t, "store_error")
  /\ UNCHANGED <<shared, server, crossed>>

(* The failed store is undone: the space goes back to the bitmap.          *)
UndoAllocate(t) ==
  /\ At(t, "undo")
  /\ chunks' = Free(chunks, loc[t])
  /\ Release(t)
  /\ Return(t, "store_error")
  /\ UNCHANGED <<rocks, extent_loc_map, server, crossed>>

(* The request's I/O at the physical offset completes.                     *)
IoDone(t) ==
  /\ At(t, "io")
  /\ Return(t, "ok")
  /\ UNCHANGED <<shared, extent_lock, server, crossed>>

-----------------------------------------------------------------------------
(* ReclaimExtent.                                                          *)

Reclaim(t, e) ==
  /\ At(t, "idle")
  /\ \/ /\ extent_loc_map[e] = None
        /\ Return(t, "ok")
        /\ UNCHANGED crossed
     \/ /\ extent_loc_map[e] # None
        /\ Begin(t, e, None, "rlock")
        /\ crossed' = crossed \cup {s \in Threads : ext[s] = e /\ pc[s] \in QueryPCs}
  /\ UNCHANGED <<shared, extent_lock, server>>

ReclaimLock(t) ==
  /\ At(t, "rlock")
  /\ Acquire(t)
  /\ Goto(t, "rrecheck")
  /\ UNCHANGED <<shared, server, crossed, ext, loc, scan, ret>>

ReclaimRecheck(t) ==
  /\ At(t, "rrecheck")
  /\ \/ /\ extent_loc_map[ext[t]] = None
        /\ Release(t)
        /\ Return(t, "ok")
     \/ /\ extent_loc_map[ext[t]] # None
        /\ loc' = [loc EXCEPT ![t] = extent_loc_map[ext[t]]]
        /\ Goto(t, "rdelete")
        /\ UNCHANGED <<extent_lock, ret, ext, scan>>
  /\ UNCHANGED <<shared, server, crossed>>

(* deleteExtent: RocksDB, then the map.                                    *)
DeleteKey(t) ==
  /\ At(t, "rdelete")
  /\ rocks' = [rocks EXCEPT ![ext[t]] = None]
  /\ Goto(t, "rremove")
  /\ UNCHANGED <<chunks, extent_loc_map, extent_lock, server, crossed, ext,
                 loc, scan, ret>>

(* Mutants of DeleteFails: the map entry goes although the key stays; the  *)
(* mutex is kept.                                                          *)
DeleteFailsRemoves(t) ==
  /\ At(t, "rdelete")
  /\ Release(t)
  /\ Return(t, "store_error")
  /\ extent_loc_map' = [extent_loc_map EXCEPT ![ext[t]] = None]
  /\ UNCHANGED <<chunks, rocks, server, crossed>>

DeleteFailsKeepsLock(t) ==
  /\ At(t, "rdelete")
  /\ Return(t, "store_error")
  /\ UNCHANGED <<shared, extent_lock, server, crossed>>

DeleteFails(t) ==
  /\ At(t, "rdelete")
  /\ Release(t)
  /\ Return(t, "store_error")
  /\ UNCHANGED <<shared, server, crossed>>

RemoveExtent(t) ==
  /\ At(t, "rremove")
  /\ extent_loc_map' = [extent_loc_map EXCEPT ![ext[t]] = None]
  /\ Goto(t, "rfree")
  /\ UNCHANGED <<chunks, rocks, extent_lock, server, crossed, ext, loc, scan,
                 ret>>

FreeSpace(t) ==
  /\ At(t, "rfree")
  /\ chunks' = Free(chunks, loc[t])
  /\ Release(t)
  /\ Return(t, "ok")
  /\ UNCHANGED <<rocks, extent_loc_map, server, crossed>>

-----------------------------------------------------------------------------
QueryStep(t) ==
  \/ \E e \in Extents, a \in BOOLEAN : Query(t, e, a)
  \/ LockExtent(t) \/ Recheck(t) \/ TryChunk(t) \/ SkipChunk(t)
  \/ Persist(t) \/ PersistFails(t) \/ AddExtent(t) \/ UndoAllocate(t)
  \/ IoDone(t)

ReclaimStep(t) ==
  \/ \E e \in Extents : Reclaim(t, e)
  \/ ReclaimLock(t) \/ ReclaimRecheck(t) \/ DeleteKey(t) \/ DeleteFails(t)
  \/ RemoveExtent(t) \/ FreeSpace(t)

Next ==
  \/ \E t \in Threads : QueryStep(t) \/ ReclaimStep(t)
  \/ \E e \in Extents : LoadExtent(e)
  \/ LoadDone
  \/ CrashRestart

Spec == Init /\ [][Next]_vars

-----------------------------------------------------------------------------
(* The behaviours of one run of the process, without a crash.              *)

NextRunning ==
  \/ \E t \in Threads : QueryStep(t) \/ ReclaimStep(t)
  \/ LoadDone

SpecRunning == Init /\ [][NextRunning]_vars

(* Fairness: a thread inside a call keeps running.  Nothing is assumed of  *)
(* new calls, of crashes, or of who gets a contended mutex.                *)
Continue(t) ==
  \/ LockExtent(t) \/ Recheck(t) \/ TryChunk(t) \/ SkipChunk(t)
  \/ Persist(t) \/ PersistFails(t) \/ AddExtent(t) \/ UndoAllocate(t)
  \/ IoDone(t)
  \/ ReclaimLock(t) \/ ReclaimRecheck(t) \/ DeleteKey(t) \/ DeleteFails(t)
  \/ RemoveExtent(t) \/ FreeSpace(t)

FairSpec == SpecRunning /\ \A t \in Threads : WF_vars(Continue(t))

-----------------------------------------------------------------------------
(* Safety.                                                                 *)

(* Locations somebody relies on: those in the map and those a thread has   *)
(* taken from the bitmap and not yet published or given back.              *)
Held == {extent_loc_map[e] : e \in {f \in Extents : extent_loc_map[f] # None}}
        \cup {loc[t] : t \in {s \in Threads : pc[s] \in HolderPCs}}

(* No two extents ever get overlapping byte ranges, neither in the map     *)
(* that requests read nor in RocksDB, which the next restart believes:     *)
(* data of one extent is never in the place of another.                    *)
LocationsDisjoint ==
  \A e, f \in Extents : e # f =>
    /\ extent_loc_map[e] # None /\ extent_loc_map[f] # None
         => Disjoint(extent_loc_map[e], extent_loc_map[f])
    /\ rocks[e] # None /\ rocks[f] # None => Disjoint(rocks[e], rocks[f])

(* A set bit belongs to a held location and a held location's bits are set. *)
BlocksOwned ==
  \A i \in ChunkIds :
    chunks[i].data =
      UNION {BlocksOf(u) : u \in {v \in Held : calcChunkIdxByOffset(v.offset) = i}}

(* num_free_blocks, which Allocate trusts before it looks at the bits and  *)
(* UsedSize reports to the extent manager, counts the clear bits.          *)
FreeCountExact ==
  \A i \in ChunkIds :
    chunks[i].num_free_blocks = chunks[i].num_blocks - Cardinality(chunks[i].data)

(* The assertion of Chunk::setBlock, "bit not equals 0", for the bits that *)
(* LoadExtents marks: keys in RocksDB never claim a block twice.           *)
MarkFindsClearBits ==
  status = "loading" =>
    \A e \in todo :
      BlocksOf(rocks[e]) \cap chunks[calcChunkIdxByOffset(rocks[e].offset)].data = {}

(* Bitmap and locations agree at all times: no block leaks, whatever fails *)
(* on the way, and none is given out twice; the free counts follow the     *)
(* bits; and what RocksDB has can be marked after a crash at any step.     *)
SpaceAccounted == BlocksOwned /\ FreeCountExact /\ MarkFindsClearBits

(* Unless somebody holds the extent's mutex, map and RocksDB agree: what a *)
(* request is served from survives a crash, and what was reclaimed stays   *)
(* so after one.                                                           *)
MapMatchesStore ==
  status = "up" =>
    \A e \in Extents : extent_lock[e] = None => extent_loc_map[e] = rocks[e]

(* A chunk that still has a free place for an extent can give it:          *)
(* Chunk::Allocate does not report "no enough space" while there is some.  *)
FreeSpaceReachable ==
  status = "up" =>
    \A i \in ChunkIds : FreeSlots(chunks[i], N) # {} => CanAllocate(chunks[i], N)

(* The physical offset that a request computed from the map and uses       *)
(* outside of the mutex stays its extent's: whatever first writes, failed  *)
(* stores and reclaims go on, an I/O is on the place its extent has now,   *)
(* unless a reclaim of the very extent overlapped the request in time.     *)
IoOnOwnExtent ==
  \A t \in Threads :
    pc[t] = "io" /\ t \notin crossed => extent_loc_map[ext[t]] = loc[t]

(* Every way out of QueryLocation and ReclaimExtent gives the mutex back.  *)
MutexReleased == \A e \in Extents : extent_lock[e] # None ~> extent_lock[e] = None

(* RocksDB's contents implement the durable table of locations: what is    *)
(* stored for an extent is assigned once, to a range nobody else has, and  *)
(* goes away only by a reclaim.                                            *)
LocationRanges == {AUnitAt(i, b, N) : i \in ChunkIds,
                                      b \in 0 .. (MaxBlocksPerChunk - 1)}

Table == INSTANCE LocationTable WITH table <- rocks, Ranges <- LocationRanges

ImplementsTable == Table!Spec

=============================================================================
