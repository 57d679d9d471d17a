# Cyprestore in TLA+

Cyprestore is a block store: a *blob* (a virtual disk) is cut into *extents*, an
extent lives on the extent servers of one *replication group*, and an *extent
manager* per *set* keeps users, pools, blobs and the *router* of every extent. An
*access layer* finds the set of a user with the help of the *set manager*; clients
use a library, a benchmark, a fio engine or an NBD bridge on top of it. This
directory models these programs, checks the models with TLC on small instances and
proves, with TLAPS and for every size of the instance, the most important safety
properties of an extent server's space and I/O path, of the extent manager's blobs,
routers, users and pools, of what it tells its clients, of the access layer, the RocksDB
wrapper, the router cache, the client library and two tools.

Paths below are relative to the repository's `src/` (`extentserver/...`,
`extentmanager/...`) or to its root (`clients/...`, `nbd/...`, `tools/...`);
`PROJECT.json` maps every definition to its lines.

## Inventory

| Component | State | Operations | What makes it correct |
|---|---|---|---|
| Space allocation (`extentserver/bitmap_allocator`) | chunks of bits, free counters, `last_free_bit_`, the chunk to try next | Allocate, Free, Mark | no block given twice, none lost, free space is found |
| Extent locations (`extent_location`) | `extent_loc_map_`, a mutex per extent, RocksDB keys | QueryLocation (allocates), ReclaimExtent, LoadExtents | two extents never overlap; map and RocksDB agree; a crash loses nothing |
| I/O path (`extent_io_service`, `storage_engine`, `bare_engine`, `spdk_mgr`, `spdk_worker`, `request_context`) | Requests and IO units, the rings, a reference count and a result per Request | Read, Write, Delete, Scrub, Replicate, ReclaimExtent; completion callbacks | each call answered once; no Request or buffer used after it is given back |
| Replication (`replicate_engine`) | RPCs under way | Send, HandleResponse | OK means that all replicas have the data |
| Memory pools (`io_mem`, `common/mem_buffer`, `arena`, `ctx_mem`) | rings, counts, blocks | Get, GetsBulk, Put, Allocate | memory is disjoint, units are not lost, Requests come out fresh |
| Router cache, connections (`common/extent_router`, `connection_pool`) | maps under read/write locks | QueryRouter, DeleteRouter, GetConnection | no stale router, one connection |
| Server process (`extentserver`, `heartbeat_reporter`, `nvme_device`) | status, services, workers, channels, devices | Init, Start, heartbeat, signal, Destroy | serves when ready, closes nothing under I/O, quits |
| Blobs and users (`extentmanager/blob`, `user`, `resource_service`) | maps under reader/writer locks, records in RocksDB | create, resize, rename, delete (soft), update, list, recover | what a client was told survives; deletions are final; names are unique |
| Routers (`extentmanager/extent_router`, `router_service`) | RocksDB records and a cache | create, query, delete | an acknowledged extent has a router; a router has a blob |
| Garbage collection (`gc_manager`) | a flag, and its progress on the stack | delete pools, users' blobs, blobs | nothing live is removed, nothing deleted stays |
| Pools and replication groups (`pool`, `replication_group`, `rg_allocater_by_*`, `extent_server`, `heartbeat_service`) | pool map, servers, heaps of groups by load, placement | CreatePool, InitPool, heartbeats, allocate_rgs, deletion, recovery | groups have distinct servers/hosts; load is balanced; ids are not confused |
| Set manager, access layer (`setmanager`, `access`) | last heartbeats, map of sets, users' sets, channels | report, list, forward, broadcast | a request reaches its set's manager or nobody; an OK is true |
| RocksDB wrapper (`kvstore`) | the store | Open, Put, MultiPut, Get, scans | answered writes survive, batches are whole, scans exact |
| Timer thread (`utils/timer_thread`) | epoll set, map of timers | create, cancel, run | repeated timers go on; no freed timer is used |
| Client library (`clients/libcypre`, `clients/common/ring`) | a user request split over extents, sender rings, timeouts | read, write, Close, Finalize | one completion per request; Close waits for all; the ring is a queue |
| cyprebench, fio engine (`clients/cyprebench`, `clients/fio_plugin`) | jobs, contexts, ranges in flight; units | submit, callback, verify, getevents | no false alarm, no use of a dead frame, every unit comes back |
| NBD bridge (`nbd`) | buffer, requests, devices, processes | reader, replies, map, unmap, list | no request lost, replies whole, devices kept |
| Tools (`tools/sanitizer`, `tools/cypretool/scrub`) | parts of a device; checksums | wipe, verify | exactly the range is wiped; the verdict holds |

Interaction: a client asks the extent manager for routers (cached there, in the
client and in the extent servers), sends I/O to the primary extent server, and
the primary replicates to the secondaries while it writes locally. The GC timer of
the extent manager calls Delete and ReclaimExtent on the extent servers. Extent
servers report to their extent manager, extent managers to the set manager, and the
access layer reads the sets from there. There is no recovery protocol between
replicas (the repository's README lists it as to do).

The hard parts are the per-extent mutex against RocksDB failures and crashes, the
shared Request of a replicated write, maps changed under *shared* locks, a
collector whose work may stop between any two extents, ids that are used again,
errors that come both as a return value and as a callback, and shutdown against
work under way. `PROJECT.json` lists these hazards at their lines.

## Modules

| Module | Models |
|---|---|
| `BitmapAllocator` | one chunk's Allocate, Free, Mark as pure operators |
| `LocationTable` | abstract: a durable table that gives every extent one range of its own; refined by `ExtentLocation` |
| `ExtentLocation` | request threads in QueryLocation and ReclaimExtent, crash and LoadExtents |
| `ExtentLocationProofs` | the TLAPS proofs about it: locations and refinement; bitmap, counts and free space |
| `ExtentIO` | a call's way from the handler over replication, ring, worker and device to the answer |
| `IoMemory` | the pools Requests and IO units come from |
| `RouterCache` | an extent server's routers and connections |
| `ExtentIOProofs` | the proofs about `ExtentIO` |
| `EsLifecycle` | an extent server from main to exit |
| `BlobLifecycle` | requests on blobs, router cache, GC and recovery of the extent manager, clients' writes |
| `UserManager`, `Catalog`, `PbTransfer` | users; the choice of a pool, rename, queries and listings; the conversions that answers go through |
| `PoolManager` | pools, extent servers, heartbeats, router queries, collection and recovery of pools, reuse of ids |
| `RgAllocater`, `RgManager` | placement of groups by server, host and rack; the heaps that extents are taken from (`RgManager` extends `RgAllocater`) |
| `Access` | heartbeats of sets, the set manager and the access layer |
| `KvStore`, `TimerThread` | the RocksDB wrapper; the timer thread |
| `BoundedQueue` | abstract: a bounded queue whose consumers hold what they take; refined by `Ring` |
| `Ring`, `ClientStream`, `IoRanges` | the client library: its lock-free ring, its I/O path, its table of ranges |
| `Bench`, `Fio` | cyprebench with verification; fio's engine |
| `NbdStream`, `NbdServer`, `NbdControl` | the bridge's byte stream, its requests and replies, its processes and devices |
| `Sanitizer`, `Scrub`, `Tools` | the disk wiper; the comparison of replicas; both, and what they promise |
| `BlobLifecycleProofs`, `PoolManagerProofs`, `ClientStreamProofs`, `ToolsProofs` | the proofs about the modules they are named after |
| `CatalogProofs` | the proofs about `UserManager`, `Catalog` and `Access` |
| `HostProofs` | the proofs about `KvStore` and `RouterCache` |

`MC*` modules give the constants of a run. `MCHost`, `MCServer`, `MCClient`, `MCCatalog`,
`MCCluster`, `MCBlobLifecycle` and `MCBlobRace` hold several instances (or several modules) that
share no state: `part` names the one a behaviour is of, and the others
stand still, so that the state space is the sum and not the product of the parts.
So that a run checks the very definitions that the theorems state, its `MC` module
extends the modules that have theorems: `MCHost` `Tools`, `MCServer` `ExtentIO`,
`KvStore` and `RouterCache`, `MCCatalog` `UserManager` and `Catalog`, `MCCluster`
`PoolManager`, `MCClient` `ClientStream`, `MCBlobLifecycle` `BlobLifecycle` and `Access`,
`MCBlobRace` `BlobLifecycle`; the others are instances in them. In `MCHost` these keep their variables in one row `v1`, `v2`, ...; the `INSTANCE ... WITH`
of a part says which is which. Modules that one module extends share no names, hence
`CatalogInit`, `AccessNext`, `KvSpec` and the like.

### BitmapAllocator and ExtentLocation

`chunks[i].data` is the set of the indexes of the set bits. A chunk is searched
under its mutex, so that is one step; the walk over chunks is not atomic
(`TryChunk`, `SkipChunk`). A thread's `pc` follows QueryLocation (`Query`,
`LockExtent`, `Recheck`, allocation, `Persist`, `AddExtent`, `IoDone`) and
ReclaimExtent; each step is what happens between two points where another thread
can interfere. RocksDB (`rocks`) is a durable function whose writes may fail.
`CrashRestart` keeps only what is durable, then `LoadExtent` marks one key at a
time in key order. Nothing keeps a reclaim away from an extent while a request uses
the offset it has computed: `crossed` remembers the requests that a reclaim of their
own extent has overlapped, and `IoOnOwnExtent` is about all the others.

### ExtentIO, IoMemory, RouterCache, EsLifecycle

A call is a member of `Writes`, `Reads` or `Others` (Delete, Scrub and a
secondary's Replicate take the same way). The handler takes a Request from the
pool; the Request has one reference for the local I/O and one for each secondary,
and `at[c][a]` says where each of them is: being sent, in the ring, with a worker,
with the device, in a callback, gone. `SetResult` is a load and a store, as
compiled, because RPC threads and the worker run it without a lock; `lost` remembers
writes on which a failure was overwritten. IO units are counted. An RPC may fail,
be delivered late or, by brpc's retry, twice (`MaxCopies`).

`IoMemory` opens what `ExtentIO` counts: a Get is dequeue, count, allocate and (for
a buffer) allocate data, each a step, over arenas that start new blocks and run out
of hugepages. `RouterCache` has the three steps of a look-up (read, ask, insert)
against the collector, which has the servers reclaim an extent, and drop its router
from their caches, before it deletes its own: meanwhile the manager refuses a
look-up for a deleted blob, and answers one for a blob whose user was deleted.
`EsLifecycle` is the chain of initialisations, each of which may fail and undoes
nothing, the heartbeat that brings the extent size, RPC threads and workers, and
Destroy step by step, once for each signal (`MaxSignals`) and on the thread that the
signal interrupts, which stands still meanwhile.

### The extent manager

`BlobLifecycle`: maps (`user`, `pool`, `blob`) and records (`userKV`, ...) have the
same values, with "none" for an id not yet used and "gone" for a removed one.
`op[t]` is the request of thread `t`; resize_blob is three steps (check, set, store)
since it holds its lock shared. `gc` is the collector's stack: phase, lists, blob,
extent. `Faults` says which faults may happen: a crash, a failing store, a failing
RPC, no replication group, the GC's time limit. History variables: `acked` (what a
client was told), `troubled` (a request on the blob failed halfway or died in a
crash) and `overtaken` (two actors changed or used the blob at once).

`UserManager` and `Catalog` have the same three steps for users and for names:
change the fields in place, encode the record, put it. UpdatePool may give a pool
another type at any time (`Catalog`, where `retyped` marks the blobs whose pool it was,
or was about to be) or other fields (`PoolManager`). `PoolManager` is one pool
id's life: `call` the requests that share the lock, `recov` the recovery, `gc` the
collector, `mishap` which of the overlaps or lost writes listed below has happened
to the pool; its properties say what holds without them. `RgManager` keeps groups
as objects `<<group, pass>>`, because heaps keep pointers to objects of an earlier
InitPool; a heap is a bag whose top is any element the comparator allows, and where
keys were changed after the push (or the comparator is no strict weak order) any
element at all.

### Sets and access

`Access`: `last` is the set manager's map (how old each set's heartbeat is),
`routes` the access layer's copy, `users` its cache of users' sets, `chan` its
channels by IP, `addr` where each manager really is. Hosts may serve several sets (at
different ports), and a manager may be started again on another of its hosts. Every
RPC is two steps and may be lost before or after its effect.

### Clients

`ClientStream`: a request is split at the extent's end; each part goes to a ring, to
a sender and out, and is called back; a part without router or connection is an
error inside the call. `Ring` is the ring with every load, compare-and-swap and
store a step and indices modulo `Wrap`; it implements `BoundedQueue`, which
`ClientStream` assumes of it. `IoRanges` is the range table, which no handle uses at
present. `Bench` and `Fio` take from `ClientStream` that an error may come with a
callback, of a part that has run or of one still on its way. `Bench` has the ways in
which a job or a callback returns early: no time, no context, a call not taken, a failed
write of its file.

### NBD bridge

`NbdStream` has a cell for every byte of a request and the code's buffer arithmetic
with a small buffer. `NbdServer` has the requests of two connections, what libcypre
has been asked, the socket's lock and what was written to it, and the main thread's
way down; a request of two parts may be refused and called back later. `NbdControl` has the processes of `map` (parent and child), the kernel's
devices, `unmap`, `list` and signals.

### Store, timers, tools

`KvStore` gives RocksDB a memory and a disk: a write without `sync` would be on the
first only. An Open that repairs may find any keys changed, single keys of a batch
too; `loose` are the keys that a repair or a write alone has parted from their batch. `TimerThread` separates timerfd, epoll set and map. `Sanitizer` cuts a
device of units by the code's formulas; `Scrub` reads checksums while a writer and a
decaying disk change the blocks.

## Runs

| Run | Result | What it shows |
|---|---|---|
| `location_crash` | pass | two threads, four extents, room for three, failing writes, crashes at any step: locations are disjoint, the bitmap accounts for every block, map and RocksDB agree, and RocksDB implements `LocationTable` |
| `location_running` | pass | without restart: free space is found, I/O is on its extent's place, mutexes are given back |
| `location_restart` | violation | after a restart free space below the last marked unit is not found |
| `server` | pass | two writes, two secondaries, one Request, late and repeated replicate RPCs: no use after return, answered last, OK means replicated, and a write that ran alone leaves replicas equal; the RocksDB wrapper through stops and repairs; the router cache against the collector |
| `io_mixed` | pass | write, read and other over two Requests: units conserved, every call answered |
| `blob_faults` | pass | crash, failing store, missing replication group and the time limit at every step of a blob's life: routers and blobs match, the store follows the map, nothing deleted comes back; the access layer with lost calls, moved managers and two managers on one host |
| `blob_race` | pass | two request threads against each other and the GC; deleted and written blobs go; two replicas with failing RPCs, and two pools: a blob goes after its data, a user after its blobs |
| `blob_unwritten` | violation | a deleted blob with an unwritten extent is never removed |
| `cluster` | pass | groups: placement, balance, counts, the heaps under full servers, crash and failing stores in InitPool; pools: registration, InitPool, deletion, collection, recovery and the second use of an id |
| `catalog` | pass | users, names, the choice of a pool, pools that change their type and listings under shared locks |
| `client` | pass | libcypre, its ring of each type (a bounded queue, as `BoundedQueue` says; every Enqueue ends), its range table, cyprebench and fio |
| `host` | pass | the NBD bridge, an extent server's life, memory, timers, routes to sets; the disk wiper and the verdict of scrub |

A property of a run is the promise of one component: where a component has several
invariants (a type invariant, the ones that rest on each other), the property of the
`MC` module joins them, and the comments at the joined definitions say what each is
for. `SpaceAccounted` joins the owner of every set bit, the exact free counters and
that recovery marks clear bits only.

Bounds. Seven blocks of two bytes in chunks of five give one full chunk and one
short one, an extent of two blocks (three bytes, rounded up) and a block that
cannot be used; four extents compete for three places. Two threads are enough for
every race on one mutex. Two secondaries are the least for which two RPC threads
race; one Request in the pool makes every recycling a reuse. Two extents per blob
with batches of one router give a crash between batches and a GC cut between
extents. A pool of two replicas gives a reclaim that succeeds on one of them only.
Three servers of unequal weight on two hosts give a placement by host that is not
one by server, and a host with two servers; servers fill to 90 and 100 per cent so
that near-full and full groups meet in the heap. One pool id used twice is the least
for which something can be left behind. Two names, two users and two threads give
every overlap of two calls. In the ring, six items in four slots (in a ring for several
producers and several consumers, which the code does not use, four items in two slots)
and indices modulo eight that start at six make slots come to use again and the indices
wrap around. The reader's buffer of five cells with
heads of two and data of up to three is cut at every place of a request. Rings of
two units and blocks of two and four with six hugepages make pools and arenas run
out. Two sets with three addresses on two hosts, of which one may serve both, give a
manager at another port, on another host and next to another set's. Two signals give
two Destroys at once and one after the other, on one thread and on two. A batch of two
keys that are also written alone, and a third, give a repair that parts a batch. A
device of three units with two and three jobs and blocks of one and two has short
and empty parts. Faults are bounded (`MaxFaults`, in `Access` `MaxMishaps`, in `Catalog`
`MaxLost`, in `Scrub` `MaxLostCalls`: one, in most runs), so that the recovery from
each is complete; the disk wiper needs four (`MaxShort`) for its retries.

`MCCluster`'s constraint leaves out groups that were set up twice (no property is
claimed of them), second mishaps, and a failed write together with a stop. Symmetry
is used in runs without liveness only; the symmetric constants are model values that no definition orders. Deadlock is
checked for `ExtentLocation`; elsewhere the system rests when all calls are answered
or a bound is reached.

### Findings

* `location_restart`: `Mark` moves `last_free_bit_` (`bitmap_allocator.cpp:75`).
* `blob_unwritten`: `gc_manager.cpp:242` needs a location for every block it deletes.

### Met while modelling

These are excluded by name from the passing properties (as a guard, a history
variable or an exception that the property's comment gives), or were shown by TLC
with other constants.

Extent server
* With fewer IO units than reads in the ring the worker retries for a unit without
  polling for completions, for ever (`spdk_worker.cpp:72`): TLC refutes
  `ExtentIO`'s `UnitRetryEnds` with one unit for two reads.
* `SetResult` can lose a failure (`request_context.h:81`); `AckReplicated` says so.
* The assertion of `unsetBlock` (`bitmap_allocator.cpp:84`) holds only for the first
  bit of a word; the build disables it.
* `GetsBulk` checks the count and then adds `num`: units are refused when they come
  back and are lost (only tests use it). A failed allocation of a buffer's data
  forgets the unit; `IOMem::Init` ignores the status of its rings.
* A reclaim does not wait for I/O on the extent (`extent_location.cpp:107`): a client
  whose blob is deleted while it writes may write to blocks that belong to another
  extent by then.
* A request that was answered a router before the reclaim and inserts it afterwards
  leaves it in the cache (`common/extent_router.cpp:39`). So does one that asks after
  the reclaim and before the manager deletes its own router (`gc_manager.cpp:209-222`),
  when the blob is one of a deleted user's: its status is still created, and the router
  service answers. The thread-local cache (not used) erases only the caller's entry.
* Destroy runs in a signal handler: a second signal starts a second one, which joins
  workers that are being joined or were and reads the status of a worker that may be
  deleted: it returns an error or the process crashes (the first comes to its end
  otherwise). When a step fails Destroy returns with `stop_` unset and the process never
  quits; on a worker's thread it waits for I/O that only this thread would poll; on
  another thread than the main one the environment cannot be closed. `Quits` names these.

Extent manager
* A failed soft delete stays in the map (`blob.cpp:90`, `user.cpp:166`); after a
  restart the blob or user is back, its routers may be gone or its name taken.
* A resize whose store fails sets `size_` back to what it had read, also under another
  resize that has read the new size since (`blob.cpp:180`); met in the proof of
  `StoreFollowsMap`, whose invariant does not survive it, so that the model marks the
  blob as overtaken.
* Overlapping resizes or renames may store the older record last, and a request on a
  blob that is being removed leaves routers or a record behind.
* `WrittenBlobsGo` holds without faults only: after a crash a collection cannot be
  resumed, as extent 1 has no router any more (`gc_manager.cpp:207`).
* A user's pools are not stored (`user.cpp:217`): after a restart the GC removes a
  deleted user without looking at its blobs. `success` in deleteUserBlobs is not
  reset per user.
* `update_user` checks and sets the name under the shared lock; its own current name
  is refused as a duplicate; `soft_delete_user` answers OK for a deleted user.
* UpdatePool changes the type of a pool that has blobs, or is being chosen for one
  (`pool.cpp:199`): a blob then lies on disks of another type than was asked for.
* The GC timer starts before the recovery (`extent_manager.cpp:147`): a deleted
  pool's record may go while its blobs' records stay and come back in the next pool
  of that id. The other mishaps of a pool: a request that checked the status before
  a deletion continues after it, records whose deletion failed come back, the status
  is stored and the groups are not, or the reverse.
* The walk over near-full groups may push back another element than it popped
  (`replication_group.cpp:202`), near full is an integer division, heaps are not
  emptied when a pool is set up again, and a weight of 0 divides by zero.

Access and sets
* The walks of `ListSets` and `AllocateSet` stop at the first set whose heartbeat is
  late (`setmanager.cpp:107,159`); `UpdateSets` clears the map when the call failed.
* CreateUser answers OK with an empty id when the call to the manager failed;
  channels are keyed by IP alone, so that of two sets whose managers share a host one
  gets the requests of the other, and a broadcast to such a host may put the wrong set
  into the cache (`resource_manager.cpp:49`); a broadcast returns at the first success without
  joining the rest; a query under way may put a deleted user back into the cache.

Clients
* A request without router or connection is refused *and* called back: cyprebench
  puts its context back twice and takes another job's range out of the table, or
  returns while callbacks count in its frame; fio's callback may reach a unit in use
  again; the NBD bridge answers twice and frees the context twice.
* `RBDStreamHandleImpl` checks `isClosed_` (line 93) and counts the request in
  `ioInflight_` (line 169) without a lock between them; `ClientStream` takes the two
  as one step, as its callers do not Close a handle while they call it.
* A write callback of cyprebench that cannot read the clock returns without counting
  down (`cyprebench.cpp:186`): the job waits for ever; `JobsEnd` excepts it.
* A request that libcypre refuses at once is answered to the kernel with error 0.
* fio's getevents with a minimum above one hands a unit over twice.
* The range table misses an overlap with a request that reaches over a shard's end,
  can lose a wake-up, and loops at the end of the array; nothing uses it now.
* cyprebench's jobs wait for ever when one of them cannot open the blob.

NBD commands
* `map`'s parent holds the pipe's write end itself and hangs if the child dies
  first; a signal before the device is known aborts; two maps may probe the same
  free device, and one fails although another device is free; `unmap` says success
  after a failed ioctl.

Store, timers, tools
* Open repairs a damaged store and goes on: of a batch of routers a part may be left.
* `KeyExists` trusts `KeyMayExist`; iterators keep slices of the caller's strings.
* `timer->fd_` is logged after `delete_timer` has freed it; `timers_` has no lock.
* The disk wiper loops with a block size of 0; a thread that cannot be started makes
  it return while others run. Scrub returns at the first failed call while others
  use its contexts, and reports a write under way as a difference.

### Fairness

A thread inside a call goes on, and so do the kernel, the device and RPCs, which
have timeouts; nothing is assumed of new calls, of who gets a mutex or of faults.
`ExtentIO`: a completion that is there at every poll is delivered. `BlobLifecycle`:
the periodic timer calls gc() again. `ClientStream`, `NbdServer`, `NbdControl`,
`Bench` and `EsLifecycle` need only that some thread moves while one can. `Ring`:
every producer and consumer runs. `TimerThread`: the kernel's timers expire and the
thread runs. `Access`: each manager's heartbeat and the update of the sets recur, as
their timers do. In `MCHost` and `MCClient` one conjunct holds a step of each part,
which is the same as a conjunct for each, since one part is ever enabled.

## Proofs

A proof module holds the inductive invariant of its component, one lemma per action
(and under it one step per conjunct that the action can disturb), frame lemmas for
the conjuncts it cannot, and the theorems. Every invariant was first checked with TLC
on a small instance. The constants are arbitrary; what is assumed of them stands in
the `ASSUME` of the component's module, which the runs evaluate, or in the theorem.

### Space and locations

`ExtentLocationProofs` (assumptions: sizes are positive naturals, the device has room
for a block, `None` is none of the other values) proves `Invariance`, and from it
`TypeCorrect`, `DisjointLocations`, `StoreAgreement` (`TypeOK`, `LocationsDisjoint`,
`MapMatchesStore`) and `TableRefinement`: every step maps to a step of
`LocationTable` or leaves the table alone.

`LocationsDisjoint` alone is not inductive: a thread may hold a location it took from
the bitmap and has not stored, and RocksDB may hold one that the map does not yet have
after a restart. `Inv` therefore speaks of all holders (map entries, thread locals
between allocation and publication, RocksDB keys still to be marked), says that
holders are pairwise disjoint and that their bits are set, ties every thread's `pc`
to the mutex it holds, and relates map and RocksDB under that mutex.

The second half of the module goes the other way: no bit is set *without* a holder and the
counter of a chunk is the number of its clear bits (`SpaceInv`), which gives
`SpaceExact` (`SpaceAccounted`) through every failure and crash. `FreeSpaceFound`
(`FreeSpaceReachable`) is about a server that was not restarted (`SpecRunning`), as
the run `location_restart` shows it false afterwards; `RunningInv` says that units are
aligned to their size and that no free slot is below `last_free_bit_`. `IoStaysPut`
(`IoOnOwnExtent`) assumes nothing of when extents are reclaimed: a request that uses an
offset outside of the mutex has the place of its extent, or is one of `crossed`.

### I/O path

`ExtentIOProofs` assumes that the kinds of calls are disjoint and the secondaries
finitely many. The invariant: the Request of a call with a live reference belongs to
the call and counts the references that live (`OwnOK`), wherever they are; a Request
is fresh or its owner has a reference (`PoolOK`); ring and batches hold a call once
(`QueuesOK`); free units and holders add up (`UnitsOK`); where a reference that ended
well has been applied (`ReachedOK`); and while a write runs alone no other write can
reach a disk (`AloneOK`). It gives `RequestsSafe`, `UnitsNeverLost`, `AcksReplicated`,
`ReplicasSame` and `TypeCorrect`.

`HostProofs`, on `RouterCache`: a thread sends on the pool's connection (`PooledOK`),
hence `ConnectionsShared`; with the shared cache (`ThreadLocal = FALSE`, what the server
uses) a router about to be inserted for a reclaimed extent was answered before the
reclaim, or after it for a blob whose user was deleted, hence `ReclaimedForgotten`
(`StaleOnlyIfAnswered`). Both need a natural bound on connections.

### Extent manager

`BlobLifecycleProofs` holds for any choice of `Faults`. The invariant ties each
request's step to the record it works on (`OpsOK`, `SizesOK`), the records to the map
(`RecordsOK`, `StatusOK`, `KeptOK`), pools to their blobs (`PoolsOK`), every stored
extent to a router or to the thread that will put it (`RoutesOK`), what was ever routed
or held to the stored size (`RoutedWithin`), and the collector's stack to what nobody
uses any more (`GcOK`, `WalkOK`, `LeakOK`). It gives `RoutersFollowBlobs`,
`MapsAreStored`, the action property `DeletedStaysDeleted`, `SpaceReclaimed`, and,
without crashes (a user's pools are not stored), `UsersGoLast`. `AnswersKept` joins them
to `AnswersHold`, for every choice of faults, and `CollectedInOrder` to `RemovedInOrder`,
without crashes. As in the runs the properties except the blobs on which a request failed
halfway or actors overlapped.

`PoolManagerProofs` (a pool id, a finite set of heartbeats, pools of at least one server)
proves `PoolsInvariance`, and from it `PoolsAreWhole` (`PoolsWhole`) and `PoolsGoWhole`
(`NothingLeftBehind`). These are not inductive: a call works on what it has read a lock
ago. `PoolsInv` says of every pool how map and RocksDB may differ, by the recovery's
progress and by what has happened to the pool (`PoolOK`: status, servers, blobs, groups);
of every call which of its readings still hold (`CallOK`: an InitPool's servers are there,
what a put stores is what the map has, nothing is erased under an InitPool, a query's
groups belong to this pool and not to the next of its id); and of the collector that the
pool it works on stays disabled and that each step has emptied what the next ones count on
(`GcOK`). The exceptions are those of the properties, named by `mishap`.

`CatalogProofs` has three parts. The users (nothing assumed of the constants). Per user: at most one call
unless an overlap is marked, what that call has done to the map and is about to store,
and how the store may be behind; over users: no two unmarked users *claim* a name,
where a claim is a name in the map, in the store or in a call under way. It gives
`UsersTold`.

The catalog (walkers are workers, capacities are naturals). `CatalogInv` says of each call
what it knows at each step: get_pool has passed no unchanged pool that is emptier than its
best (`PickFine`; the minimum only goes down, which is transitivity of fractions,
`NotLess`); between RocksDB and the map nobody else has the new blob's id (`InsertFine`);
a rename or deletion that is alone on its blob holds what the map has, and RocksDB the
same with the old name (`ChangeFine`); a listing lacks only what lies in pools it has not
reached (`ListFine`). Two frame lemmas carry this over the steps of others: `PoolStep`, as
a pool in the map keeps its type (UpdatePool has a lemma step of its own: it changes the
type and marks the blobs concerned `retyped`) and a disabled one stays so, and `Bystander`, as a blob
in the map keeps its owner and pool. With the lemmas on the conversions
(`PoolTypesKept`, `BlobTypesKept`, `DiskOfPool`, `ConversionsHold`) it gives
`ClientsToldRight`, the whole of `CatalogAsTold`.

The access layer. `SetsPlaced` assumes only that two managers do not start at one address.
Channels are found by ip, so that where two sets share a host a request may come to the
other's manager; `SameOrShared` is that exception, and no other. `AccessInv`:
every address that is kept for a set, in the set manager, in the routes, in the cache of
users, in a channel or in a request under way, is on one of the hosts of that set, however
old it is, and a channel's ip is that of the address it was opened for. It gives
`RequestsFindTheirSet`, the whole of `RightManager`.

### Store

`HostProofs`, on `KvStore` (a repair may change any keys), needs keys that are positive numbers (0 is "no key"), batches of
different callers that share no key, and, for scans, that the keys of a prefix stand
together, as RocksDB's byte order has it. `AnswersSurvive` (`AnsweredSurvives`) rests
on `Synced` (memory and disk agree) and `KeptOK`, and for scans on `ScanOK`, which
splits the keys of a scan into those read and those still before the iterator. The least key of a set comes from the well-foundedness of the naturals.

### Client library

`ClientStreamProofs` (sender threads numbered from 0, a positive extent size): a part
that is not done is with the thread of its handle, in the ring of its sender or on its
way, in one of these places only and once (`OncePlaced`); a request is live as long as
a part of it is out and its count is the number of these parts (`RefsOK`);
`ioInflight_` is the number of requests that are live or being called back
(`InflightOK`); senders end only when no thread is in the library (`StopOK`). It gives
`FreedIsQuiet`: the whole of `QuietWhenFreed`, the truth of what users are told and
the emptied rings included.

### Tools

`ToolsProofs`. The scrub (at least one replica, extent and block): blocks already passed
agree on all replicas unless they were written or decayed since (`PassedAgree`), and the
checksums collected of the present one are those of the replicas that answered
(`CrcRight`); hence `VerdictHolds`. The sanitizer (flags are naturals; a block size or a
number of jobs of 0 included): the parts of the jobs cover the range and nothing else, what
a job has passed is zero and what is beyond the range untouched (`PartsOK`, `RangeOK`),
which rests on the lemmas about division in `target_size`, `part_size` and the last job's
length; retries are counted as they happen (`RetriesOK`); hence `WipeHolds`.
`ToolsReportTruth` is both: `ToolsTruthful`.

### Only model-checked

All liveness properties, as fairness and ENABLED are out of the prover's reach, and
`MutexReleased` with them. The refinement of `BoundedQueue` by `Ring`, whose indices wrap
around and whose proof needs induction over the queue. `GroupsDealt` and `ExtentsSpread`:
the placement is a function that recurs over the groups still to be placed, and what it
computes for every input needs induction over data; the balance of the heaps compares
quotients of sums over it. The safety properties of `NbdStream`, `NbdServer`,
`NbdControl`, `EsLifecycle`, `IoMemory`, `TimerThread`, `Bench`, `Fio` and `IoRanges`,
which the runs check together with what must eventually happen.

## Plan

1. Prove the safety parts of `MemorySound` (`IoMemory`) and `KernelServed` (`NbdServer`)
   apart from their liveness; `Ring` refines `BoundedQueue` for any number of slots, if
   the wrap-around can be reasoned about.
2. Compose: `RouterCache` with `BlobLifecycle` (today each has the other as an
   environment), `ClientStream` with `NbdServer`.

## Not modelled

Bytes of data, checksums and encodings; logging and metrics; configuration; the
command-line tools that send one request and print the answer (cypreadmin,
cypreclient, rpcclient, most of cypretool) and cypremonitor's scripts; the NBD
bridge's netlink controller, which nothing constructs, its thread that watches the
blob's size (`nbd_watch.cpp`), and its unaligned writes, which the device's block size
rules out; locks inside the C library or brpc that a signal handler finds held by the
thread it interrupts; cereal (vendored), brpc, SPDK, DPDK, the
kernel and RocksDB, of which only the behaviour the code relies on appears.
