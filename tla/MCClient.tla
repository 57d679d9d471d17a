------------------------------ MODULE MCClient ------------------------------
(***************************************************************************)
(* The state machines of the client side, checked together: the I/O path   *)
(* of libcypre, the ring under it, its range table, and two programs above *)
(* it, cyprebench and fio's engine.  They share no state; a behaviour is   *)
(* one of the part chosen at the start, the other parts stand still.       *)
(***************************************************************************)
EXTENDS ClientStream, TLC

VARIABLES
  part,
  type, prodHead, prodTail, consHead, consTail, slots, pc, at, item, puts,
  rat, doing, pending, size, mishap,
  job, ctx, table, remote, local, bstop, forever, bfaults, bmishap, alarm,
  fpc, unit, done, calls, stale, min, fat, events, ffaults, reused

Machines == {"stream", "ring", "small ring", "ranges", "bench", "fio"}

(* Two threads on either side of four slots, of two where both sides are   *)
(* for several.  More items than slots go through, so that slots are used  *)
(* again, and the indices wrap around on the way.                          *)
R == INSTANCE Ring WITH
       Producers <- {"p1", "p2"}, Consumers <- {"c1", "c2"},
       Types <- {"SP_SC", "MP_SC", "SP_MC"}, Size <- 4, Wrap <- 8, Start <- 6, MaxPuts <- 6
Q == INSTANCE Ring WITH
       Producers <- {"p1", "p2"}, Consumers <- {"c1", "c2"},
       Types <- {"MP_MC"}, Size <- 2, Wrap <- 8, Start <- 6, MaxPuts <- 4

(* Five requests that overlap within and across two shards.                *)
C == INSTANCE IoRanges WITH
       Reqs <- {"a", "b", "c", "d", "e"}, Reads <- {"a"}, ShardBytes <- 2, Shards <- 2,
       Off <- ("a" :> 0) @@ ("b" :> 1) @@ ("c" :> 2) @@ ("d" :> 3) @@ ("e" :> 0),
       Len_ <- ("a" :> 2) @@ ("b" :> 2) @@ ("c" :> 1) @@ ("d" :> 2) @@ ("e" :> 1),
       at <- rat

(* A reading and a writing job on two blocks. *)
B == INSTANCE Bench WITH
       Readers <- {"r"}, Writers <- {"w"}, Blocks <- {1, 2}, Count <- 2, Depth <- 2, MaxFaults <- 1,
       stop <- bstop, faults <- bfaults, mishap <- bmishap

(* Two units, used twice. *)
F == INSTANCE Fio WITH
       Units <- {1, 2}, Mins <- {1, 2}, MaxIo <- 2, MaxFaults <- 1,
       pc <- fpc, at <- fat, faults <- ffaults

MCInit ==
  /\ part \in Machines
  /\ Init /\ C!Init /\ B!Init /\ F!Init
  /\ part # "bench" => ~ forever
  /\ IF part = "small ring" THEN Q!Init ELSE R!Init
  /\ part \notin {"ring", "small ring"} => type = "SP_SC"

rv == <<type, prodHead, prodTail, consHead, consTail, slots, pc, at, item, puts>>
cv == <<rat, doing, pending, size, mishap>>
bv == <<job, ctx, table, remote, local, bstop, forever, bfaults, bmishap, alarm>>
fv == <<fpc, unit, done, calls, stale, min, fat, events, ffaults, reused>>
mcvars == <<part, vars, rv, cv, bv, fv>>

InStream(A) == part = "stream" /\ A /\ UNCHANGED <<part, rv, cv, bv, fv>>
InRing(A)   == part = "ring" /\ A /\ UNCHANGED <<part, vars, cv, bv, fv>>
InSmall(A)  == part = "small ring" /\ A /\ UNCHANGED <<part, vars, cv, bv, fv>>
InRanges(A) == part = "ranges" /\ A /\ UNCHANGED <<part, vars, rv, bv, fv>>
InBench(A)  == part = "bench" /\ A /\ UNCHANGED <<part, vars, rv, cv, fv>>
InFio(A)    == part = "fio" /\ A /\ UNCHANGED <<part, vars, rv, cv, bv>>

MCNext ==
  \/ InStream(Next) \/ InRing(R!Next) \/ InSmall(Q!Next)
  \/ InRanges(C!Next) \/ InBench(B!Next) \/ InFio(F!Next)

(* The fairness of every part.  Only the steps of one part are ever        *)
(* enabled, so one conjunct may serve a step of each.                      *)
MCFairness ==
  /\ WF_mcvars(\/ InStream(Steps)
               \/ InRing(R!Enqueue("p1")) \/ InSmall(Q!Enqueue("p1"))
               \/ InRanges(\E r \in {"a", "b", "c", "d", "e"} : C!Work(r))
               \/ InBench(\E j \in {"r", "w"} : B!Run(j))
               \/ InBench(\E c \in {"r", "w"} \X (1..2) : B!Callback(c))
               \/ InFio(F!Steps))
  /\ WF_mcvars(\/ InRing(R!Enqueue("p2")) \/ InSmall(Q!Enqueue("p2"))
               \/ InFio(\E c \in {1, 2} \X (1..2) : F!aio_inner_cb(c)))
  /\ WF_mcvars(InRing(R!Dequeue("c1")) \/ InSmall(Q!Dequeue("c1")))
  /\ WF_mcvars(InRing(R!Dequeue("c2")) \/ InSmall(Q!Dequeue("c2")))

MCSpec == MCInit /\ [][MCNext]_mcvars /\ MCFairness
-----------------------------------------------------------------------------
(* Properties, of one part each.                                           *)

(* The ring implements BoundedQueue: nothing is lost, taken twice or       *)
(* overtaken, and no slot is written while a consumer still reads it,      *)
(* whatever the interleaving and where the indices wrap around.  And       *)
(* Ring::Enqueue ends, although it spins for room in the ring and for the  *)
(* producers before it.                                                    *)
IsQueue ==
  /\ [](part = "ring" => R!TypeOK) /\ [](part = "small ring" => Q!TypeOK)
  /\ part = "ring" => R!QueueInit
  /\ part = "small ring" => Q!QueueInit
  /\ [][(part = "ring" => R!QueueStep) /\ (part = "small ring" => Q!QueueStep)]_mcvars
  /\ R!EnqueueEnds

(* Two tables of ranges in flight.  IoConcurrency lets no two requests     *)
(* that overlap be in flight together, unless the earlier one reaches into *)
(* the shard where the later starts, and sends a request that waits in the *)
(* end, unless what was in its way was done before it was queued, or a     *)
(* thread loops for ever with the locks of a shard.  cyprebench reports a  *)
(* block inconsistent only after a write of unknown outcome or an error of *)
(* its file or clock, or when a refused request took another's range out   *)
(* of its table.                                                           *)
RangesKept ==
  /\ [](part = "ranges" => C!TypeOK /\ C!NoOverlap)
  /\ [](part = "bench" => B!NoFalseAlarm)
  /\ C!WaitersSent

(* The two programs and the callbacks of their I/O.  A callback of         *)
(* cyprebench counts down in the frame of a job that still runs, unless a  *)
(* refused request made the job return, and every job ends, unless it is   *)
(* to run for ever, another could not open the blob, or write_cb had no    *)
(* clock.  A unit that fio_csio_getevents hands over has come back, unless *)
(* a refused request's callback reached a unit in use again; it is handed  *)
(* over once, as long as one event is enough; and every I/O that was       *)
(* queued is handed back, failed ones too.                                 *)
CallbacksReaped ==
  /\ [](part = "bench" => B!FrameAlive)
  /\ [](part = "fio" => F!EventsDone /\ F!EventsOnce)
  /\ B!JobsEnd
  /\ F!Reaped
=============================================================================
