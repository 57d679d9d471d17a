-------------------------------- MODULE Scrub --------------------------------
(***************************************************************************)
(* cypretool's comparison of the replicas of a blob (Scrub::Verify): the   *)
(* size is asked for once, then extent by extent a router, and block by    *)
(* block the checksum of every replica, in parallel.  Clients go on        *)
(* writing: a write reaches the replicas one after the other.  A disk may  *)
(* lose what it had.                                                       *)
(***************************************************************************)
EXTENDS Integers, FiniteSets

CONSTANTS
  NumExtents, NumBlocks,   \* extents of the blob, blocks of an extent
  Replicas,
  MaxWrites, MaxDecays, MaxLostCalls   \* bounds

(* A blob has extents, an extent has blocks and replicas. *)
ASSUME BlobAssumption ==
  /\ NumExtents \in Nat \ {0} /\ NumBlocks \in Nat \ {0}
  /\ IsFiniteSet(Replicas) /\ Replicas # {}

VARIABLES
  data,    \* the content of a block on a replica
  write,   \* the write under way: block, content, replicas it has reached
  pc, ext, \* where Verify is: extent ids count from 1
  offset,  \* the block in doVerify's loop
  ctxs,    \* the checksum calls of one turn
  crc,     \* the set of checksums of one turn
  still,   \* blocks that nothing has changed since the start (history)
  counts    \* writes, decayed blocks and lost calls so far

scrubVars == <<data, write, pc, ext, offset, ctxs, crc, still, counts>>

Blocks  == (1 .. NumExtents) \X (0 .. NumBlocks - 1)
NoWrite == [at |-> <<0, 0>>, value |-> 0, reached |-> {}]

ScrubInit ==
  /\ data \in [Replicas -> [Blocks -> {0}]] /\ write = NoWrite
  /\ pc = "start" /\ ext = 0 /\ offset = 0
  /\ ctxs = [r \in Replicas |-> "none"] /\ crc = {}
  /\ still = Blocks
  /\ counts = [writes |-> 0, decays |-> 0, faults |-> 0]

Agree(b) == \A r, s \in Replicas : data[r][b] = data[s][b]
Over     == pc \in {"same", "differ", "error"}
verify   == <<pc, ext, offset, ctxs, crc>>

-----------------------------------------------------------------------------
(* The rest of the system. *)
ClientWrite(b) ==
  /\ write = NoWrite /\ counts.writes < MaxWrites
  /\ counts' = [counts EXCEPT !.writes = @ + 1]
  /\ write' = [at |-> b, value |-> counts'.writes, reached |-> {}]
  /\ still' = IF pc = "start" THEN still ELSE still \ {b}
  /\ UNCHANGED <<data, verify>>

Replicate(r) ==
  /\ write # NoWrite /\ r \notin write.reached
  /\ data' = [data EXCEPT ![r][write.at] = write.value]
  /\ write' = IF write.reached \cup {r} = Replicas THEN NoWrite ELSE [write EXCEPT !.reached = @ \cup {r}]
  /\ UNCHANGED <<verify, still, counts>>

Decay(r, b) ==
  /\ counts.decays < MaxDecays /\ counts' = [counts EXCEPT !.decays = @ + 1]
  /\ data' = [data EXCEPT ![r][b] = -1]
  /\ still' = IF pc = "start" THEN still ELSE still \ {b}
  /\ UNCHANGED <<write, verify>>

-----------------------------------------------------------------------------
(* A call to a manager or a server fails. *)
Fail == counts.faults < MaxLostCalls /\ counts' = [counts EXCEPT !.faults = @ + 1]

queryBlob ==
  /\ pc = "start"
  /\ still' = still \ (IF write = NoWrite THEN {} ELSE {write.at})
  /\ \/ pc' = "router" /\ ext' = 1 /\ UNCHANGED counts
     \/ pc' = "error" /\ UNCHANGED ext /\ Fail
  /\ UNCHANGED <<data, write, offset, ctxs, crc>>

queryRouter ==
  /\ pc = "router"
  /\ \/ pc' = "send" /\ UNCHANGED counts
     \/ pc' = "error" /\ Fail          \* getConns too
  /\ offset' = 0
  /\ UNCHANGED <<data, write, ext, ctxs, crc, still>>

(* One turn of doVerify: a call to every replica, all at once. *)
send ==
  /\ pc = "send"
  /\ ctxs' = [r \in Replicas |-> "sent"] /\ crc' = {}
  /\ pc' = "join"
  /\ UNCHANGED <<data, write, ext, offset, still, counts>>

(* The server's answer (ExtentIOService::Scrub), at a time of its own. *)
ScrubDone(r) ==
  /\ ctxs[r] = "sent"
  /\ \/ /\ ctxs' = [ctxs EXCEPT ![r] = "ok"]
        /\ crc' = crc \cup {data[r][<<ext, offset>>]}
        /\ UNCHANGED counts
     \/ ctxs' = [ctxs EXCEPT ![r] = "failed"] /\ UNCHANGED crc /\ Fail
  /\ UNCHANGED <<data, write, pc, ext, offset, still>>

(* Mutant: the last extent is left out. *)
NextBlockShort ==
  /\ offset' = IF offset + 1 < NumBlocks THEN offset + 1 ELSE 0
  /\ ext' = IF offset' = 0 THEN ext + 1 ELSE ext
  /\ pc' = IF offset' # 0 THEN "send" ELSE IF ext' >= NumExtents THEN "same" ELSE "router"

NextBlock ==
  /\ offset' = IF offset + 1 < NumBlocks THEN offset + 1 ELSE 0
  /\ ext' = IF offset' = 0 THEN ext + 1 ELSE ext
  /\ pc' = IF offset' # 0 THEN "send" ELSE IF ext' > NumExtents THEN "same" ELSE "router"

(* The calls are joined in turn; the first that failed ends it, with the   *)
(* others on their way.                                                    *)
join ==
  /\ pc = "join"
  /\ \/ /\ \E r \in Replicas : ctxs[r] = "failed"
        /\ pc' = "error" /\ UNCHANGED <<ext, offset>>
     \/ /\ \A r \in Replicas : ctxs[r] = "ok"
        /\ IF Cardinality(crc) # 1 THEN pc' = "differ" /\ UNCHANGED <<ext, offset>> ELSE NextBlock
  /\ UNCHANGED <<data, write, ctxs, crc, still, counts>>

Verify == queryBlob \/ queryRouter \/ send \/ (\E r \in Replicas : ScrubDone(r)) \/ join

ScrubNext ==
  \/ Verify
  \/ ~Over /\ \E b \in Blocks : ClientWrite(b) \/ \E r \in Replicas : Decay(r, b)
  \/ ~Over /\ \E r \in Replicas : Replicate(r)

ScrubSpec == ScrubInit /\ [][ScrubNext]_scrubVars

-----------------------------------------------------------------------------
(* Verify's answer holds for the blocks that nothing changed meanwhile: if *)
(* it found no difference they agree, all of them; if it found one, it is  *)
(* there or a block was changed while it ran.  (A write that has reached   *)
(* some replicas only is a difference to it.)                              *)
VerdictRight ==
  /\ pc = "same" => \A b \in still : Agree(b)
  /\ pc = "differ" => \E b \in Blocks : b \notin still \/ ~Agree(b)

(* Verify returns before its calls have only if one of them failed: their  *)
(* contexts go with it (scrub.cpp, doVerify).                              *)
NoneOutstanding ==
  Over /\ (\E r \in Replicas : ctxs[r] = "sent") => pc = "error" /\ \E r \in Replicas : ctxs[r] = "failed"
=============================================================================
