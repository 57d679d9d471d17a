----------------------------- MODULE ToolsProofs -----------------------------
(***************************************************************************)
(* Proofs about the tools: the scrub, for a blob of any size and any       *)
(* replicas, and the sanitizer, for any device and flags.                  *)
(***************************************************************************)
EXTENDS Tools, FiniteSetTheorems, TLAPS

Writes == [at : Blocks, value : Int, reached : SUBSET Replicas]

(* The scrub's types, and where it may be.                                 *)
ScrubTypes ==
  /\ data \in [Replicas -> [Blocks -> Int]]
  /\ write = NoWrite \/ write \in Writes
  /\ pc \in {"start", "router", "send", "join", "same", "differ", "error"}
  /\ ext \in Nat /\ offset \in 0 .. NumBlocks - 1
  /\ pc \in {"router", "send", "join"} => ext \in 1 .. NumExtents
  /\ pc \in {"start", "router"} => offset = 0
  /\ pc = "same" => ext > NumExtents
  /\ ctxs \in [Replicas -> {"none", "sent", "ok", "failed"}]
  /\ IsFiniteSet(crc)
  /\ still \subseteq Blocks
  /\ counts \in [writes : Nat, decays : Nat, faults : Nat]

(* A write under way while the scrub runs has cost its block the stillness.*)
WriteKnown ==
  /\ pc = "start" => still = Blocks
  /\ pc # "start" /\ write # NoWrite => write.at \notin still

(* The blocks behind the scrub that stood still agree.                     *)
Passed(b) == b[1] < ext \/ (b[1] = ext /\ b[2] < offset)
PassedAgree == pc \in {"router", "send", "join", "same"} => \A b \in still : Passed(b) => Agree(b)

(* The checksums of a turn are those of the replicas that have answered,   *)
(* if the block stood still.                                               *)
CrcRight ==
  pc = "join" /\ <<ext, offset>> \in still =>
    /\ \A r \in Replicas : ctxs[r] = "ok" => data[r][<<ext, offset>>] \in crc
    /\ \A x \in crc : \E r \in Replicas : ctxs[r] = "ok" /\ data[r][<<ext, offset>>] = x

(* Which calls may be on their way.                                        *)
CallsKnown ==
  /\ pc \in {"start", "router", "send"} => \A r \in Replicas : ctxs[r] \in {"none", "ok"}
  /\ pc = "join" => \A r \in Replicas : ctxs[r] # "none"
  /\ pc \in {"same", "differ"} => \A r \in Replicas : ctxs[r] = "ok"
  /\ pc = "error" => (\E r \in Replicas : ctxs[r] = "failed") \/ (\A r \in Replicas : ctxs[r] \in {"none", "ok"})

DifferRight == pc = "differ" => \E b \in Blocks : b \notin still \/ ~Agree(b)

(* The inductive invariant of the scrub.                                   *)
ScrubInv == ScrubTypes /\ WriteKnown /\ PassedAgree /\ CrcRight /\ CallsKnown /\ DifferRight

-----------------------------------------------------------------------------
(* Extents are counted from one, so no block is NoWrite's.                 *)
LEMMA BlockFacts ==
  /\ \A b \in Blocks : b[1] \in 1 .. NumExtents /\ b[2] \in 0 .. NumBlocks - 1 /\ b = <<b[1], b[2]>>
  /\ \A e \in 1 .. NumExtents, o \in 0 .. NumBlocks - 1 : <<e, o>> \in Blocks
  /\ NoWrite \notin Writes
BY BlobAssumption DEF Blocks, Writes, NoWrite

(* At the start nothing is behind.                                         *)
LEMMA ScrubStart == ScrubInit => ScrubInv
<1> SUFFICES ASSUME ScrubInit PROVE ScrubInv
  OBVIOUS
<1>1. ScrubTypes
  BY BlobAssumption, FS_EmptySet DEF ScrubInit, ScrubTypes
<1> QED
  BY <1>1 DEF ScrubInit, ScrubInv, WriteKnown, PassedAgree, CrcRight, CallsKnown, DifferRight

(* The invariant gives the verdict.                                        *)
LEMMA ScrubRight == ScrubInv => VerdictRight /\ NoneOutstanding
<1> SUFFICES ASSUME ScrubInv PROVE VerdictRight /\ NoneOutstanding
  OBVIOUS
<1> USE DEF ScrubInv
<1>1. ASSUME pc = "same", NEW b \in still
      PROVE  Agree(b)
  <2>1. Passed(b)
    BY <1>1, BlockFacts, BlobAssumption DEF ScrubTypes, Passed
  <2> QED
    BY <1>1, <2>1 DEF PassedAgree
<1>2. VerdictRight
  BY <1>1 DEF VerdictRight, DifferRight
<1>3. NoneOutstanding
  BY DEF NoneOutstanding, CallsKnown, Over
<1> QED
  BY <1>2, <1>3

(* Changes beside the scrub: only blocks that are not still change.        *)
LEMMA OthersKeep ==
  ASSUME ScrubInv, ~Over, data' \in [Replicas -> [Blocks -> Int]],
         write' = NoWrite \/ write' \in Writes, counts' \in [writes : Nat, decays : Nat, faults : Nat],
         still' \subseteq still, WriteKnown', UNCHANGED verify,
         pc # "start" => \A r \in Replicas, b \in still' : data'[r][b] = data[r][b]
  PROVE  ScrubInv'
<1> USE DEF ScrubInv
<1>1. UNCHANGED <<pc, ext, offset, ctxs, crc>>
  BY DEF verify
<1>2. ScrubTypes'
  BY <1>1 DEF ScrubTypes
<1>3. PassedAgree'
  <2> SUFFICES ASSUME pc \in {"router", "send", "join", "same"}, NEW b \in still', Passed(b)
               PROVE  \A r, s \in Replicas : data'[r][b] = data'[s][b]
    BY <1>1 DEF PassedAgree, Passed, Agree
  <2>1. \A r \in Replicas : data'[r][b] = data[r][b]
    OBVIOUS
  <2> QED
    BY <2>1 DEF PassedAgree, Agree
<1>4. CrcRight'
  BY <1>1 DEF CrcRight
<1>5. CallsKnown' /\ DifferRight'
  BY <1>1 DEF CallsKnown, DifferRight, Over
<1> QED
  BY <1>2, <1>3, <1>4, <1>5

(* A client writes, a replica takes the write, a disk loses a block.       *)
LEMMA WorldKeeps ==
  ASSUME ScrubInv, ~Over, NEW r \in Replicas, NEW b \in Blocks, ClientWrite(b) \/ Replicate(r) \/ Decay(r, b)
  PROVE  ScrubInv'
<1> USE DEF ScrubInv, ScrubTypes
<1>1. CASE ClientWrite(b)
  <2>1. counts' \in [writes : Nat, decays : Nat, faults : Nat] /\ counts'.writes \in Nat
    BY <1>1 DEF ClientWrite
  <2>2. PICK w : w = [at |-> b, value |-> counts'.writes, reached |-> {}]
    OBVIOUS
  <2>3. w \in Writes /\ w.at = b /\ write' = w
    BY <1>1, <2>1, <2>2 DEF Writes, ClientWrite
  <2>4. still' = (IF pc = "start" THEN still ELSE still \ {b}) /\ UNCHANGED <<data, pc>> /\ UNCHANGED verify
    BY <1>1 DEF ClientWrite, verify
  <2>5. WriteKnown'
    BY <2>3, <2>4 DEF WriteKnown
  <2> QED
    BY <2>1, <2>3, <2>4, <2>5, OthersKeep
<1>2. CASE Replicate(r)
  <2>1. PICK a, v : a = write.at /\ v = write.value
    OBVIOUS
  <2>2. write # NoWrite /\ write \in Writes /\ a \in Blocks /\ v \in Int
    BY <1>2, <2>1 DEF Replicate, Writes
  <2>3. data' = [data EXCEPT ![r][a] = v] /\ UNCHANGED <<still, counts, pc>> /\ UNCHANGED verify
    BY <1>2, <2>1 DEF Replicate, verify
  <2>4. data' \in [Replicas -> [Blocks -> Int]] /\ \A s \in Replicas, c \in Blocks : c # a => data'[s][c] = data[s][c]
    BY <2>2, <2>3
  <2>5. write' = NoWrite \/ (write' \in Writes /\ write'.at = a)
    BY <1>2, <2>1, <2>2 DEF Replicate, Writes
  <2>6. WriteKnown'
    BY <2>1, <2>2, <2>3, <2>5 DEF WriteKnown
  <2>7. pc # "start" => a \notin still
    BY <2>1, <2>2 DEF WriteKnown
  <2> QED
    BY <2>3, <2>4, <2>5, <2>6, <2>7, OthersKeep
<1>3. CASE Decay(r, b)
  <2>1. data' = [data EXCEPT ![r][b] = -1] /\ UNCHANGED <<write, pc>> /\ UNCHANGED verify
        /\ still' = (IF pc = "start" THEN still ELSE still \ {b})
    BY <1>3 DEF Decay, verify
  <2>2. data' \in [Replicas -> [Blocks -> Int]] /\ \A s \in Replicas, c \in Blocks : c # b => data'[s][c] = data[s][c]
    BY <2>1
  <2>3. counts' \in [writes : Nat, decays : Nat, faults : Nat]
    BY <1>3 DEF Decay
  <2>4. WriteKnown'
    BY <2>1 DEF WriteKnown
  <2> QED
    BY <2>1, <2>2, <2>3, <2>4, OthersKeep
<1> QED
  BY <1>1, <1>2, <1>3

(* The scrub's own steps before a turn ends: nothing is behind that was    *)
(* not before.                                                             *)
LEMMA TurnKeeps ==
  ASSUME ScrubInv, queryBlob \/ queryRouter \/ send \/ \E r \in Replicas : ScrubDone(r)
  PROVE  ScrubInv'
<1> USE DEF ScrubInv, ScrubTypes
<1>0. ASSUME Fail
      PROVE  counts' \in [writes : Nat, decays : Nat, faults : Nat]
  BY <1>0 DEF Fail
<1>1. CASE queryBlob
  <2>1. /\ UNCHANGED <<data, write, offset, ctxs, crc>> /\ pc = "start"
        /\ still' = still \ (IF write = NoWrite THEN {} ELSE {write.at})
        /\ (pc' = "router" /\ ext' = 1) \/ (pc' = "error" /\ ext' = ext)
        /\ counts' \in [writes : Nat, decays : Nat, faults : Nat]
    BY <1>0, <1>1 DEF queryBlob
  <2>2. ScrubTypes'
    BY <2>1, BlobAssumption
  <2>3. WriteKnown'
    BY <2>1 DEF WriteKnown
  <2>4. PassedAgree'
    <3> SUFFICES ASSUME pc' = "router", NEW b \in still', Passed(b)'
                 PROVE  FALSE
      BY <2>1 DEF PassedAgree
    <3>1. b \in Blocks
      BY <2>1
    <3> QED
      BY <2>1, <3>1, BlockFacts, BlobAssumption DEF Passed
  <2>5. CrcRight' /\ CallsKnown' /\ DifferRight'
    BY <2>1 DEF CrcRight, CallsKnown, DifferRight
  <2> QED
    BY <2>2, <2>3, <2>4, <2>5
<1>2. CASE queryRouter
  <2>1. /\ UNCHANGED <<data, write, ext, ctxs, crc, still>> /\ pc = "router" /\ pc' \in {"send", "error"}
        /\ offset' = 0 /\ offset = 0
        /\ counts' \in [writes : Nat, decays : Nat, faults : Nat]
    BY <1>0, <1>2 DEF queryRouter
  <2>2. ScrubTypes'
    BY <2>1, BlobAssumption
  <2>3. PassedAgree'
    BY <2>1 DEF PassedAgree, Passed, Agree
  <2> QED
    BY <2>1, <2>2, <2>3 DEF WriteKnown, CrcRight, CallsKnown, DifferRight
<1>3. CASE send
  <2>1. /\ UNCHANGED <<data, write, ext, offset, still, counts>> /\ pc = "send" /\ pc' = "join"
        /\ ctxs' = [r \in Replicas |-> "sent"] /\ crc' = {}
    BY <1>3 DEF send
  <2>2. ScrubTypes'
    BY <2>1, FS_EmptySet
  <2>3. PassedAgree'
    BY <2>1 DEF PassedAgree, Passed, Agree
  <2> QED
    BY <2>1, <2>2, <2>3 DEF WriteKnown, CrcRight, CallsKnown, DifferRight
<1>4. ASSUME NEW r \in Replicas, ScrubDone(r)
      PROVE  ScrubInv'
  <2>1. /\ UNCHANGED <<data, write, pc, ext, offset, still>> /\ ctxs[r] = "sent"
        /\ counts' \in [writes : Nat, decays : Nat, faults : Nat]
        /\ \/ ctxs' = [ctxs EXCEPT ![r] = "ok"] /\ crc' = crc \cup {data[r][<<ext, offset>>]}
           \/ ctxs' = [ctxs EXCEPT ![r] = "failed"] /\ crc' = crc
    BY <1>0, <1>4 DEF ScrubDone
  <2>2. IsFiniteSet(crc')
    <3>1. PICK y : y = data[r][<<ext, offset>>]
      OBVIOUS
    <3>2. IsFiniteSet(crc \cup {y})
      BY FS_AddElement
    <3> QED
      BY <2>1, <3>1, <3>2
  <2>3. ScrubTypes'
    BY <2>1, <2>2
  <2>4. WriteKnown' /\ PassedAgree' /\ DifferRight'
    BY <2>1 DEF WriteKnown, PassedAgree, DifferRight, Passed, Agree
  <2>5. CallsKnown'
    BY <2>1 DEF CallsKnown
  <2>6. CrcRight'
    <3>1. PICK b, y : b = <<ext, offset>> /\ y = data[r][b]
      OBVIOUS
    <3> SUFFICES ASSUME pc = "join", b \in still
                 PROVE  /\ \A s \in Replicas : ctxs'[s] = "ok" => data[s][b] \in crc'
                        /\ \A x \in crc' : \E s \in Replicas : ctxs'[s] = "ok" /\ data[s][b] = x
      <4>1. b = <<ext', offset'>> /\ pc' = pc /\ still' = still /\ data' = data
        BY <2>1, <3>1
      <4> QED
        BY <4>1 DEF CrcRight
    <3>2. /\ \A s \in Replicas : ctxs[s] = "ok" => data[s][b] \in crc
          /\ \A x \in crc : \E s \in Replicas : ctxs[s] = "ok" /\ data[s][b] = x
      BY <3>1 DEF CrcRight
    <3>3. CASE ctxs' = [ctxs EXCEPT ![r] = "ok"] /\ crc' = crc \cup {y}
      <4>1. \A s \in Replicas : ctxs[s] = "ok" => ctxs'[s] = "ok"
        BY <3>3
      <4>2. ctxs'[r] = "ok" /\ \A s \in Replicas : ctxs'[s] = "ok" => s = r \/ ctxs[s] = "ok"
        BY <3>3
      <4> QED
        BY <3>1, <3>2, <3>3, <4>1, <4>2
    <3>4. CASE ctxs' = [ctxs EXCEPT ![r] = "failed"] /\ crc' = crc
      BY <2>1, <3>2, <3>4
    <3> QED
      BY <2>1, <3>1, <3>3, <3>4
  <2> QED
    BY <2>3, <2>4, <2>5, <2>6
<1> QED
  BY <1>1, <1>2, <1>3, <1>4

(* When every replica has answered for a block that stood still, there is  *)
(* one checksum exactly if they agree.                                     *)
LEMMA OneChecksum ==
  ASSUME ScrubInv, pc = "join", \A r \in Replicas : ctxs[r] = "ok", <<ext, offset>> \in still
  PROVE  Cardinality(crc) = 1 <=> Agree(<<ext, offset>>)
<1> USE DEF ScrubInv, ScrubTypes
<1>1. IsFiniteSet(crc) /\ \A r \in Replicas : data[r][<<ext, offset>>] \in crc
  BY DEF CrcRight
<1>2. \A x \in crc : \E r \in Replicas : data[r][<<ext, offset>>] = x
  BY DEF CrcRight
<1>3. ASSUME Cardinality(crc) = 1
      PROVE  Agree(<<ext, offset>>)
  <2>1. PICK x : crc = {x}
    BY <1>1, <1>3, FS_Singleton
  <2> QED
    BY <1>1, <2>1 DEF Agree
<1>4. ASSUME Agree(<<ext, offset>>)
      PROVE  Cardinality(crc) = 1
  <2>1. PICK r \in Replicas : TRUE
    BY BlobAssumption
  <2>2. crc = {data[r][<<ext, offset>>]}
    BY <1>1, <1>2, <1>4, <2>1 DEF Agree
  <2> QED
    BY <2>2, FS_Singleton
<1> QED
  BY <1>3, <1>4

(* One block more is behind after NextBlock.                               *)
LEMMA OneMoreBehind ==
  ASSUME NEW b \in Blocks, ext \in Nat, offset \in 0 .. NumBlocks - 1, Passed(b)',
         \/ offset' = offset + 1 /\ ext' = ext
         \/ offset + 1 >= NumBlocks /\ offset' = 0 /\ ext' = ext + 1
  PROVE  Passed(b) \/ b = <<ext, offset>>
<1>1. PICK x \in 1 .. NumExtents, y \in 0 .. NumBlocks - 1 : b = <<x, y>>
  BY BlockFacts
<1>2. NumExtents \in Nat /\ NumBlocks \in Nat
  BY BlobAssumption
<1>3. Passed(b) <=> x < ext \/ (x = ext /\ y < offset)
  BY <1>1 DEF Passed
<1>4. x < ext' \/ (x = ext' /\ y < offset')
  BY <1>1 DEF Passed
<1>5. x < ext \/ (x = ext /\ y < offset) \/ (x = ext /\ y = offset)
  BY <1>2, <1>4
<1> QED
  BY <1>1, <1>3, <1>5

(* A turn ends: with an error, a difference, or the block behind.          *)
LEMMA JoinKeeps ==
  ASSUME ScrubInv, join
  PROVE  ScrubInv'
<1> USE DEF ScrubInv, ScrubTypes
<1>1. UNCHANGED <<data, write, ctxs, crc, still, counts>> /\ pc = "join"
  BY DEF join
<1>2. <<ext, offset>> \in Blocks
  BY <1>1, BlockFacts
<1>3. ASSUME \E r \in Replicas : ctxs[r] = "failed", pc' = "error", UNCHANGED <<ext, offset>>
      PROVE  ScrubInv'
  BY <1>1, <1>3 DEF WriteKnown, PassedAgree, CrcRight, CallsKnown, DifferRight
<1>4. ASSUME \A r \in Replicas : ctxs[r] = "ok", Cardinality(crc) # 1, pc' = "differ", UNCHANGED <<ext, offset>>
      PROVE  ScrubInv'
  <2>1. DifferRight'
    BY <1>1, <1>2, <1>4, OneChecksum DEF DifferRight, Agree
  <2> QED
    BY <1>1, <1>4, <2>1 DEF WriteKnown, PassedAgree, CrcRight, CallsKnown
<1>5. ASSUME \A r \in Replicas : ctxs[r] = "ok", Cardinality(crc) = 1, NextBlock
      PROVE  ScrubInv'
  <2>1. \/ offset + 1 < NumBlocks /\ offset' = offset + 1 /\ ext' = ext /\ pc' = "send"
        \/ /\ offset + 1 >= NumBlocks /\ offset' = 0 /\ ext' = ext + 1
           /\ pc' = IF ext' > NumExtents THEN "same" ELSE "router"
    BY <1>5, BlobAssumption DEF NextBlock
  <2>2. ScrubTypes'
    BY <1>1, <2>1, BlobAssumption
  <2>3. ASSUME NEW b \in still, Passed(b)'
        PROVE  Agree(b)
    <3>1. b \in Blocks
      OBVIOUS
    <3>2. Passed(b) \/ b = <<ext, offset>>
      BY <2>1, <2>3, <3>1, OneMoreBehind
    <3>3. Passed(b) => Agree(b)
      BY <1>1 DEF PassedAgree
    <3> QED
      BY <1>1, <1>5, <3>2, <3>3, OneChecksum
  <2>4. PassedAgree'
    BY <1>1, <2>3 DEF PassedAgree, Agree
  <2> QED
    BY <1>1, <1>5, <2>1, <2>2, <2>4 DEF WriteKnown, CrcRight, CallsKnown, DifferRight
<1> QED
  BY <1>3, <1>4, <1>5 DEF join

(* Every step keeps the scrub's invariant.                                 *)
LEMMA ScrubKeeps == ScrubInv /\ [ScrubNext]_scrubVars => ScrubInv'
<1> SUFFICES ASSUME ScrubInv, [ScrubNext]_scrubVars PROVE ScrubInv'
  OBVIOUS
<1>1. CASE UNCHANGED scrubVars
  BY <1>1 DEF scrubVars, ScrubInv, ScrubTypes, WriteKnown, PassedAgree, Passed, Agree, CrcRight, CallsKnown,
              DifferRight
<1>2. CASE Verify
  BY <1>2, TurnKeeps, JoinKeeps DEF Verify
<1>3. ASSUME NEW b \in Blocks, ~Over, ClientWrite(b) \/ \E r \in Replicas : Decay(r, b)
      PROVE  ScrubInv'
  BY <1>3, WorldKeeps, BlobAssumption
<1>4. ASSUME NEW r \in Replicas, ~Over, Replicate(r)
      PROVE  ScrubInv'
  <2>1. <<1, 0>> \in Blocks
    BY BlockFacts, BlobAssumption
  <2> QED
    BY <1>4, <2>1, WorldKeeps
<1> QED
  BY <1>1, <1>2, <1>3, <1>4 DEF ScrubNext

(* Scrub::Verify's answer is right about every block that stood still, for *)
(* any number of extents, blocks and replicas, whatever clients write      *)
(* meanwhile; no call outlives it unless one failed.                       *)
THEOREM VerdictHolds == ScrubSpec => [](VerdictRight /\ NoneOutstanding)
<1> QED
  BY ScrubStart, ScrubKeeps, ScrubRight, PTL DEF ScrubSpec

-----------------------------------------------------------------------------
(* The sanitizer.  What is launched as part i, from First(i) to Last(i).   *)
First(i) == i * part_size
Last(i)  == IF First(i) >= target_size THEN First(i) ELSE Least(First(i) + part_size, target_size)

Opts    == [num_jobs : NumJobs, block_size : BlockSizes, range_size : Ranges, verify : BOOLEAN]
JobRecs == [pc : {"none", "run", "done", "failed"}, start : Nat, end : Nat, retry_count : Nat, here : Nat]

WipeTypes ==
  /\ opt \in Opts
  /\ phase \in {"wipe", "verify", "ok", "failed"}
  /\ launched \in Nat /\ launched <= opt.num_jobs
  /\ job \in [Jobs -> JobRecs]
  /\ result \in {0, -1} /\ bad \in Nat
  /\ dirty \subseteq 0 .. DeviceSize - 1

(* A job is on its part, and what it has passed is zero.                   *)
PartOK(i) ==
  /\ i < launched <=> job[i].pc # "none"
  /\ job[i].pc # "none" =>
       /\ job[i].end = Last(i) /\ First(i) <= job[i].start /\ job[i].start <= job[i].end
       /\ phase = "wipe" => dirty \cap (First(i) .. job[i].start - 1) = {}
  /\ job[i].pc = "done" => job[i].start = job[i].end
PartsOK == Running => \A i \in Jobs : PartOK(i)

(* Failures are counted where they happen, and a job that gave up leaves   *)
(* its result.                                                             *)
RetriesOK ==
  /\ \A i \in Jobs :
       /\ job[i].here = job[i].retry_count /\ job[i].here <= Retries /\ job[i].here <= bad
       /\ job[i].pc = "failed" => job[i].here = Retries /\ result # 0
  /\ result # 0 => bad > Retries

(* Nothing beyond the range is touched; what was called wiped is.          *)
RangeOK ==
  /\ target_size .. DeviceSize - 1 \subseteq dirty
  /\ phase \in {"verify", "ok"} => dirty = target_size .. DeviceSize - 1

(* The inductive invariant of the sanitizer.                               *)
WipeInv == WipeTypes /\ PartsOK /\ RetriesOK /\ RangeOK

-----------------------------------------------------------------------------
(* Division rounds down.                                                   *)
LEMMA Division ==
  \A x, n \in Nat : n > 0 => x \div n \in Nat /\ x = n * (x \div n) + (x % n) /\ x % n \in 0 .. n - 1
<1>1. \A x, n \in Nat : n > 0 => x \div n \in Nat
  OBVIOUS
<1>2. \A x, n \in Nat : n > 0 => x = n * (x \div n) + (x % n) /\ x % n \in 0 .. n - 1
  OBVIOUS
<1> QED
  BY <1>1, <1>2

LEMMA Product == \A i, n, p \in Nat : i * p \in Nat /\ (i >= n => i * p >= n * p)
OBVIOUS

(* The range lies on the device.                                           *)
LEMMA TargetFacts ==
  ASSUME opt \in Opts
  PROVE  target_size \in Nat /\ target_size <= DeviceSize
<1>1. opt.range_size \in Ranges
  BY Zenon DEF Opts
<1>2. PICK r \in Nat : r = opt.range_size
  BY <1>1, FlagsAssumption
<1>3. PICK d \in Nat : d = DeviceSize
  BY FlagsAssumption
<1>4. target_size = IF r = 0 THEN d ELSE IF r <= d THEN r ELSE d
  BY <1>2, <1>3 DEF target_size, Least
<1> QED
  BY <1>2, <1>3, <1>4

(* A part begins and ends on the range, or is empty.                       *)
LEMMA PartFacts ==
  ASSUME opt \in Opts, opt.num_jobs > 0, NEW i \in Nat
  PROVE  /\ part_size \in Nat /\ First(i) \in Nat /\ Last(i) \in Nat
         /\ First(i) <= Last(i)
         /\ First(i) < Last(i) => Last(i) <= target_size
<1>1. PICK n \in Nat : n = opt.num_jobs
  BY FlagsAssumption DEF Opts
<1>2. PICK t \in Nat : t = target_size
  BY TargetFacts
<1>3. PICK x \in Nat : x = t + n - 1
  BY <1>1
<1>4. part_size = x \div n
  BY <1>1, <1>2, <1>3 DEF part_size
<1>5. part_size \in Nat
  BY <1>1, <1>4, Division
<1>6. PICK f \in Nat : f = First(i)
  BY <1>5, Product DEF First
<1> QED
  BY <1>2, <1>5, <1>6 DEF Last, Least

(* Every unit of the range is in a part.                                   *)
LEMMA PartsCover ==
  ASSUME opt \in Opts, opt.num_jobs > 0, NEW u \in Nat, u < target_size
  PROVE  \E i \in 0 .. opt.num_jobs - 1 : First(i) <= u /\ u < Last(i)
<1>1. PICK n \in Nat : n = opt.num_jobs
  BY FlagsAssumption DEF Opts
<1>2. PICK t \in Nat : t = target_size
  BY TargetFacts
<1>3. PICK x \in Nat : x = t + n - 1
  BY <1>1
<1>4. PICK p \in Nat : p = part_size /\ p = x \div n
  BY <1>1, <1>2, <1>3, Division DEF part_size
<1>5. n * p >= t
  BY <1>1, <1>3, <1>4, Division
<1>6. p > 0
  <2>1. n * 0 = 0
    BY <1>1
  <2> QED
    BY <1>2, <1>4, <1>5, <2>1
<1>7. PICK i \in Nat : i = u \div p
  BY <1>4, <1>6, Division
<1>8. p * i <= u /\ u < p * i + p
  BY <1>4, <1>6, <1>7, Division
<1>9. p * i = i * p
  BY <1>4, <1>7
<1>10. i < n
  <2>1. SUFFICES ASSUME i >= n PROVE FALSE
    BY <1>1, <1>7
  <2>2. i * p >= n * p /\ n * p \in Nat /\ i * p \in Nat
    BY <1>1, <1>4, <1>7, <2>1, Product
  <2> QED
    BY <1>2, <1>5, <1>8, <1>9, <2>2
<1>11. First(i) = i * p
  BY <1>4 DEF First
<1>12. i * p \in Nat
  BY <1>4, <1>7, Product
<1>13. First(i) <= u /\ u < Last(i)
  BY <1>2, <1>4, <1>8, <1>9, <1>11, <1>12 DEF Last, Least
<1> QED
  BY <1>1, <1>7, <1>10, <1>13

(* Only opt counts for the parts.                                          *)
LEMMA SameParts ==
  ASSUME UNCHANGED opt
  PROVE  target_size' = target_size /\ part_size' = part_size /\ \A i : First(i)' = First(i) /\ Last(i)' = Last(i)
BY DEF target_size, part_size, First, Last, Least

(* The tool begins with a device of which nothing is known.                *)
LEMMA WipeStart == WipeInit => WipeInv
<1> SUFFICES ASSUME WipeInit PROVE WipeInv
  OBVIOUS
<1>0. Jobs \subseteq Nat
  BY FlagsAssumption DEF Jobs
<1>1. NoJob \in JobRecs /\ NoJob.pc = "none" /\ NoJob.here = 0 /\ NoJob.retry_count = 0
  BY DEF NoJob, JobRecs
<1>2. opt \in Opts /\ job \in [Jobs -> JobRecs] /\ \A i \in Jobs : job[i] = NoJob
  BY <1>1 DEF WipeInit, Opts
<1>3. WipeTypes
  <2>1. opt.num_jobs \in Nat
    BY <1>2, FlagsAssumption DEF Opts
  <2>2. launched \in Nat /\ launched <= opt.num_jobs /\ result \in {0, -1} /\ bad \in Nat
    BY <2>1 DEF WipeInit
  <2>3. phase \in {"wipe", "verify", "ok", "failed"} /\ dirty \subseteq 0 .. DeviceSize - 1
    BY DEF WipeInit
  <2> QED
    BY <1>2, <2>2, <2>3 DEF WipeTypes
<1>4. PartsOK
  BY <1>0, <1>1, <1>2 DEF WipeInit, PartsOK, PartOK
<1>5. RetriesOK
  BY <1>1, <1>2 DEF WipeInit, RetriesOK, Retries
<1>6. RangeOK
  <2>1. target_size .. DeviceSize - 1 \subseteq 0 .. DeviceSize - 1
    BY <1>2, TargetFacts, FlagsAssumption
  <2> QED
    BY <2>1 DEF WipeInit, RangeOK
<1> QED
  BY <1>3, <1>4, <1>5, <1>6 DEF WipeInv

(* What is known of a job, and of the sizes it works with.                 *)
LEMMA JobFacts ==
  ASSUME WipeTypes, NEW i \in Jobs
  PROVE  /\ i \in Nat /\ job[i] \in JobRecs
         /\ job[i].start \in Nat /\ job[i].end \in Nat /\ job[i].retry_count \in Nat /\ job[i].here \in Nat
         /\ opt.num_jobs \in Nat /\ block_size \in Nat
<1>1. i \in Nat
  BY FlagsAssumption DEF Jobs
<1>2. job[i] \in JobRecs
  BY DEF WipeTypes
<1>3. opt.num_jobs \in Nat
  BY FlagsAssumption, Zenon DEF WipeTypes, Opts
<1>4. opt.block_size \in Nat
  BY FlagsAssumption, Zenon DEF WipeTypes, Opts
<1>5. block_size \in Nat
  BY <1>4 DEF block_size
<1> QED
  BY <1>1, <1>2, <1>3, <1>5 DEF JobRecs

(* A running job with work left is inside the range, and a block of it too. *)
LEMMA WipeBlockFacts ==
  ASSUME WipeInv, NEW i \in Jobs, Doing(i), job[i].start < job[i].end
  PROVE  /\ BlockLen(i) \in Nat /\ job[i].start + BlockLen(i) <= job[i].end
         /\ First(i) \in Nat /\ First(i) <= job[i].start /\ job[i].end = Last(i)
         /\ job[i].end <= target_size /\ target_size \in Nat
<1>1. PartOK(i) /\ job[i].pc = "run" /\ WipeTypes
  BY DEF WipeInv, PartsOK, Doing
<1>2. opt \in Opts /\ opt.num_jobs > 0
  BY <1>1, JobFacts DEF PartOK, WipeTypes
<1>3. First(i) \in Nat /\ Last(i) \in Nat /\ (First(i) < Last(i) => Last(i) <= target_size)
  BY <1>1, <1>2, JobFacts, PartFacts
<1>4. First(i) <= job[i].start /\ job[i].end = Last(i)
  BY <1>1 DEF PartOK
<1>5. BlockLen(i) \in Nat /\ job[i].start + BlockLen(i) <= job[i].end
  BY <1>1, JobFacts DEF BlockLen, Least
<1>6. target_size \in Nat
  BY <1>2, TargetFacts
<1>7. job[i].end <= target_size
  BY <1>1, <1>3, <1>4, <1>6, JobFacts
<1> QED
  BY <1>3, <1>4, <1>5, <1>6, <1>7

(* A job moves and the rest of the tool stays: what must be shown of it.   *)
LEMMA OneJobMoves ==
  ASSUME WipeInv, NEW i \in Jobs, Doing(i), UNCHANGED <<opt, phase, launched>>,
         NEW r \in JobRecs, job' = [job EXCEPT ![i] = r],
         r.pc \in {"run", "done", "failed"}, r.end = job[i].end,
         job[i].start <= r.start, r.start <= r.end,
         r.pc = "done" => r.start = r.end,
         dirty' \subseteq dirty, phase = "verify" => dirty' = dirty,
         phase = "wipe" => dirty' \cap (job[i].start .. r.start - 1) = {},
         target_size .. DeviceSize - 1 \subseteq dirty',
         result' \in {0, -1}, bad' \in Nat, bad' >= bad,
         r.here = r.retry_count, r.here <= Retries, r.here <= bad',
         r.pc = "failed" => r.here = Retries /\ result' # 0,
         result # 0 => result' # 0,
         result' # 0 => bad' > Retries
  PROVE  WipeInv'
<1>0. WipeTypes /\ PartsOK /\ RetriesOK /\ RangeOK /\ Running
  BY DEF WipeInv, Doing
<1>1. WipeTypes'
  BY <1>0 DEF WipeTypes
<1>2. job'[i] = r /\ \A j \in Jobs : j # i => job'[j] = job[j]
  BY <1>0 DEF WipeTypes
<1>3. PartOK(i)'
  <2>1. PartOK(i) /\ job[i].pc = "run"
    BY <1>0 DEF PartsOK, Doing
  <2>2. i < launched /\ First(i) <= job[i].start /\ job[i].end = Last(i)
    BY <2>1 DEF PartOK
  <2>3. opt \in Opts /\ opt.num_jobs > 0
    BY <1>0, <2>2, JobFacts DEF WipeTypes
  <2>4. First(i) \in Nat
    BY <1>0, <2>3, JobFacts, PartFacts
  <2>5. First(i)' = First(i) /\ Last(i)' = Last(i)
    BY SameParts
  <2>6. job'[i].end = Last(i) /\ First(i) <= job'[i].start /\ job'[i].start <= job'[i].end
    BY <1>0, <1>2, <2>2, <2>4, JobFacts DEF JobRecs
  <2>7. phase = "wipe" => dirty' \cap (First(i) .. job'[i].start - 1) = {}
    <3>1. HAVE phase = "wipe"
    <3>2. dirty \cap (First(i) .. job[i].start - 1) = {}
      BY <2>1, <3>1 DEF PartOK
    <3>3. r.start \in Nat
      BY DEF JobRecs
    <3>4. ASSUME NEW u \in First(i) .. r.start - 1
          PROVE  u \in First(i) .. job[i].start - 1 \/ u \in job[i].start .. r.start - 1
      BY <1>0, <2>4, <3>3, <3>4, JobFacts
    <3> QED
      BY <1>2, <3>1, <3>2, <3>4
  <2> QED
    BY <1>2, <2>2, <2>5, <2>6, <2>7 DEF PartOK
<1>4. ASSUME NEW j \in Jobs, j # i PROVE PartOK(j)'
  <2>1. PartOK(j)
    BY <1>0 DEF PartsOK
  <2>2. First(j)' = First(j) /\ Last(j)' = Last(j)
    BY SameParts
  <2> QED
    BY <1>2, <1>4, <2>1, <2>2 DEF PartOK
<1>5. PartsOK'
  BY <1>3, <1>4 DEF PartsOK
<1>6. RetriesOK'
  <2>1. ASSUME NEW j \in Jobs
        PROVE  /\ job'[j].here = job'[j].retry_count /\ job'[j].here <= Retries /\ job'[j].here <= bad'
               /\ job'[j].pc = "failed" => job'[j].here = Retries /\ result' # 0
    <3>1. CASE j = i
      BY <1>2, <3>1
    <3>2. CASE j # i
      BY <1>0, <1>2, <3>2, JobFacts DEF RetriesOK, WipeTypes
    <3> QED
      BY <3>1, <3>2
  <2> QED
    BY <2>1 DEF RetriesOK
<1>7. RangeOK'
  <2>1. target_size' = target_size
    BY SameParts
  <2> QED
    BY <1>0, <2>1 DEF RangeOK, Running
<1> QED
  BY <1>1, <1>5, <1>6, <1>7 DEF WipeInv

(* The job that ends, or goes on, is still a job.                          *)
LEMMA EndFacts ==
  ASSUME WipeInv, NEW i \in Jobs, NEW res \in {0, -1}, End(i, res)
  PROVE  \E r \in JobRecs :
           /\ job' = [job EXCEPT ![i] = r]
           /\ r.pc = (IF res = 0 THEN "done" ELSE "failed")
           /\ r.start = job[i].start /\ r.end = job[i].end
           /\ r.retry_count = job[i].retry_count /\ r.here = job[i].here
<1> DEFINE r == [job[i] EXCEPT !.pc = IF res = 0 THEN "done" ELSE "failed"]
<1>1. job[i] \in JobRecs
  BY JobFacts DEF WipeInv
<1>2. r \in JobRecs
  BY <1>1 DEF JobRecs
<1>3. job' = [job EXCEPT ![i] = r]
  BY DEF End
<1>4. r.pc = (IF res = 0 THEN "done" ELSE "failed") /\ r.start = job[i].start /\ r.end = job[i].end
      /\ r.retry_count = job[i].retry_count /\ r.here = job[i].here
  BY <1>1 DEF JobRecs
<1> QED
  BY <1>2, <1>3, <1>4

LEMMA RunFailsKeeps == WipeInv /\ RunFails => WipeInv'
<1> SUFFICES ASSUME WipeInv, RunFails PROVE WipeInv'
  OBVIOUS
<1>1. WipeTypes'
  BY DEF WipeInv, WipeTypes, RunFails
<1>2. PartsOK' /\ RetriesOK'
  BY DEF WipeInv, PartsOK, Running, RunFails, RetriesOK
<1>3. target_size' = target_size
  BY SameParts DEF RunFails
<1>4. RangeOK'
  BY <1>3 DEF WipeInv, RangeOK, RunFails
<1> QED
  BY <1>1, <1>2, <1>4 DEF WipeInv

(* A thread is started on its part, or the tool fails.                     *)
LEMMA LaunchKeeps ==
  ASSUME WipeInv, NEW i \in Jobs, launchJobs(i)
  PROVE  WipeInv'
<1>0. WipeTypes /\ PartsOK /\ RetriesOK /\ RangeOK /\ Running /\ launched = i /\ i < opt.num_jobs
  BY DEF WipeInv, launchJobs
<1>1. UNCHANGED <<opt, result, dirty, bad>>
  BY DEF launchJobs
<1>2. target_size' = target_size /\ \A j \in Jobs : First(j)' = First(j) /\ Last(j)' = Last(j)
  BY <1>1, SameParts
<1>3. CASE phase' = "failed" /\ UNCHANGED <<launched, job>>
  <2>1. WipeTypes'
    BY <1>0, <1>1, <1>3 DEF WipeTypes
  <2>2. PartsOK' /\ RetriesOK'
    BY <1>0, <1>1, <1>3 DEF PartsOK, Running, RetriesOK
  <2>3. RangeOK'
    BY <1>0, <1>1, <1>2, <1>3 DEF RangeOK
  <2> QED
    BY <2>1, <2>2, <2>3 DEF WipeInv
<1>4. CASE /\ launched' = i + 1 /\ phase' = phase
           /\ job' = [job EXCEPT ![i] = [NoJob EXCEPT !.pc = "run", !.start = First(i), !.end = Last(i)]]
  <2> DEFINE r == [NoJob EXCEPT !.pc = "run", !.start = First(i), !.end = Last(i)]
  <2>1. opt \in Opts /\ opt.num_jobs > 0
    BY <1>0, JobFacts DEF WipeTypes
  <2>2. First(i) \in Nat /\ Last(i) \in Nat /\ First(i) <= Last(i)
    BY <1>0, <2>1, JobFacts, PartFacts
  <2>3. /\ r \in JobRecs /\ r.pc = "run" /\ r.start = First(i) /\ r.end = Last(i)
        /\ r.here = 0 /\ r.retry_count = 0
    BY <2>2 DEF NoJob, JobRecs
  <2>4. job' = [job EXCEPT ![i] = r]
    BY <1>4
  <2> HIDE DEF r
  <2>5. job'[i] = r /\ (\A j \in Jobs : j # i => job'[j] = job[j]) /\ job' \in [Jobs -> JobRecs]
    BY <1>0, <2>3, <2>4 DEF WipeTypes
  <2>6. WipeTypes'
    BY <1>0, <1>1, <1>4, <2>5, JobFacts DEF WipeTypes
  <2>7. PartOK(i)'
    <3>1. First(i) .. r.start - 1 = {}
      BY <2>2, <2>3
    <3> QED
      BY <1>0, <1>1, <1>2, <1>4, <2>2, <2>3, <2>5, <3>1, JobFacts DEF PartOK
  <2>8. ASSUME NEW j \in Jobs, j # i PROVE PartOK(j)'
    <3>1. PartOK(j)
      BY <1>0 DEF PartsOK
    <3>2. j < launched <=> j < launched'
      BY <1>0, <1>4, <2>8, JobFacts
    <3> QED
      BY <1>1, <1>2, <1>4, <2>5, <2>8, <3>1, <3>2 DEF PartOK
  <2>9. PartsOK'
    BY <2>7, <2>8 DEF PartsOK
  <2>10. RetriesOK'
    <3>1. bad \in Nat
      BY <1>0 DEF WipeTypes
    <3>2. ASSUME NEW j \in Jobs
          PROVE  /\ job'[j].here = job'[j].retry_count /\ job'[j].here <= Retries /\ job'[j].here <= bad'
                 /\ job'[j].pc = "failed" => job'[j].here = Retries /\ result' # 0
      <4>1. CASE j = i
        BY <1>1, <2>3, <2>5, <3>1, <4>1 DEF Retries
      <4>2. CASE j # i
        BY <1>0, <1>1, <2>5, <4>2 DEF RetriesOK
      <4> QED
        BY <4>1, <4>2
    <3> QED
      BY <1>0, <1>1, <3>2 DEF RetriesOK
  <2>11. RangeOK'
    BY <1>0, <1>1, <1>2, <1>4 DEF RangeOK
  <2> QED
    BY <2>6, <2>9, <2>10, <2>11 DEF WipeInv
<1> QED
  BY <1>3, <1>4 DEF launchJobs, First, Last

(* A block: the wiped one is inside the part, the one read back is zero.   *)
LEMMA BlockKeeps ==
  ASSUME WipeInv, NEW i \in Jobs, doBlock(i)
  PROVE  WipeInv'
<1> DEFINE at == job[i].start .. job[i].start + BlockLen(i) - 1
<1>0. WipeTypes /\ RetriesOK /\ RangeOK /\ Doing(i) /\ job[i].start < job[i].end
  BY DEF WipeInv, doBlock
<1>1. UNCHANGED <<opt, phase, launched, bad>>
  BY DEF doBlock
<1>2. /\ BlockLen(i) \in Nat /\ job[i].start + BlockLen(i) <= job[i].end
      /\ job[i].end <= target_size /\ target_size \in Nat
  BY <1>0, WipeBlockFacts
<1>3. at \cap (target_size .. DeviceSize - 1) = {}
  BY <1>0, <1>2, JobFacts, FlagsAssumption
<1>4. phase = "verify" => dirty \cap at = {}
  BY <1>0, <1>3 DEF RangeOK
<1>5. /\ job' = [job EXCEPT ![i].start = @ + BlockLen(i), ![i].retry_count = 0, ![i].here = 0]
      /\ dirty' = IF phase = "wipe" THEN dirty \ at ELSE dirty
      /\ UNCHANGED result
  BY <1>4 DEF doBlock
<1> DEFINE r == [job[i] EXCEPT !.start = job[i].start + BlockLen(i), !.retry_count = 0, !.here = 0]
<1>6. job' = [job EXCEPT ![i] = r]
  BY <1>0, <1>5 DEF WipeTypes
<1>7. /\ r \in JobRecs /\ r.pc = "run" /\ r.end = job[i].end /\ r.here = 0 /\ r.retry_count = 0
      /\ r.start = job[i].start + BlockLen(i)
  <2>1. PICK s \in Nat : s = job[i].start + BlockLen(i)
    BY <1>0, <1>2, JobFacts
  <2>2. job[i] \in JobRecs /\ job[i].pc = "run"
    BY <1>0, JobFacts DEF Doing
  <2>3. r = [job[i] EXCEPT !.start = s, !.retry_count = 0, !.here = 0]
    BY <2>1
  <2> HIDE DEF r
  <2> QED
    BY <2>1, <2>2, <2>3 DEF JobRecs
<1>8. job[i].start <= r.start /\ r.start <= r.end
  BY <1>0, <1>2, <1>7, JobFacts
<1> HIDE DEF r
<1>9. /\ dirty' \subseteq dirty /\ (phase = "verify" => dirty' = dirty)
      /\ phase = "wipe" => dirty' \cap (job[i].start .. r.start - 1) = {}
      /\ target_size .. DeviceSize - 1 \subseteq dirty'
  <2>1. at = job[i].start .. r.start - 1
    BY <1>0, <1>2, <1>7, JobFacts
  <2>2. target_size .. DeviceSize - 1 \subseteq dirty
    BY <1>0 DEF RangeOK
  <2> HIDE DEF at
  <2>3. CASE phase = "wipe"
    BY <1>3, <1>5, <2>1, <2>2, <2>3
  <2>4. CASE phase # "wipe"
    BY <1>5, <2>2, <2>4
  <2> QED
    BY <2>3, <2>4
<1>10. bad \in Nat /\ result \in {0, -1} /\ (result # 0 => bad > Retries)
  BY <1>0 DEF WipeTypes, RetriesOK
<1>11. r.here = r.retry_count /\ r.here <= Retries /\ r.here <= bad'
  BY <1>1, <1>7, <1>10 DEF Retries
<1> QED
  <2>1. result' \in {0, -1} /\ bad' \in Nat /\ bad' >= bad /\ (result # 0 => result' # 0) /\ (result' # 0 => bad' > Retries)
    BY <1>1, <1>5, <1>10
  <2>2. r \in JobRecs /\ r.pc = "run" /\ r.end = job[i].end
    BY <1>7
  <2> HIDE DEF at
  <2> QED
    BY <1>0, <1>1, <1>6, <1>8, <1>9, <1>11, <2>1, <2>2, OneJobMoves

(* A short read or write: tried again at the same place, or given up.      *)
LEMMA RetryKeeps ==
  ASSUME WipeInv, NEW i \in Jobs, retry(i)
  PROVE  WipeInv'
<1>0. WipeTypes /\ RetriesOK /\ RangeOK /\ Doing(i) /\ job[i].start < job[i].end /\ job[i].pc = "run"
  BY DEF WipeInv, retry, Doing
<1>1. UNCHANGED <<opt, phase, launched>> /\ bad' = bad + 1 /\ bad \in Nat /\ bad' \in Nat /\ bad' >= bad
  BY <1>0 DEF retry, WipeTypes
<1>2. /\ BlockLen(i) \in Nat /\ job[i].start + BlockLen(i) <= job[i].end
      /\ job[i].end <= target_size /\ target_size \in Nat
  BY <1>0, WipeBlockFacts
<1>3. PICK n \in 0 .. BlockLen(i) - 1 :
        dirty' = IF phase = "wipe" THEN dirty \ (job[i].start .. job[i].start + n - 1) ELSE dirty
  BY DEF retry
<1>4. (job[i].start .. job[i].start + n - 1) \cap (target_size .. DeviceSize - 1) = {}
  BY <1>0, <1>2, JobFacts, FlagsAssumption
<1>5. /\ dirty' \subseteq dirty /\ (phase = "verify" => dirty' = dirty)
      /\ target_size .. DeviceSize - 1 \subseteq dirty'
  BY <1>0, <1>3, <1>4 DEF RangeOK
<1>6. job[i].start .. job[i].start - 1 = {}
  BY <1>0, JobFacts
<1>7. /\ job[i].here = job[i].retry_count /\ job[i].here <= Retries /\ job[i].here <= bad
      /\ result \in {0, -1} /\ (result # 0 => bad > Retries)
  BY <1>0 DEF RetriesOK, WipeTypes
<1>8. CASE job[i].retry_count < Retries
  <2> DEFINE r == [job[i] EXCEPT !.retry_count = job[i].retry_count + 1, !.here = job[i].here + 1]
  <2>1. job' = [job EXCEPT ![i] = r] /\ UNCHANGED result
    BY <1>0, <1>8 DEF retry, WipeTypes
  <2>2. /\ r \in JobRecs /\ r.pc = "run" /\ r.end = job[i].end /\ r.start = job[i].start
        /\ r.here = job[i].here + 1 /\ r.retry_count = job[i].retry_count + 1
    <3>1. job[i].retry_count + 1 \in Nat /\ job[i].here + 1 \in Nat
      BY <1>0, JobFacts
    <3>2. PICK c \in Nat : c = job[i].retry_count + 1
      BY <3>1
    <3>4. PICK h \in Nat : h = job[i].here + 1
      BY <3>1
    <3>5. r = [job[i] EXCEPT !.retry_count = c, !.here = h]
      BY <3>2, <3>4
    <3>3. job[i] \in JobRecs
      BY <1>0, JobFacts
    <3> HIDE DEF r
    <3> QED
      BY <1>0, <3>2, <3>3, <3>4, <3>5 DEF JobRecs
  <2> HIDE DEF r
  <2>3. r.here = r.retry_count /\ r.here <= Retries /\ r.here <= bad'
    BY <1>0, <1>1, <1>7, <1>8, <2>2, JobFacts DEF Retries
  <2>4. job[i].start <= r.start /\ r.start <= r.end
    BY <1>0, <2>2, JobFacts
  <2>5. phase = "wipe" => dirty' \cap (job[i].start .. r.start - 1) = {}
    BY <1>6, <2>2
  <2>6. result' \in {0, -1} /\ (result' # 0 => bad' > Retries) /\ (result # 0 => result' # 0)
    BY <1>1, <1>7, <2>1 DEF Retries
  <2> QED
    BY <1>0, <1>1, <1>5, <2>1, <2>2, <2>3, <2>4, <2>5, <2>6, OneJobMoves
<1>9. CASE ~(job[i].retry_count < Retries)
  <2>1. End(i, -1)
    BY <1>9 DEF retry
  <2>2. result' = -1
    BY <2>1 DEF End
  <2>3. PICK r \in JobRecs :
           /\ job' = [job EXCEPT ![i] = r] /\ r.pc = "failed"
           /\ r.start = job[i].start /\ r.end = job[i].end
           /\ r.retry_count = job[i].retry_count /\ r.here = job[i].here
    BY <2>1, EndFacts
  <2>4. r.here = Retries /\ r.here = r.retry_count /\ r.here <= Retries /\ r.here <= bad' /\ bad' > Retries
    BY <1>0, <1>1, <1>7, <1>9, <2>3, JobFacts DEF Retries
  <2>5. job[i].start <= r.start /\ r.start <= r.end
    BY <1>0, <2>3, JobFacts
  <2>6. phase = "wipe" => dirty' \cap (job[i].start .. r.start - 1) = {}
    BY <1>6, <2>3
  <2>7. result' \in {0, -1} /\ result' # 0
    BY <2>2
  <2> QED
    BY <1>0, <1>1, <1>5, <2>3, <2>4, <2>5, <2>6, <2>7, OneJobMoves
<1> QED
  BY <1>8, <1>9

(* A job ends at the end of its part.                                      *)
LEMMA JobEndKeeps ==
  ASSUME WipeInv, NEW i \in Jobs, doJobEnds(i)
  PROVE  WipeInv'
<1>0. WipeTypes /\ RetriesOK /\ RangeOK /\ Doing(i) /\ job[i].start >= job[i].end /\ job[i].pc = "run"
  BY DEF WipeInv, doJobEnds, Doing
<1>1. UNCHANGED <<opt, phase, launched, dirty, bad>> /\ End(i, 0)
  BY DEF doJobEnds
<1>2. result' = result
  BY <1>1 DEF End
<1>3. PICK r \in JobRecs :
         /\ job' = [job EXCEPT ![i] = r] /\ r.pc = "done"
         /\ r.start = job[i].start /\ r.end = job[i].end
         /\ r.retry_count = job[i].retry_count /\ r.here = job[i].here
  BY <1>1, EndFacts
<1>4. PartOK(i)
  BY <1>0 DEF WipeInv, PartsOK, Doing
<1>5. r.start = r.end /\ job[i].start <= r.start /\ r.start <= r.end
  BY <1>0, <1>3, <1>4, JobFacts DEF PartOK
<1>6. job[i].start .. r.start - 1 = {}
  BY <1>0, <1>3, JobFacts
<1>7. /\ job[i].here = job[i].retry_count /\ job[i].here <= Retries /\ job[i].here <= bad /\ bad \in Nat
      /\ result \in {0, -1} /\ (result # 0 => bad > Retries)
  BY <1>0 DEF RetriesOK, WipeTypes
<1>8. r.here = r.retry_count /\ r.here <= Retries /\ r.here <= bad' /\ bad' \in Nat /\ bad' >= bad
  BY <1>1, <1>3, <1>7
<1>9. /\ dirty' \subseteq dirty /\ (phase = "verify" => dirty' = dirty)
      /\ phase = "wipe" => dirty' \cap (job[i].start .. r.start - 1) = {}
      /\ target_size .. DeviceSize - 1 \subseteq dirty'
  BY <1>0, <1>1, <1>6 DEF RangeOK
<1> QED
  BY <1>0, <1>1, <1>2, <1>3, <1>5, <1>7, <1>8, <1>9, OneJobMoves

(* When the parts are done the whole range is: they cover it.              *)
LEMMA AllWiped ==
  ASSUME WipeInv, phase = "wipe", result = 0, opt.num_jobs > 0, launched = opt.num_jobs,
         \A i \in Jobs : job[i].pc # "run"
  PROVE  dirty = target_size .. DeviceSize - 1
<1>0. WipeTypes /\ PartsOK /\ RetriesOK /\ RangeOK /\ Running /\ opt \in Opts
  BY DEF WipeInv, Running, WipeTypes
<1>1. target_size .. DeviceSize - 1 \subseteq dirty /\ dirty \subseteq 0 .. DeviceSize - 1
  BY <1>0 DEF RangeOK, WipeTypes
<1>2. target_size \in Nat
  BY <1>0, TargetFacts
<1>3. opt.num_jobs \in NumJobs
  BY <1>0, Zenon DEF Opts
<1>4. ASSUME NEW u \in dirty, u < target_size PROVE FALSE
  <2>1. u \in Nat
    BY <1>1, FlagsAssumption
  <2>2. PICK i \in 0 .. opt.num_jobs - 1 : First(i) <= u /\ u < Last(i)
    BY <1>0, <1>4, <2>1, PartsCover
  <2>3. i \in Jobs
    BY <1>3 DEF Jobs
  <2>4. PartOK(i)
    BY <1>0, <2>3 DEF PartsOK
  <2>5. i < launched
    <3>1. opt.num_jobs \in Nat
      BY <1>3, FlagsAssumption
    <3> QED
      BY <3>1
  <2>6. job[i].pc # "none" /\ job[i].pc # "failed" /\ job[i].pc # "run"
    BY <1>0, <2>3, <2>4, <2>5 DEF PartOK, RetriesOK
  <2>7. job[i].pc = "done"
    BY <1>0, <2>3, <2>6, JobFacts DEF JobRecs
  <2>8. job[i].start = Last(i) /\ dirty \cap (First(i) .. job[i].start - 1) = {}
    BY <2>4, <2>7 DEF PartOK
  <2>9. First(i) \in Nat /\ Last(i) \in Nat
    BY <1>0, <2>3, JobFacts, PartFacts
  <2>10. u \in First(i) .. Last(i) - 1
    BY <2>1, <2>2, <2>9
  <2> QED
    BY <1>4, <2>8, <2>10
<1>5. ASSUME NEW u \in dirty PROVE u \in target_size .. DeviceSize - 1
  BY <1>1, <1>2, <1>4, <1>5, FlagsAssumption
<1> QED
  BY <1>1, <1>5

(* Run returns: the next pass begins with no thread, or the tool ends.     *)
LEMMA WaitKeeps == WipeInv /\ waitJobs => WipeInv'
<1> SUFFICES ASSUME WipeInv, waitJobs PROVE WipeInv'
  OBVIOUS
<1>0. WipeTypes /\ PartsOK /\ RetriesOK /\ RangeOK /\ Running /\ opt \in Opts
  BY DEF WipeInv, waitJobs, WipeTypes
<1>1. UNCHANGED <<opt, result, dirty, bad>> /\ launched' = 0
  BY DEF waitJobs
<1>2. target_size' = target_size
  BY <1>1, SameParts
<1>3. opt.num_jobs > 0 /\ launched = opt.num_jobs /\ \A i \in Jobs : job[i].pc # "run"
  BY DEF waitJobs
<1>4. \/ phase' = "failed"
      \/ phase' \in {"verify", "ok"} /\ result = 0
  BY DEF waitJobs
<1>5. opt.num_jobs \in Nat
  BY <1>0, FlagsAssumption, Zenon DEF Opts
<1>6. CASE phase' = "failed"
  <2>1. job' = job
    BY <1>0, <1>6 DEF waitJobs, WipeTypes
  <2>2. WipeTypes'
    BY <1>0, <1>1, <1>5, <1>6, <2>1 DEF WipeTypes
  <2>3. PartsOK' /\ RetriesOK'
    BY <1>0, <1>1, <1>6, <2>1 DEF PartsOK, Running, RetriesOK
  <2>4. RangeOK'
    BY <1>0, <1>1, <1>2, <1>6 DEF RangeOK
  <2> QED
    BY <2>2, <2>3, <2>4 DEF WipeInv
<1>7. CASE phase' \in {"verify", "ok"} /\ result = 0
  <2>1. NoJob \in JobRecs /\ NoJob.pc = "none" /\ NoJob.here = 0 /\ NoJob.retry_count = 0
    BY DEF NoJob, JobRecs
  <2>2. job' = [i \in Jobs |-> NoJob]
    BY <1>7 DEF waitJobs
  <2>3. WipeTypes'
    BY <1>0, <1>1, <1>5, <1>7, <2>1, <2>2 DEF WipeTypes
  <2>4. PartsOK'
    BY <1>0, <1>1, <2>1, <2>2, JobFacts DEF PartsOK, PartOK
  <2>5. RetriesOK'
    BY <1>0, <1>1, <2>1, <2>2 DEF RetriesOK, Retries, WipeTypes
  <2>6. dirty = target_size .. DeviceSize - 1
    BY <1>0, <1>3, <1>7, AllWiped DEF RangeOK, Running
  <2>7. RangeOK'
    BY <1>0, <1>1, <1>2, <2>6 DEF RangeOK
  <2> QED
    BY <2>3, <2>4, <2>5, <2>7 DEF WipeInv
<1> QED
  BY <1>4, <1>6, <1>7

(* Every step of the sanitizer keeps the invariant.                        *)
LEMMA WipeKeeps == WipeInv /\ [WipeNext]_wipeVars => WipeInv'
<1> SUFFICES ASSUME WipeInv, [WipeNext]_wipeVars PROVE WipeInv'
  OBVIOUS
<1>1. CASE RunFails
  BY <1>1, RunFailsKeeps
<1>2. CASE waitJobs
  BY <1>2, WaitKeeps
<1>3. ASSUME NEW i \in Jobs, launchJobs(i) PROVE WipeInv'
  BY <1>3, LaunchKeeps
<1>4. ASSUME NEW i \in Jobs, doJob(i) PROVE WipeInv'
  BY <1>4, BlockKeeps, RetryKeeps, JobEndKeeps DEF doJob
<1>5. CASE UNCHANGED wipeVars
  <2>1. UNCHANGED <<opt, phase, launched, job, result, dirty, bad>>
    BY <1>5 DEF wipeVars
  <2>2. WipeTypes' /\ RetriesOK'
    BY <2>1 DEF WipeInv, WipeTypes, RetriesOK
  <2>3. target_size' = target_size /\ \A i \in Jobs : First(i)' = First(i) /\ Last(i)' = Last(i)
    BY <2>1, SameParts
  <2>4. PartsOK' /\ RangeOK'
    BY <2>1, <2>3 DEF WipeInv, PartsOK, PartOK, Running, RangeOK
  <2> QED
    BY <2>2, <2>4 DEF WipeInv
<1> QED
  BY <1>1, <1>2, <1>3, <1>4, <1>5 DEF WipeNext

(* The invariant says what the tool reports.                               *)
LEMMA WipeRight == WipeInv => WipedExactly /\ FourInARow
BY DEF WipeInv, WipedExactly, FourInARow, RangeOK, RetriesOK

(* A device the sanitizer calls wiped is zero on its range and untouched   *)
(* beyond it, for every device, range, block and number of jobs; the       *)
(* verification of it fails only after four short reads in a row, and so   *)
(* does every job.                                                         *)
THEOREM WipeHolds == WipeSpec => [](WipedExactly /\ FourInARow)
  BY WipeStart, WipeKeeps, WipeRight, PTL DEF WipeSpec

(* Both tools report what is true.                                         *)
THEOREM ToolsReportTruth == ToolsSpec => []ToolsTruthful
<1>1. ScrubSpec /\ WipeSpec => [](VerdictRight /\ NoneOutstanding) /\ [](WipedExactly /\ FourInARow)
  BY VerdictHolds, WipeHolds
<1>2. (VerdictRight /\ NoneOutstanding) /\ (WipedExactly /\ FourInARow) => ToolsTruthful
  BY DEF ToolsTruthful
<1> QED
  BY <1>1, <1>2, PTL DEF ToolsSpec
=============================================================================
