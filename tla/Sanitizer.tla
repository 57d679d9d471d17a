------------------------------ MODULE Sanitizer ------------------------------
(***************************************************************************)
(* The tool that wipes a device before an extent server uses it, and reads *)
(* it back when asked to: main runs one Sanitizer that writes zeros and,   *)
(* if that went well, a second one that reads, with blocks twice the size. *)
(* Run cuts the range into parts, a thread for each; a failed read or      *)
(* write is tried three times more.  Sizes are counted in units.           *)
(***************************************************************************)
EXTENDS Integers

CONSTANTS
  NumJobs, BlockSizes, Ranges,  \* values of the flags
  DeviceSize,
  MaxShort                      \* bound: short reads and writes

(* The flags are unsigned numbers. *)
ASSUME FlagsAssumption ==
  NumJobs \subseteq Nat /\ BlockSizes \subseteq Nat /\ Ranges \subseteq Nat /\ DeviceSize \in Nat

Retries == 3   \* kErrorRetrys

VARIABLES
  opt,       \* the flags
  phase,     \* of main: "wipe", "verify", "ok", "failed"
  launched,  \* threads that Run has started
  job,       \* the threads; "here" counts the failures at one place (history)
  result,    \* result_
  dirty,     \* units of the device that are not zero
  bad        \* short reads and writes so far

wipeVars == <<opt, phase, launched, job, result, dirty, bad>>

NoJob == [pc |-> "none", start |-> 0, end |-> 0, retry_count |-> 0, here |-> 0]
Jobs  == UNION {0 .. n - 1 : n \in NumJobs}

WipeInit ==
  /\ opt \in [num_jobs : NumJobs, block_size : BlockSizes, range_size : Ranges, verify : BOOLEAN]
  /\ phase = "wipe" /\ launched = 0 /\ result = 0
  /\ job = [i \in Jobs |-> NoJob]
  /\ dirty = 0 .. DeviceSize - 1 /\ bad = 0

-----------------------------------------------------------------------------
Least(x, y)  == IF x <= y THEN x ELSE y
target_size  == IF opt.range_size = 0 THEN DeviceSize ELSE Least(opt.range_size, DeviceSize)

part_size    == (target_size + opt.num_jobs - 1) \div opt.num_jobs
block_size   == IF phase = "verify" THEN 2 * opt.block_size ELSE opt.block_size
BlockLen(i)       == Least(block_size, job[i].end - job[i].start)
Running      == phase \in {"wipe", "verify"}

(* Run gives up before the first thread: the device cannot be opened or    *)
(* its size not be read, and always with "Job number must > 0".            *)
RunFails ==
  /\ Running /\ launched = 0
  /\ phase' = "failed"
  /\ UNCHANGED <<opt, launched, job, result, dirty, bad>>

(* launchJobs, one thread at a time.  When a thread cannot be created Run  *)
(* returns at once, and main ends the process with those it has started.   *)
launchJobs(i) ==
  LET s == i * part_size
  IN  /\ Running /\ launched = i /\ i < opt.num_jobs
      /\ \/ /\ launched' = i + 1 /\ phase' = phase
            /\ job' = [job EXCEPT ![i] = [NoJob EXCEPT !.pc = "run", !.start = s,
                         !.end = IF s >= target_size THEN s ELSE Least(s + part_size, target_size)]]
         \/ phase' = "failed" /\ UNCHANGED <<launched, job>>
  /\ UNCHANGED <<opt, result, dirty, bad>>

Doing(i) == Running /\ job[i].pc = "run"
End(i, res) ==
  /\ job' = [job EXCEPT ![i].pc = IF res = 0 THEN "done" ELSE "failed"]
  /\ result' = IF res = 0 THEN result ELSE res

(* A block is written, or read and found to be zero. *)
doBlock(i) ==
  LET at == job[i].start .. job[i].start + BlockLen(i) - 1
  IN  /\ Doing(i) /\ job[i].start < job[i].end
      /\ IF phase = "verify" /\ dirty \cap at # {}
         THEN End(i, -1) /\ UNCHANGED dirty
         ELSE /\ job' = [job EXCEPT ![i].start = @ + BlockLen(i), ![i].retry_count = 0, ![i].here = 0]
              /\ dirty' = IF phase = "wipe" THEN dirty \ at ELSE dirty
              /\ UNCHANGED result
      /\ UNCHANGED <<opt, phase, launched, bad>>

(* A short read or write, which may have wiped some of the block. *)
retry(i) ==
  /\ Doing(i) /\ job[i].start < job[i].end /\ BlockLen(i) > 0 /\ bad < MaxShort /\ bad' = bad + 1
  /\ \E n \in 0 .. BlockLen(i) - 1 :
       dirty' = IF phase = "wipe" THEN dirty \ (job[i].start .. job[i].start + n - 1) ELSE dirty
  /\ IF job[i].retry_count < Retries
     THEN job' = [job EXCEPT ![i].retry_count = @ + 1, ![i].here = @ + 1] /\ UNCHANGED result
     ELSE End(i, -1)
  /\ UNCHANGED <<opt, phase, launched>>

doJobEnds(i) ==
  /\ Doing(i) /\ job[i].start >= job[i].end
  /\ End(i, 0)
  /\ UNCHANGED <<opt, phase, launched, dirty, bad>>

(* waitJobs, the result, and what main makes of it. *)
waitJobs ==
  /\ Running /\ opt.num_jobs > 0 /\ launched = opt.num_jobs
  /\ \A i \in Jobs : job[i].pc # "run"
  /\ phase' = IF result # 0 THEN "failed" ELSE IF phase = "wipe" /\ opt.verify THEN "verify" ELSE "ok"
  /\ launched' = 0
  /\ job' = [i \in Jobs |-> IF phase' = "failed" THEN job[i] ELSE NoJob]
  /\ UNCHANGED <<opt, result, dirty, bad>>

doJob(i) == doBlock(i) \/ retry(i) \/ doJobEnds(i)
WipeNext == RunFails \/ waitJobs \/ (\E i \in Jobs : launchJobs(i) \/ doJob(i))

WipeSpec == WipeInit /\ [][WipeNext]_wipeVars

-----------------------------------------------------------------------------
(* "Sanitizer device ... succeed" is true: every unit of the range is zero *)
(* and none beyond it was touched, however the range divides into parts    *)
(* and blocks, and a device so wiped passes the verification.              *)
WipedExactly ==
  /\ phase \in {"verify", "ok"} => dirty = target_size .. DeviceSize - 1
  /\ phase = "verify" /\ result # 0 => bad > Retries

(* doJob gives up only after four failures in a row at one place.          *)
FourInARow == \A i \in Jobs : job[i].pc = "failed" => job[i].here = Retries
=============================================================================
