------------------------------- MODULE Bench -------------------------------
(***************************************************************************)
(* cyprebench with verification: job threads keep up to io_depth requests  *)
(* in flight on the client library; callbacks, on other threads, compare   *)
(* what was read with a local file, or copy what was written to it.  So    *)
(* that the two agree, requests in flight must not cross: all jobs share a *)
(* table of ranges.                                                        *)
(*                                                                         *)
(* Blocks are the unit of ranges.  A request that the library refuses may  *)
(* not have been taken at all, may have been called back already (its one  *)
(* part was refused), or may still be called back (one of two parts was    *)
(* refused, the other is on its way): the job puts its context back in     *)
(* each case, and returns.                                                 *)
(***************************************************************************)
EXTENDS Integers, FiniteSets

CONSTANTS
  Readers, Writers,  \* job threads
  Blocks,            \* blocks of the blob
  Count,             \* io_nums: requests of a job
  Depth,             \* io_depth
  MaxFaults          \* bound: requests that are refused or fail, and clock and file errors

Jobs    == Readers \cup Writers
Ctxs    == Jobs \X (1..Count)   \* a context for every request of a job
NoBlock == 0

VARIABLES
  job,      \* of a job: where it is, requests begun, io_depth
  ctx,      \* of a context: where its request is, block, result, what it read or writes
  table,    \* inflight_ios_
  remote,   \* version of a block in the blob
  local,    \* ... and in the file
  stop,     \* stop_
  forever,  \* options_.run_forever
  faults, mishap, alarm  \* history: refusals and failures, and blocks reported inconsistent

vars == <<job, ctx, table, remote, local, stop, forever, faults, mishap, alarm>>

None == [pc |-> "none", block |-> NoBlock, ok |-> TRUE, data |-> 0, back |-> FALSE]

Init ==
  /\ job = [j \in Jobs |-> [pc |-> "start", n |-> 0, depth |-> 0]]
  /\ ctx = [c \in Ctxs |-> None]
  /\ table = {}
  /\ remote = [b \in Blocks |-> 0]
  /\ local = [b \in Blocks |-> 0]
  /\ stop = FALSE /\ forever \in BOOLEAN
  /\ faults = 0 /\ mishap = {} /\ alarm = FALSE

Cur(j) == <<j, job[j].n>>
Goto(j, l) == [job EXCEPT ![j].pc = l]
Outstanding(j) == {c \in Ctxs : c[1] = j /\ ctx[c].pc \in {"sent", "served"}}

-----------------------------------------------------------------------------
(* A job thread.                                                           *)

(* The job opens the blob and adds its engine, ... *)
AddEngine(j) ==
  /\ job[j].pc = "start" /\ job' = Goto(j, "ready")
  /\ UNCHANGED <<ctx, table, remote, local, stop, forever, faults, mishap, alarm>>

(* ... or cannot open it, and ends without an engine.                      *)
bootstrapFails(j) ==
  /\ job[j].pc = "start" /\ faults < MaxFaults
  /\ faults' = faults + 1
  /\ job' = Goto(j, "failed")
  /\ UNCHANGED <<ctx, table, remote, local, stop, forever, mishap, alarm>>

(* A job waits until the engines of all jobs are there.                    *)
WaitEnginesReady(j) ==
  /\ job[j].pc = "ready" /\ \A k \in Jobs : job[k].pc \notin {"start", "failed"}
  /\ job' = Goto(j, "loop")
  /\ UNCHANGED <<ctx, table, remote, local, stop, forever, faults, mishap, alarm>>

(* GetNoneCrossIo draws blocks until hasCrossIo finds one that no request  *)
(* is in, and enters it into the table.                                    *)
GetIoContext(j) ==
  /\ job[j].pc = "loop" /\ (~ stop \/ forever) /\ job[j].n < Count /\ job[j].depth < Depth
  /\ \E b \in Blocks \ table :
       /\ table' = table \cup {b}
       /\ ctx' = [ctx EXCEPT ![<<j, job[j].n + 1>>] =
                    [None EXCEPT !.pc = "got", !.block = b, !.data = IF j \in Writers THEN job[j].n + 1 ELSE 0]]
  /\ job' = [job EXCEPT ![j].pc = "submit", ![j].n = @ + 1]
  /\ UNCHANGED <<remote, local, stop, forever, faults, mishap, alarm>>

(* The request is taken ... *)
Submit(j) ==
  /\ job[j].pc = "submit"
  /\ ctx' = [ctx EXCEPT ![Cur(j)].pc = "sent"]
  /\ job' = Goto(j, "count")
  /\ UNCHANGED <<table, remote, local, stop, forever, faults, mishap, alarm>>

(* ... or not: the clock fails before it, or the library has not taken it  *)
(* (the handle is closed, an extent has no router).                        *)
NotTaken(j) ==
  /\ job[j].pc = "submit" /\ faults < MaxFaults
  /\ faults' = faults + 1
  /\ job' = Goto(j, "refused")
  /\ ctx' = [ctx EXCEPT ![Cur(j)].pc = "put"]
  /\ UNCHANGED <<table, remote, local, stop, forever, mishap, alarm>>

(* It is refused and the callback has run (io_depth goes down, the context *)
(* is put back), or the callback of the other part is to come.             *)
Refused(j) ==
  /\ job[j].pc = "submit" /\ faults < MaxFaults
  /\ faults' = faults + 1
  /\ \/ /\ job' = [job EXCEPT ![j].pc = "refused", ![j].depth = @ - 1]
        /\ table' = table \ {ctx[Cur(j)].block}
        /\ ctx' = [ctx EXCEPT ![Cur(j)].pc = "put", ![Cur(j)].back = TRUE]
     \/ /\ job' = Goto(j, "refused")
        /\ ctx' = [ctx EXCEPT ![Cur(j)].pc = "sent", ![Cur(j)].ok = FALSE]
        /\ UNCHANGED table
  /\ UNCHANGED <<remote, local, stop, forever, mishap, alarm>>

(* The range of a context leaves the table, also if it has left it before  *)
(* and is another's now.                                                   *)
TakenTwice(c) == IF ctx[c].back /\ ctx[c].block \in table THEN {"twice"} ELSE {}

(* The job puts the context back and returns, whatever is still in flight. *)
ReturnEarly(j) ==
  /\ job[j].pc = "refused"
  /\ mishap' = mishap \cup TakenTwice(Cur(j)) \cup (IF Outstanding(j) # {} THEN {"early"} ELSE {})
  /\ table' = table \ {ctx[Cur(j)].block}
  /\ ctx' = [ctx EXCEPT ![Cur(j)].back = TRUE]
  /\ job' = Goto(j, "end")
  /\ UNCHANGED <<remote, local, stop, forever, faults, alarm>>

(* Only now is the request counted; its callback may have run. *)
CountIo(j) ==
  /\ job[j].pc = "count"
  /\ job' = [job EXCEPT ![j].pc = "loop", ![j].depth = @ + 1]
  /\ UNCHANGED <<ctx, table, remote, local, stop, forever, faults, mishap, alarm>>

(* Mutant: does not wait. *)
LeaveAtOnce(j) ==
  /\ job[j].pc = "loop" /\ ~ forever /\ (stop \/ job[j].n = Count)
  /\ job' = Goto(j, "end")
  /\ UNCHANGED <<ctx, table, remote, local, stop, forever, faults, mishap, alarm>>

(* After the last request, or when it is stopped, the job waits for the    *)
(* callbacks to count io_depth down.                                       *)
Leave(j) ==
  /\ job[j].pc = "loop" /\ ~ forever /\ (stop \/ job[j].n = Count) /\ job[j].depth <= 0
  /\ job' = Goto(j, "end")
  /\ UNCHANGED <<ctx, table, remote, local, stop, forever, faults, mishap, alarm>>

Stop ==
  /\ ~ stop /\ stop' = TRUE
  /\ UNCHANGED <<job, ctx, table, remote, local, forever, faults, mishap, alarm>>

-----------------------------------------------------------------------------
(* The cluster, and the callbacks.                                         *)

(* The request is served, or it fails: a write may have been done then.    *)
(* One that was refused fails, whatever became of its other part.          *)
Outcomes(c) == IF ctx[c].ok THEN {TRUE} \cup (IF faults < MaxFaults THEN {FALSE} ELSE {}) ELSE {FALSE}

Serve(c) ==
  /\ ctx[c].pc = "sent"
  /\ \E ok \in Outcomes(c) :
       /\ faults' = IF ok = ctx[c].ok THEN faults ELSE faults + 1
       /\ ctx' = [ctx EXCEPT ![c].pc = "served", ![c].ok = ok,
                             ![c].data = IF c[1] \in Readers THEN remote[ctx[c].block] ELSE @]
       /\ \/ remote' = IF c[1] \in Writers THEN [remote EXCEPT ![ctx[c].block] = ctx[c].data] ELSE remote
          \/ ~ ok /\ UNCHANGED remote
       /\ mishap' = mishap \cup (IF ~ ok /\ c[1] \in Writers THEN {"unknown"} ELSE {})
  /\ UNCHANGED <<job, table, local, stop, forever, alarm>>

(* read_cb and write_cb count the request down, in the job's stack frame, ... *)
CountDown(c) ==
  /\ ctx[c].pc = "served"
  /\ job' = [job EXCEPT ![c[1]].depth = @ - 1]
  /\ ctx' = [ctx EXCEPT ![c].pc = "called"]
  /\ UNCHANGED <<table, remote, local, stop, forever, faults, mishap, alarm>>

(* PutIoContext: the range leaves the table. *)
PutIoContext(c, why) ==
  /\ table' = table \ {ctx[c].block}
  /\ ctx' = [ctx EXCEPT ![c] = [None EXCEPT !.pc = "put", !.block = ctx[c].block, !.back = TRUE]]
  /\ mishap' = mishap \cup TakenTwice(c) \cup why

(* ... compare what was read with the file, ... *)
read_cb(c) ==
  /\ ctx[c].pc = "called" /\ c[1] \in Readers
  /\ alarm' = (alarm \/ (ctx[c].ok /\ ctx[c].data # local[ctx[c].block]))
  /\ PutIoContext(c, {})
  /\ UNCHANGED <<job, remote, local, stop, forever, faults>>

(* ... or copy what was written to it. *)
write_cb(c) ==
  /\ ctx[c].pc = "called" /\ c[1] \in Writers
  /\ local' = IF ctx[c].ok THEN [local EXCEPT ![ctx[c].block] = ctx[c].data] ELSE local
  /\ PutIoContext(c, {})
  /\ UNCHANGED <<job, remote, stop, forever, faults, alarm>>

(* The file cannot be read, and its bytes seem to be zero, or written; or  *)
(* the clock fails in read_cb, and nothing is compared.                    *)
FileFails(c) ==
  /\ ctx[c].pc = "called" /\ ctx[c].ok /\ faults < MaxFaults
  /\ faults' = faults + 1
  /\ alarm' \in (IF c[1] \in Readers THEN {alarm, TRUE} ELSE {alarm})
  /\ PutIoContext(c, {"file"})
  /\ UNCHANGED <<job, remote, local, stop, forever>>

(* The clock fails in write_cb, which returns without counting down.       *)
ClockFails(c) ==
  /\ ctx[c].pc = "served" /\ ctx[c].ok /\ c[1] \in Writers /\ faults < MaxFaults
  /\ faults' = faults + 1
  /\ PutIoContext(c, {"clock"})
  /\ UNCHANGED <<job, remote, local, stop, forever, alarm>>

-----------------------------------------------------------------------------
Run(j) == AddEngine(j) \/ WaitEnginesReady(j) \/ GetIoContext(j) \/ Submit(j) \/ ReturnEarly(j) \/ CountIo(j) \/ Leave(j)
Callback(c) == Serve(c) \/ CountDown(c) \/ read_cb(c) \/ write_cb(c)

Next ==
  \/ \E j \in Jobs : Run(j) \/ bootstrapFails(j) \/ NotTaken(j) \/ Refused(j)
  \/ \E c \in Ctxs : Callback(c) \/ FileFails(c) \/ ClockFails(c)
  \/ Stop

(* Job threads run, and the library calls back. *)
Fairness == WF_vars((\E j \in Jobs : Run(j)) \/ (\E c \in Ctxs : Callback(c)))
Spec == Init /\ [][Next]_vars /\ Fairness
-----------------------------------------------------------------------------
(* Properties.                                                             *)

(* A block is reported inconsistent only when a write of unknown outcome   *)
(* was made, the file could not be read or written, write_cb had no clock  *)
(* and left the file as it was, or a refused request's context was put     *)
(* back twice: another request's entry was taken out of the table.         *)
NoFalseAlarm == alarm => mishap \cap {"twice", "unknown", "file", "clock"} # {}

(* A callback counts down in the frame of a job that still runs, unless a  *)
(* refused request made the job return.                                    *)
FrameAlive ==
  \A c \in Ctxs : ctx[c].pc \in {"sent", "served"} /\ job[c[1]].pc = "end" => "early" \in mishap

(* Every job comes to its end, although it waits for the engines of the    *)
(* others and then for io_depth, which its callbacks count down, unless it *)
(* is to run for ever, another job could not open the blob (then it waits  *)
(* for ever), or write_cb had no clock and did not count down.             *)
JobsEnd ==
  []<>(\/ \A j \in Jobs : job[j].pc \in {"start", "end"}
       \/ forever \/ "clock" \in mishap \/ \E k \in Jobs : job[k].pc = "failed")
=============================================================================
