-------------------------------- MODULE Fio --------------------------------
(***************************************************************************)
(* fio's engine for cyprestore (clients/fio_plugin) on the C interface of  *)
(* the client library.  fio's thread queues I/O units and reaps them with  *)
(* getevents, which polls a flag in the unit's completion; the library's   *)
(* callback sets the flag on another thread.                               *)
(*                                                                         *)
(* A request of two parts may be refused (one part finds no router) while  *)
(* the other part is on its way: its callback comes later, and sets the    *)
(* flag of a unit that fio may have used again or freed.                   *)
(***************************************************************************)
EXTENDS Integers, Sequences, FiniteSets

CONSTANTS
  Units,      \* io_u's, 1 .. iodepth
  Mins,       \* values of getevents' min
  MaxIo,      \* bound: I/Os of a unit
  MaxFaults   \* bound: requests that are refused

Ios == Units \X (1..MaxIo)

VARIABLES
  pc,         \* fio's thread: "new", "run", "scan", "reap", "closing" or "end"
  unit,       \* of an io_u: I/Os so far, whether it is in flight, whether its completion exists
  done,       \* is_done of a completion
  calls,      \* I/Os whose callback is to come
  stale,      \* those of them that were refused
  min, at, events,  \* of a getevents
  faults,
  reused      \* a refused request's callback came to a unit in use again (history)

scan == <<min, at, events>>
vars == <<pc, unit, done, calls, stale, scan, faults, reused>>

Init ==
  /\ pc = "new"
  /\ unit = [u \in Units |-> [n |-> 0, flight |-> FALSE, live |-> FALSE]]
  /\ done = [u \in Units |-> FALSE]
  /\ calls = {} /\ stale = {}
  /\ min = 1 /\ at = 1 /\ events = <<>>
  /\ faults = 0 /\ reused = FALSE

Cur(u) == <<u, unit[u].n>>
InFlight == {u \in Units : unit[u].flight}

-----------------------------------------------------------------------------
(* fio's thread.                                                           *)

(* fio_csio_setup: the blob is opened, or fio gives up. *)
setup ==
  /\ pc = "new"
  /\ pc' \in {"run", "end"}
  /\ UNCHANGED <<unit, done, calls, stale, scan, faults, reused>>

io_u_init(u) ==
  /\ pc = "run" /\ ~ unit[u].live /\ unit[u].n = 0
  /\ unit' = [unit EXCEPT ![u].live = TRUE]
  /\ UNCHANGED <<pc, done, calls, stale, scan, faults, reused>>

MayQueue(u) == pc = "run" /\ unit[u].live /\ ~ unit[u].flight /\ unit[u].n < MaxIo

(* aio_read_blob and aio_write_blob clear the flag before the call. *)
aio_blob(u) == done' = [done EXCEPT ![u] = FALSE]

(* fio_csio_queue, and the library takes the request: FIO_Q_QUEUED. *)
queue(u) ==
  /\ MayQueue(u) /\ aio_blob(u)
  /\ unit' = [unit EXCEPT ![u].n = @ + 1, ![u].flight = TRUE]
  /\ calls' = calls \cup {<<u, unit[u].n + 1>>}
  /\ UNCHANGED <<pc, stale, scan, faults, reused>>

(* The request is refused, and fio told so: FIO_Q_COMPLETED.  No callback  *)
(* was made (it spans three extents), or it was made during the call (one  *)
(* part), or it is to come.                                                *)
queueFailed(u) ==
  /\ MayQueue(u) /\ faults < MaxFaults
  /\ faults' = faults + 1
  /\ unit' = [unit EXCEPT ![u].n = @ + 1]
  /\ \/ aio_blob(u) /\ UNCHANGED <<calls, stale>>
     \/ done' = [done EXCEPT ![u] = TRUE] /\ UNCHANGED <<calls, stale>>
     \/ /\ aio_blob(u)
        /\ calls' = calls \cup {<<u, unit[u].n + 1>>}
        /\ stale' = stale \cup {<<u, unit[u].n + 1>>}
  /\ UNCHANGED <<pc, scan, reused>>

(* fio_csio_getevents, for at least m of the units in flight. *)
getevents(m) ==
  /\ pc = "run" /\ m <= Cardinality(InFlight)
  /\ pc' = "scan" /\ min' = m /\ at' = 1 /\ events' = <<>>
  /\ UNCHANGED <<unit, done, calls, stale, faults, reused>>

(* The flag of one unit is looked at. *)
is_complete ==
  /\ pc = "scan" /\ at \in Units
  /\ events' = IF unit[at].flight /\ done[at] THEN Append(events, at) ELSE events
  /\ at' = at + 1
  /\ UNCHANGED <<pc, unit, done, calls, stale, min, faults, reused>>

(* After all units: enough, or another round, which goes on counting.  A   *)
(* unit that was found is in flight still and is found again.              *)
RoundEnds ==
  /\ pc = "scan" /\ at \notin Units
  /\ IF Len(events) >= min THEN pc' = "reap" /\ UNCHANGED at ELSE at' = 1 /\ UNCHANGED pc
  /\ UNCHANGED <<unit, done, calls, stale, min, events, faults, reused>>

(* fio takes the events. *)
Reap ==
  /\ pc = "reap" /\ pc' = "run"
  /\ unit' = [u \in Units |->
                IF \E i \in DOMAIN events : events[i] = u THEN [unit[u] EXCEPT !.flight = FALSE] ELSE unit[u]]
  /\ min' = 1 /\ at' = 1 /\ events' = <<>>
  /\ UNCHANGED <<done, calls, stale, faults, reused>>

(* At the end of the job the units are freed, ... *)
io_u_free(u) ==
  /\ pc = "run" /\ InFlight = {} /\ unit[u].live
  /\ unit' = [unit EXCEPT ![u].live = FALSE, ![u].n = MaxIo]
  /\ UNCHANGED <<pc, done, calls, stale, scan, faults, reused>>

(* ... then the blob is closed, which waits for its requests. *)
cleanup ==
  /\ \/ pc = "run" /\ (\A u \in Units : ~ unit[u].live /\ unit[u].n = MaxIo) /\ pc' = "closing"
     \/ pc = "closing" /\ calls = {} /\ pc' = "end"
  /\ UNCHANGED <<unit, done, calls, stale, scan, faults, reused>>

-----------------------------------------------------------------------------
(* The library's callback threads.                                         *)

aio_inner_cb(c) ==
  /\ c \in calls
  /\ calls' = calls \ {c} /\ stale' = stale \ {c}
  /\ done' = [done EXCEPT ![c[1]] = TRUE]
  /\ reused' = (reused \/ (c \in stale /\ unit[c[1]].flight))
  /\ UNCHANGED <<pc, unit, scan, faults>>

-----------------------------------------------------------------------------
Steps ==
  \/ is_complete \/ RoundEnds \/ Reap \/ cleanup
  \/ \E m \in Mins : getevents(m)

Next ==
  \/ setup \/ Steps
  \/ \E u \in Units : io_u_init(u) \/ queue(u) \/ queueFailed(u) \/ io_u_free(u)
  \/ \E c \in Ios : aio_inner_cb(c)

(* fio goes on reaping, and every call comes back. *)
Fairness ==
  /\ WF_vars(Steps)
  /\ WF_vars(\E c \in Ios : aio_inner_cb(c))

Spec == Init /\ [][Next]_vars /\ Fairness
-----------------------------------------------------------------------------
(* Properties.                                                             *)

(* A unit that getevents hands to fio has come back: it is not the flag of *)
(* an earlier I/O, and the library no longer uses its buffer, unless a     *)
(* refused request's callback reached a unit in use again.                 *)
EventsDone ==
  ~ reused => \A i \in DOMAIN events : Cur(events[i]) \notin calls

(* A unit is handed over once, as long as one event is enough.             *)
EventsOnce ==
  pc = "reap" /\ min = 1 => \A i, j \in DOMAIN events : i # j => events[i] # events[j]

(* Every I/O that was queued is handed back to fio, failed ones too.       *)
Reaped == []<>(InFlight = {})
=============================================================================
