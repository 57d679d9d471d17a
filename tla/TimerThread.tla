---------------------------- MODULE TimerThread ----------------------------
(***************************************************************************)
(* utils::TimerThread: one thread waits in epoll for the timerfds of a     *)
(* process and runs their callbacks one after the other (heartbeats,       *)
(* garbage collection, problem checks and set updates share it).  Other    *)
(* threads create timers (timerfd, then epoll, then the map) and remove    *)
(* them by a flag the timer thread looks at when the timer fires next.     *)
(* epoll hands out raw pointers: a Timer lives while the map or the thread *)
(* creating it refers to it.                                               *)
(***************************************************************************)
EXTENDS Naturals, FiniteSets

CONSTANTS
  Timers,     \* Timer objects that may be created
  Repeated    \* those that are repeated

VARIABLES
  made,     \* per timer: where create_timer is ("new", "armed", "polled", "kept", "failed")
  epoll,    \* timers registered in epoll
  timers,   \* timers_: the map
  canceled, \* timers whose canceled_ flag is set
  expired,  \* timers whose timerfd can be read
  batch,    \* events epoll_wait returned that are still to be handled
  running   \* timers whose callback is running

vars == <<made, epoll, timers, canceled, expired, batch, running>>

Init ==
  /\ made = [t \in Timers |-> "new"]
  /\ epoll = {} /\ timers = {} /\ canceled = {} /\ expired = {}
  /\ batch = {} /\ running = {}

\* Timer objects that are not freed (a creator holds one until it returns).
Alive == timers \cup {t \in Timers : made[t] \in {"armed", "polled"}}
-----------------------------------------------------------------------------
\* create_timer: Timer::init arms the timerfd (its first expiry is now), ...
InitTimer(t) ==
  /\ made[t] = "new"
  /\ \/ made' = [made EXCEPT ![t] = "armed"] /\ expired' = expired \cup {t}
     \/ made' = [made EXCEPT ![t] = "failed"] /\ UNCHANGED expired
  /\ UNCHANGED <<epoll, timers, canceled, batch, running>>

\* ... add_timer lets epoll report it, ...
add_timer(t) ==
  /\ made[t] = "armed"
  /\ \/ made' = [made EXCEPT ![t] = "polled"] /\ epoll' = epoll \cup {t}
     \/ made' = [made EXCEPT ![t] = "failed"] /\ UNCHANGED epoll
  /\ UNCHANGED <<timers, canceled, expired, batch, running>>

\* ... and the map keeps it.
KeepTimer(t) ==
  /\ made[t] = "polled"
  /\ made' = [made EXCEPT ![t] = "kept"]
  /\ timers' = timers \cup {t}
  /\ UNCHANGED <<epoll, canceled, expired, batch, running>>

\* remove_timer only sets the flag.
remove_timer(t) ==
  /\ t \in timers
  /\ canceled' = canceled \cup {t}
  /\ UNCHANGED <<made, epoll, timers, expired, batch, running>>

\* The kernel: the interval of a repeated timer is over.
Expire(t) ==
  /\ t \in Repeated \cap Alive
  /\ expired' = expired \cup {t}
  /\ UNCHANGED <<made, epoll, timers, canceled, batch, running>>
-----------------------------------------------------------------------------
\* epoll_wait: the timers that can be read.
epoll_wait ==
  /\ batch = {} /\ running = {}
  /\ epoll \cap expired # {}
  /\ batch' = epoll \cap expired
  /\ UNCHANGED <<made, epoll, timers, canceled, expired, running>>

delete_timer(t) == epoll' = epoll \ {t} /\ timers' = timers \ {t}

\* One event: the timerfd is read; a canceled timer is deleted, another one runs.
HandleEvent(t) ==
  /\ t \in batch /\ running = {}
  /\ batch' = batch \ {t}
  /\ expired' = expired \ {t}
  /\ IF t \in canceled
       THEN delete_timer(t) /\ UNCHANGED running
       ELSE running' = {t} /\ UNCHANGED <<epoll, timers>>
  /\ UNCHANGED <<made, canceled>>

\* The callback returns; a timer that is not repeated is deleted.
FinishRunDeletes(t) ==
  /\ t \in running
  /\ running' = {}
  /\ delete_timer(t)
  /\ UNCHANGED <<made, canceled, expired, batch>>

FinishRun(t) ==
  /\ t \in running
  /\ running' = {}
  /\ IF t \in Repeated THEN UNCHANGED <<epoll, timers>> ELSE delete_timer(t)
  /\ UNCHANGED <<made, canceled, expired, batch>>

Next ==
  \/ \E t \in Timers :
       \/ InitTimer(t) \/ add_timer(t) \/ KeepTimer(t) \/ remove_timer(t)
       \/ Expire(t) \/ HandleEvent(t) \/ FinishRun(t)
  \/ epoll_wait

(***************************************************************************)
(* The timer thread runs, callbacks return (they are bounded RPCs and      *)
(* scans), the kernel's timers expire, and create_timer goes on.  A batch  *)
(* is handled in some order to its end, so no event needs more than WF.    *)
(***************************************************************************)
Fairness ==
  /\ WF_vars(epoll_wait \/ \E t \in Timers : HandleEvent(t) \/ FinishRun(t))
  /\ \A t \in Timers : WF_vars(Expire(t)) /\ WF_vars(KeepTimer(t))

Spec == Init /\ [][Next]_vars /\ Fairness
-----------------------------------------------------------------------------
TypeOK ==
  /\ made \in [Timers -> {"new", "armed", "polled", "kept", "failed"}]
  /\ \A S \in {epoll, timers, canceled, expired, batch, running} : S \subseteq Timers
  /\ Cardinality(running) <= 1

(* The raw pointers are good: a timer epoll can report, and one whose      *)
(* event or callback is still to come, has not been freed by a             *)
(* remove_timer or by the end of its own run.                              *)
NoDanglingTimer == epoll \cup batch \cup running \subseteq Alive

(* A repeated timer that was created runs again and again until it is      *)
(* canceled, however many timers share the thread, and a canceled one      *)
(* leaves the map (its event may have waited behind other callbacks when   *)
(* the flag was set).                                                      *)
Fires(t) == made[t] # "kept" \/ t \in canceled \/ t \in running
Left(t)  == t \notin canceled \cap timers
KeepsFiring    == \A t \in Repeated : []<>Fires(t)
CanceledLeaves == \A t \in Repeated : []<>Left(t)
=============================================================================
