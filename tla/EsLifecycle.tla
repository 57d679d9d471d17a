----------------------------- MODULE EsLifecycle -----------------------------
(***************************************************************************)
(* An extent server's life: the chain of initialisations, the first        *)
(* heartbeat that makes it ready, the requests that RPC threads put on the *)
(* task ring and SPDK workers take from it, and the shutdown that a signal *)
(* handler carries out while the main thread polls.  Nothing keeps a       *)
(* second signal from running the handler again, on whatever thread it     *)
(* interrupts.                                                             *)
(*                                                                         *)
(* brpc's Join returns when every request has been answered, which is      *)
(* after its I/O (ExtentIO!AnsweredLast).  SPDK's threads, channels and    *)
(* devices are modelled by what the code asks of them.                     *)
(***************************************************************************)
EXTENDS Integers, Sequences, FiniteSets

CONSTANTS
  Reqs,
  Workers,    \* num_spdk_workers
  MaxSignals, \* bound: SIGINTs and SIGTERMs
  MaxFaults   \* bound: steps that fail, and heartbeats that are lost

(* The steps of Init, in the code's order. *)
InitSteps == <<"config", "env", "subsystem", "bdev", "workers", "locations", "recovery", "heartbeat">>

VARIABLES
  step,     \* number of InitSteps done
  main,     \* "init", "wait", "serve", "quit", "exit" (Init failed), "crash"
  status,   \* status_: "starting", "ready", "ok"
  size,     \* extent_size_ is known
  once,     \* once_
  hb,       \* heartbeat: "off", "idle", "sent", "answered"
  rpc,      \* the server: "off", "on", "stopped"
  req,      \* a request: "none", "rpc", "queued", "io", "done"
  on,       \* worker that has the request
  worker,   \* "off", "start", "run", "finish", "stopped"
  stopping, \* workers that were told to stop
  channel,  \* workers with an open I/O channel
  bdev,     \* the descriptor is open
  kv,       \* RocksDB: "closed", "open"
  env,      \* status_ of SpdkMgr: "init", "started", "stopping", "stopped"
  handler,  \* Destroy of each signal: where it is, its thread, and whether it
            \* is the one that stops the workers
  stop,     \* stop_
  faults

Signals == 1..MaxSignals

startup == <<step, main, status, size, once, hb>>
spdk    == <<worker, stopping, channel, bdev, env>>
vars    == <<startup, rpc, req, on, spdk, kv, handler, stop, faults>>

Init ==
  /\ step = 0 /\ main = "init" /\ status = "starting"
  /\ size = FALSE /\ once = FALSE /\ hb = "off" /\ rpc = "off"
  /\ req = [r \in Reqs |-> "none"] /\ on = [r \in Reqs |-> CHOOSE w \in Workers : TRUE]
  /\ worker = [w \in Workers |-> "off"] /\ stopping = {} /\ channel = {} /\ bdev = FALSE
  /\ kv = "closed" /\ env = "init" /\ stop = FALSE /\ faults = 0
  /\ handler = [h \in Signals |-> [pc |-> "no", at |-> "main", stops |-> FALSE]]

(* Destroy of signal h is running; what it interrupted waits for it. *)
Running(h) == handler[h].pc \notin {"no", "done", "failed", "refused"}

Free(t) == \A h \in Signals : Running(h) => handler[h].at # t

At(h, pc) ==
  /\ handler[h].pc = pc
  /\ \A g \in Signals : g > h /\ Running(g) => handler[g].at # handler[h].at

Goto(h, pc) == handler' = [handler EXCEPT ![h].pc = pc]

-----------------------------------------------------------------------------
(* ExtentServer::Init.                                                     *)

Doing(s) == main = "init" /\ step < Len(InitSteps) /\ InitSteps[step + 1] = s

Done(s) ==
  /\ Doing(s)
  /\ step' = step + 1
  /\ UNCHANGED <<main, status, size, once, rpc, req, on, handler, stop, faults>>

(* Configuration, log, and the channel to the extent manager. *)
Configure == Done("config") /\ UNCHANGED <<hb, spdk, kv>>

(* SpdkMgr::InitEnv: the environment ... *)
initSpdkEnv == Done("env") /\ UNCHANGED <<hb, spdk, kv>>

(* ... and the bdev subsystem on the init thread.  The result of loading   *)
(* its configuration is dropped.                                           *)
initBdevSubsystem ==
  Done("subsystem") /\ env' = "started" /\ UNCHANGED <<hb, worker, stopping, channel, bdev, kv>>

(* SpdkMgr::Open. *)
Open == Done("bdev") /\ bdev' = TRUE /\ UNCHANGED <<hb, worker, stopping, channel, env, kv>>

(* SpdkMgr::StartWorkers: the threads are only started here. *)
StartWorkers ==
  /\ Done("workers")
  /\ worker' = [w \in Workers |-> "start"]
  /\ UNCHANGED <<hb, stopping, channel, bdev, env, kv>>

(* ExtentLocationMgr::Init opens RocksDB ... *)
InitLocations == Done("locations") /\ kv' = "open" /\ UNCHANGED <<hb, spdk>>

(* ... and the extents are loaded from it. *)
DoRecovery == Done("recovery") /\ UNCHANGED <<hb, spdk, kv>>

(* HeartbeatReporter::Start; the main thread goes on to wait. *)
StartHeartbeat ==
  /\ Doing("heartbeat")
  /\ step' = step + 1 /\ hb' = "idle" /\ main' = "wait"
  /\ UNCHANGED <<status, size, once, rpc, req, on, spdk, kv, handler, stop, faults>>

(* A step fails, or the RPC server does not start: the process exits. *)
InitFails ==
  /\ main = "init" \/ (main = "wait" /\ status # "starting")
  /\ faults < MaxFaults
  /\ faults' = faults + 1
  /\ main' = "exit"
  /\ UNCHANGED <<step, status, size, once, hb, rpc, req, on, spdk, kv, handler, stop>>

-----------------------------------------------------------------------------
(* Heartbeats.                                                             *)

DoHeartbeatReport ==
  /\ hb = "idle" /\ main # "exit"
  /\ hb' = "sent"
  /\ UNCHANGED <<step, main, status, size, once, rpc, req, on, spdk, kv, handler, stop, faults>>

(* The call fails, or the manager refuses it. *)
HeartbeatFails ==
  /\ hb = "sent" /\ faults < MaxFaults
  /\ faults' = faults + 1
  /\ hb' = "idle"
  /\ UNCHANGED <<step, main, status, size, once, rpc, req, on, spdk, kv, handler, stop>>

(* The first good answer gives the extent size ... *)
HeartbeatAnswers ==
  /\ hb = "sent"
  /\ hb' = IF once THEN "idle" ELSE "answered"
  /\ size' = TRUE
  /\ UNCHANGED <<step, main, status, once, rpc, req, on, spdk, kv, handler, stop, faults>>

(* ... and then makes the server ready. *)
SetEsReady ==
  /\ hb = "answered"
  /\ hb' = "idle" /\ once' = TRUE /\ status' = "ready"
  /\ UNCHANGED <<step, main, size, rpc, req, on, spdk, kv, handler, stop, faults>>

(* Start: WaitEsReady, the RPC server, SetEsOk and the signal handlers. *)
Start ==
  /\ main = "wait" /\ status # "starting"
  /\ rpc' = "on" /\ status' = "ok" /\ main' = "serve"
  /\ UNCHANGED <<step, size, once, hb, req, on, spdk, kv, handler, stop, faults>>

-----------------------------------------------------------------------------
(* Requests.                                                               *)

Accept(r) ==
  /\ rpc = "on" /\ req[r] = "none"
  /\ req' = [req EXCEPT ![r] = "rpc"]
  /\ UNCHANGED <<startup, rpc, on, spdk, kv, handler, stop, faults>>

(* Looks up the location and puts the request on the ring. *)
ProcessRequest(r) ==
  /\ req[r] = "rpc"
  /\ req' = [req EXCEPT ![r] = "queued"]
  /\ UNCHANGED <<startup, rpc, on, spdk, kv, handler, stop, faults>>

(* A worker gets its SPDK thread and channel. *)
initWorkerEnv(w) ==
  /\ worker[w] = "start" /\ main # "exit" /\ Free(w)
  /\ worker' = [worker EXCEPT ![w] = "run"]
  /\ channel' = channel \cup {w}
  /\ UNCHANGED <<startup, rpc, req, on, stopping, bdev, env, kv, handler, stop, faults>>

(* run: takes what is on the ring ... *)
WorkerTakes(w) ==
  /\ worker[w] = "run" /\ Free(w)
  /\ \E r \in Reqs :
       /\ req[r] = "queued"
       /\ req' = [req EXCEPT ![r] = "io"]
       /\ on' = [on EXCEPT ![r] = w]
  /\ UNCHANGED <<startup, rpc, spdk, kv, handler, stop, faults>>

(* ... polls, so that the device's completions are answered ... *)
WorkerPolls(w) ==
  /\ worker[w] = "run" /\ Free(w)
  /\ \E r \in Reqs : /\ req[r] = "io" /\ on[r] = w
                     /\ req' = [req EXCEPT ![r] = "done"]
  /\ UNCHANGED <<startup, rpc, on, spdk, kv, handler, stop, faults>>

(* ... and ends when it is told to stop and finds the ring empty. *)
WorkerStops(w) ==
  /\ worker[w] = "run" /\ w \in stopping /\ Free(w)
  /\ \A r \in Reqs : req[r] # "queued"
  /\ worker' = [worker EXCEPT ![w] = "finish"]
  /\ UNCHANGED <<startup, rpc, req, on, stopping, channel, bdev, env, kv, handler, stop, faults>>

(* finishSpdkIoThread: the channel is put back, the SPDK thread ends. *)
finishSpdkIoThread(w) ==
  /\ worker[w] = "finish" /\ Free(w)
  /\ worker' = [worker EXCEPT ![w] = "stopped"]
  /\ channel' = channel \ {w}
  /\ UNCHANGED <<startup, rpc, req, on, stopping, bdev, env, kv, handler, stop, faults>>

-----------------------------------------------------------------------------
(* The shutdown.                                                           *)

(* SignHandler: the h-th signal interrupts thread t. *)
Signal(h, t, pc) ==
  /\ main = "serve" /\ handler[h].pc = "no"
  /\ \A g \in Signals : g < h => handler[g].pc # "no"
  /\ handler' = [handler EXCEPT ![h].pc = pc, ![h].at = t]
  /\ rpc' = "stopped"
  /\ UNCHANGED <<startup, req, on, spdk, kv, stop, faults>>

(* Mutant: the server is told to stop and not joined. *)
DestroyUnjoined(h, t) == Signal(h, t, "kv")

(* Destroy: no more requests ... *)
Destroy(h, t) == Signal(h, t, "join")

(* ... those there are answered ... *)
Join(h) ==
  /\ At(h, "join")
  /\ \A r \in Reqs : req[r] \in {"none", "done"}
  /\ Goto(h, "kv")
  /\ UNCHANGED <<startup, rpc, req, on, spdk, kv, stop, faults>>

(* ... RocksDB is closed, which does no harm a second time ... *)
CloseLocations(h) ==
  /\ At(h, "kv")
  /\ Goto(h, "workers") /\ kv' = "closed"
  /\ UNCHANGED <<startup, rpc, req, on, spdk, stop, faults>>

(* ... the workers are told to stop, each when the one before has ended    *)
(* ...                                                                     *)
StopWorker(h, w) ==
  /\ At(h, "workers") /\ \A g \in Signals \ {h} : ~handler[g].stops
  /\ w \notin stopping /\ \A v \in stopping : worker[v] = "stopped"
  /\ stopping' = stopping \cup {w}
  /\ handler' = [handler EXCEPT ![h].stops = TRUE]
  /\ UNCHANGED <<startup, rpc, req, on, worker, channel, bdev, env, kv, stop, faults>>

(* ... until all have.  A Destroy that finds another stopping them, or     *)
(* done with it, joins a thread that is being joined or was and reads a    *)
(* status that nobody stored, of a worker that may be deleted: it returns  *)
(* an error, or the process ends ...                                       *)
StopTwice(h) ==
  /\ At(h, "workers") /\ \E g \in Signals \ {h} : handler[g].stops
  /\ \/ Goto(h, "refused") /\ UNCHANGED main
     \/ main' = "crash" /\ UNCHANGED handler
  /\ UNCHANGED <<step, status, size, once, hb, rpc, req, on, spdk, kv, stop, faults>>

WorkersStopped(h) ==
  /\ At(h, "workers") /\ handler[h].stops /\ \A w \in Workers : worker[w] = "stopped"
  /\ Goto(h, "bdev")
  /\ UNCHANGED <<startup, rpc, req, on, spdk, kv, stop, faults>>

(* ... the device is closed ... *)
Close(h) ==
  /\ At(h, "bdev")
  /\ Goto(h, "env") /\ bdev' = FALSE
  /\ UNCHANGED <<startup, rpc, req, on, worker, stopping, channel, env, kv, stop, faults>>

(* ... the bdev subsystem and the SPDK thread are finished ... *)
finishBdevSubsystem(h) ==
  /\ At(h, "env") /\ env = "started"
  /\ env' = "stopping"
  /\ UNCHANGED <<startup, rpc, req, on, worker, stopping, channel, bdev, kv, handler, stop, faults>>

(* ... and the main thread may go. *)
CloseEnv(h) ==
  /\ At(h, "env") /\ env = "stopping"
  /\ env' = "stopped" /\ stop' = TRUE /\ Goto(h, "done")
  /\ UNCHANGED <<startup, rpc, req, on, worker, stopping, channel, bdev, kv, faults>>

(* A step fails: Destroy returns, and stop_ is never set. *)
CloseFails(h) ==
  /\ \E pc \in {"kv", "workers", "bdev", "env"} : At(h, pc)
  /\ handler[h].pc = "workers" => handler[h].stops
  /\ faults < MaxFaults
  /\ faults' = faults + 1
  /\ Goto(h, "failed")
  /\ UNCHANGED <<startup, rpc, req, on, spdk, kv, stop>>

(* WaitToQuit polls the SPDK thread until stop_. *)
WaitToQuit ==
  /\ main = "serve" /\ stop /\ Free("main")
  /\ main' = "quit"
  /\ UNCHANGED <<step, status, size, once, hb, rpc, req, on, spdk, kv, handler, stop, faults>>

Heartbeat == main # "crash" /\ (DoHeartbeatReport \/ HeartbeatAnswers \/ SetEsReady)

InitStep ==
  \/ Configure \/ initSpdkEnv \/ initBdevSubsystem \/ Open \/ StartWorkers
  \/ InitLocations \/ DoRecovery \/ StartHeartbeat \/ Start

WorkerStep(w) ==
  initWorkerEnv(w) \/ WorkerTakes(w) \/ WorkerPolls(w) \/ WorkerStops(w) \/ finishSpdkIoThread(w)

DestroyStep(h) ==
  \/ Join(h) \/ CloseLocations(h) \/ (\E w \in Workers : StopWorker(h, w)) \/ StopTwice(h)
  \/ WorkersStopped(h) \/ Close(h) \/ finishBdevSubsystem(h) \/ CloseEnv(h)

ProcessSteps ==
  /\ main # "crash"
  /\ \/ InitStep \/ WaitToQuit
     \/ \E r \in Reqs : ProcessRequest(r)
     \/ \E w \in Workers : WorkerStep(w)
     \/ \E h \in Signals : DestroyStep(h)

Next ==
  \/ ProcessSteps \/ Heartbeat
  \/ /\ main # "crash"
     /\ \/ InitFails \/ HeartbeatFails
        \/ \E r \in Reqs : Accept(r)
        \/ \E h \in Signals : CloseFails(h)
        \/ \E h \in Signals, t \in Workers \cup {"main", "other"} : Destroy(h, t)

(* The threads run, and the timer fires for as long as the process lives. *)
Fairness == WF_vars(ProcessSteps) /\ WF_vars(Heartbeat)

Spec == Init /\ [][Next]_vars /\ Fairness

-----------------------------------------------------------------------------
(* No request is looked at before the extent size is known: until then     *)
(* every one would be refused as too large.                                *)
ServedReady ==
  \A r \in Reqs : req[r] # "none" => size /\ step = Len(InitSteps)

(* Nothing is taken away from a request: while one is not answered,        *)
(* RocksDB, the device and the channel of its worker stay open.            *)
NothingClosedUnder ==
  \A r \in Reqs :
    /\ req[r] \in {"rpc", "queued", "io"} => kv = "open" /\ bdev
    /\ req[r] = "io" => on[r] \in channel

(* The device is closed, and SPDK finished, when no worker holds a channel *)
(* of it.                                                                  *)
ChannelsFirst == step >= 4 /\ main # "exit" => (channel # {} => bdev /\ env = "started")

(* A server that comes up is ready some time, though heartbeats are lost. *)
BecomesReady == []<>(main # "wait")

(* A signal ends the server, unless a step of the shutdown fails, or the   *)
(* signal interrupts a worker: then the Destroy that runs there waits for  *)
(* I/O that only its own thread would poll.  A second signal may crash the *)
(* process, but of two Destroys one comes to the end.                      *)
QuitOrFailed ==
  (\E h \in Signals : handler[h].pc # "no") =>
     \/ main = "quit" \/ (main = "crash" /\ Cardinality({h \in Signals : handler[h].pc # "no"}) > 1)
     \/ \E h \in Signals : handler[h].pc = "failed" \/ handler[h].at \in Workers
Quits == []<>QuitOrFailed
=============================================================================
