------------------------------- MODULE MCHost -------------------------------
(***************************************************************************)
(* The state machines of single hosts and processes, checked together: the *)
(* NBD bridge (its socket reader, its server, its command line), the life  *)
(* of an extent server process, its memory pools, the timer thread, the    *)
(* way the sets become known, the tools that compare replicas and wipe     *)
(* disks.  (MCServer has the key-value store and the router cache.)        *)
(*                                                                         *)
(* They share no state; a behaviour is one of the part chosen at the start.*)
(* So that a state stays small all parts but the tools use one row of      *)
(* variables: v1 is the first variable of the part that runs, v2 its       *)
(* second, and so on; the ones that it does not need are 0.                *)
(***************************************************************************)
EXTENDS Tools, Integers

VARIABLES
  part,
  v1, v2, v3, v4, v5, v6, v7, v8, v9, v10,
  v11, v12, v13, v14, v15, v16, v17, v18, v19

(* The flags of the sanitizer count only where it runs. *)
OneFlags == [num_jobs |-> 2, block_size |-> 1, range_size |-> 0, verify |-> FALSE]

(* Three requests and more than the buffer holds, with and without data. *)
S == INSTANCE NbdStream WITH
       BufSize <- 5, HeadSize <- 2, MaxData <- 3, MaxReq <- 4,
       sent <- v1, todo <- v2, closed <- v3, sock <- v4, buf <- v5, begin <- v6, rest <- v7, got <- v8, pc <-
       v9

(* Two requests of the kernel on two connections, one call refused. *)
N == INSTANCE NbdServer WITH
       Conns <- {"c1", "c2"}, Reqs <- {"r1", "r2"}, MaxErrors <- 1,
       kind <- v1, conn <- v2, wire <- v3, gone <- v4, rd <- v5, cur <- v6, ctx <- v7, err <- v8, pending <-
       v9, io <- v10, stored <- v11, lock <- v12, out <- v13, blob <- v14, terminated <- v15, started <- v16,
       mgr <- v17, refused <- v18, aborted <- v19

(* Two map commands for two devices, an unmap and a signal. *)
D == INSTANCE NbdControl WITH
       Procs <- {"p1", "p2"}, NumDevs <- 2, MaxFaults <- 1, MaxSignals <- 1, MaxUnmaps <- 1,
       parent <- v1, told <- v2, pipe <- v3, child <- v4, probe <- v5, dev <- v6, task <- v7, running <- v8,
       mounted <- v9, handler <- v10, unmap <- v11, at <- v12, pid <- v13, found <- v14, faults <- v15,
       signals <- v16, unmaps <- v17

(* Two requests, two workers and two signals; one step fails. *)
L == INSTANCE EsLifecycle WITH
       Reqs <- {"r1", "r2"}, Workers <- {"w1", "w2"}, MaxSignals <- 2, MaxFaults <- 1,
       step <- v1, main <- v2, status <- v3, size <- v4, once <- v5, hb <- v6, rpc <- v7, req <- v8, on <- v9,
       worker <- v10, stopping <- v11, channel <- v12, bdev <- v13, kv <- v14, env <- v15, handler <- v16,
       stop <- v17, faults <- v18

(* Two threads; rings of two units and blocks that do not hold all. *)
M == INSTANCE IoMemory WITH
       Users <- {"t1", "t2"}, Worker <- "t1", MaxSlab <- 1, Sizes <- {1, 2}, Nums <- {1, 2},
       RingSize <- 2, InitBlock <- 2, MaxBlock <- 4, HugePages <- 6,
       pool <- v1, data <- v2, held <- v3, get <- v4, free <- v5, refused <- v6

(* Two repeated timers and one that fires once share the thread. *)
T == INSTANCE TimerThread WITH
       Timers <- {"a", "b", "c"}, Repeated <- {"a", "b"},
       made <- v1, epoll <- v2, timers <- v3, canceled <- v4, expired <- v5, batch <- v6, running <- v7

(* Two sets whose managers report, fall silent and move (MCBlobLifecycle has the requests). *)
Z == INSTANCE Access WITH
       Sets <- {1, 2}, Addrs <- {<<1, 1>>, <<2, 1>>, <<2, 2>>}, Homes <- <<<<1, 1>>, <<2, 1>>>>,
       Hosts <- <<{1, 2}, {2}>>, Order <- <<1, 2>>,
       Uids <- {"u1"}, Workers <- {}, MaxMishaps <- 2,
       addr <- v1, record <- v2, last <- v3, routes <- v4, users <- v5, chan <- v6, req <- v7, faults <- v8,
       toldOk <- v9

(* The part, and the variables that it leaves at 0. *)
from1 == <<v1, v2, v3, v4, v5, v6, v7, v8, v9, v10, v11, v12, v13, v14, v15, v16, v17, v18, v19>>
from19 == <<v19>>
from18 == <<v18, v19>>
from10 == <<v10, v11, v12, v13, v14, v15, v16, v17, v18, v19>>
from8 == <<v8, v9, v10, v11, v12, v13, v14, v15, v16, v17, v18, v19>>
from7 == <<v7, v8, v9, v10, v11, v12, v13, v14, v15, v16, v17, v18, v19>>

Zero19 == v19 = 0
Zero18 == v18 = 0 /\ Zero19
Zero10 == /\ v10 = 0 /\ v11 = 0 /\ v12 = 0 /\ v13 = 0 /\ v14 = 0 /\ v15 = 0 /\ v16 = 0 /\ v17 = 0
          /\ Zero18
Zero8 == v8 = 0 /\ v9 = 0 /\ Zero10
Zero7 == v7 = 0 /\ Zero8
Zero1 == v1 = 0 /\ v2 = 0 /\ v3 = 0 /\ v4 = 0 /\ v5 = 0 /\ v6 = 0 /\ Zero7

own == <<scrubVars, wipeVars>>
mcvars == <<part, own, from1>>

MCInit ==
  /\ ScrubInit /\ WipeInit
  /\ \/ part = "stream" /\ S!Init /\ Zero10
     \/ part = "server" /\ N!Init
     \/ part = "control" /\ D!Init /\ Zero18
     \/ part = "life" /\ L!Init /\ Zero19
     \/ part = "memory" /\ M!Init /\ Zero7
     \/ part \in {"scrub", "wipe"} /\ Zero1
     \/ part = "timer" /\ T!Init /\ Zero8
     \/ part = "sets" /\ Z!AccessInit /\ Zero10
  /\ part # "wipe" => opt = OneFlags

InStream(Act)  == part = "stream" /\ Act /\ UNCHANGED <<part, own, from10>>
InServer(Act)  == part = "server" /\ Act /\ UNCHANGED <<part, own>>
InControl(Act) == part = "control" /\ Act /\ UNCHANGED <<part, own, from18>>
InLife(Act)    == part = "life" /\ Act /\ UNCHANGED <<part, own, from19>>
InMemory(Act)  == part = "memory" /\ Act /\ UNCHANGED <<part, own, from7>>
InTimer(Act)   == part = "timer" /\ Act /\ UNCHANGED <<part, own, from8>>
InScrub(Act)   == part = "scrub" /\ Act /\ UNCHANGED <<part, wipeVars, from1>>
InWipe(Act)    == part = "wipe" /\ Act /\ UNCHANGED <<part, scrubVars, from1>>
InSets(Act)    == part = "sets" /\ Act /\ UNCHANGED <<part, own, from10>>

MCNext ==
  \/ InStream(S!Next)
  \/ InServer(N!Next)
  \/ InControl(D!Next)
  \/ InLife(L!Next)
  \/ InMemory(M!Next)
  \/ InTimer(T!Next)
  \/ InSets(Z!AccessNext)
  \/ InScrub(ScrubNext)
  \/ InWipe(WipeNext)

(* The fairness of every part.  Only the steps of one part are ever        *)
(* enabled, so one conjunct may serve a step of each.                      *)
MCFairness ==
  /\ WF_mcvars(\/ InStream(S!Reader) \/ InServer(N!Steps) \/ InControl(D!Steps) \/ InLife(L!ProcessSteps)
               \/ InTimer(T!epoll_wait \/ \E t \in {"a", "b", "c"} : T!HandleEvent(t) \/ T!FinishRun(t))
               \/ InSets(Z!UpdateSets))
  /\ WF_mcvars(\/ InStream(S!SendData) \/ InLife(L!Heartbeat) \/ InTimer(T!Expire("a"))
               \/ InSets(Z!ReportSetHeartbeat(1)))
  /\ WF_mcvars(InTimer(T!Expire("b")) \/ InSets(Z!ReportSetHeartbeat(2)))
  /\ WF_mcvars(InTimer(T!KeepTimer("a"))) /\ WF_mcvars(InTimer(T!KeepTimer("b")))
  /\ WF_mcvars(InTimer(T!Expire("c"))) /\ WF_mcvars(InTimer(T!KeepTimer("c")))

MCSpec == MCInit /\ [][MCNext]_mcvars /\ MCFairness
-----------------------------------------------------------------------------
(* Properties, of one part each.                                           *)

(* The NBD bridge.  Every request of the kernel comes to OnRecvPack once,  *)
(* in order and with its own bytes, however the socket cuts them; threads  *)
(* that finish requests never mix their replies; the kernel is told that a *)
(* write is done only if it is in the blob, but for a write that the       *)
(* library refused; when NBDServer closes the handle no callback is still  *)
(* to come.  Every request arrives, unless the kernel closes the socket,   *)
(* and is answered; and after a disconnect the bridge goes down.           *)
KernelServed ==
  /\ [](part = "stream" => S!EachOnceInOrder)
  /\ [](part = "server" => N!RepliesWhole /\ N!ToldTruth /\ N!NoLateCallback)
  /\ []<>(part = "stream" => v3 \/ S!AllHere)
  /\ []<>(part = "server" => N!NoneOpen)
  /\ []<>(part = "server" => N!Down)

(* cypre_nbd's map, unmap and list.  A child that has given a device its   *)
(* sockets keeps it until it ends: another child's search neither takes    *)
(* nor clears it.  "map" names the device that its child has set up, and   *)
(* returns, unless a signal ended the child before it answered; a row of   *)
(* "list" names the process that serves the device or did a moment ago.    *)
DevicesKept ==
  /\ [](part = "control" => D!DeviceKept /\ D!ToldDevice /\ D!ListedRight)
  /\ []<>(part = "control" => D!Returned)

(* An extent server's start and end.  It looks at no request before the    *)
(* extent size is known; while a request is not answered RocksDB, the      *)
(* device and the channel of its worker stay open; the device is closed    *)
(* when no worker holds a channel of it.  It becomes ready though          *)
(* heartbeats are lost.  A signal ends it, unless a step of the shutdown   *)
(* fails or the signal interrupts a worker; of two signals' Destroys one   *)
(* comes to the end or the process crashes.                                *)
NothingClosedUnder ==
  /\ [](part = "life" => L!ServedReady /\ L!NothingClosedUnder /\ L!ChannelsFirst)
  /\ []<>(part = "life" => v2 # "wait")
  /\ []<>(part = "life" => L!QuitOrFailed)

(* No piece of pooled memory is given to two callers; a pool at rest can   *)
(* serve, as units lost to a failed Get do not use up its count; a Put is  *)
(* refused only by a pool that made more units than its ring holds, which  *)
(* takes a Get of several; a Request is handed out as Reset leaves it.     *)
MemorySound ==
  /\ [](part = "memory" => M!TypeOK /\ M!MemoryDisjoint /\ M!PoolServes /\ M!RefusedOnlyAfterOvershoot)
  /\ [][part = "memory" => M!HandsOutFresh]_mcvars

(* A repeated timer runs again and again until it is canceled, however     *)
(* many timers share the thread; a canceled one leaves the map; and one    *)
(* that epoll can report, or whose callback is still to come, has not been *)
(* freed.                                                                  *)
KeepsFiring ==
  /\ [](part = "timer" => T!TypeOK /\ T!NoDanglingTimer)
  /\ \A t \in {"a", "b"} : []<>(part = "timer" => T!Fires(t))
  /\ \A t \in {"a", "b"} : []<>(part = "timer" => T!Left(t))

(* Once all sets report in time, the access layer knows them all again,    *)
(* although a lost call or a restart of the set manager empties its map.   *)
SetsKnownAgain ==
  <>[](part = "sets" /\ Z!AllReport) => <>[](part = "sets" /\ Z!AllKnown)
=============================================================================
