----------------------------- MODULE NbdControl -----------------------------
(***************************************************************************)
(* cypre_nbd's processes and the kernel's NBD devices.  "map" forks a      *)
(* child that opens the blob, finds or takes a device, gives it its        *)
(* sockets and attributes, writes the device's number, or the error, into  *)
(* a pipe on which the parent waits, and serves the device until it is     *)
(* disconnected by "unmap" or by a signal.  Several maps run at once and   *)
(* race for the devices.                                                   *)
(*                                                                         *)
(* The kernel (external): NBD_SET_SOCK ties a device to the first process  *)
(* that uses it, until NBD_CLEAR_SOCK or the process closes the device;    *)
(* the device's pid file is there while NBD_DO_IT runs.                    *)
(***************************************************************************)
EXTENDS Integers, FiniteSets

CONSTANTS
  Procs,      \* "map" commands
  NumDevs,    \* nbds_max
  MaxFaults,  \* bound: failing calls
  MaxSignals, \* bound: SIGINT or SIGTERM
  MaxUnmaps   \* bound: "unmap" commands

Devs   == 0..(NumDevs - 1)
NoDev  == -1
NoProc == "none"
Nothing == -2    \* the pipe is empty
Failed  == -3    \* a negative result

VARIABLES
  parent, told,   \* parent: "idle", "wait", "over"; what it read
  pipe,
  child,          \* where a child is
  probe,          \* device that FindUnusedNbdDevice looks at
  dev,            \* g_nbd_config->devpath
  task,           \* process that a device is tied to
  running,        \* process that serves a device (its pid file)
  mounted,
  handler,        \* a child's signal handler, between its check and its ioctl
  unmap,          \* device an "unmap" command has checked, or NoDev
  at, pid, found, \* "list": device it looks at, process it read there, its rows
  faults, signals, unmaps

kernel == <<task, running, mounted>>
list   == <<at, pid, found>>
counts == <<list, faults, signals, unmaps>>
vars   == <<parent, told, pipe, child, probe, dev, kernel, handler, unmap, counts>>

(* ParseArgs: what a command line can ask for. *)
Asks(cmd) ==
  CASE cmd = "map"   -> Devs \cup {NoDev}
    [] cmd = "unmap" -> Devs
    [] cmd = "list"  -> {NoDev}

Init ==
  /\ parent = [p \in Procs |-> "idle"] /\ told = [p \in Procs |-> Nothing]
  /\ pipe = [p \in Procs |-> Nothing] /\ child = [p \in Procs |-> "none"]
  /\ probe = [p \in Procs |-> 0] /\ dev = [p \in Procs |-> NoDev]
  /\ task = [d \in Devs |-> NoProc] /\ running = [d \in Devs |-> NoProc]
  /\ mounted = [d \in Devs |-> FALSE] /\ handler = [p \in Procs |-> NoDev]
  /\ unmap = NoDev
  /\ at = NoDev /\ pid = NoProc /\ found = {}
  /\ faults = 0 /\ signals = 0 /\ unmaps = 0

-----------------------------------------------------------------------------
(* NBDConnect: the parent forks, with or without a device asked for ...    *)
Fork(p) ==
  /\ parent[p] = "idle"
  /\ parent' = [parent EXCEPT ![p] = "wait"]
  /\ child' = [child EXCEPT ![p] = "connect"]
  /\ \E d \in Asks("map") : dev' = [dev EXCEPT ![p] = d]
  /\ UNCHANGED <<told, pipe, probe, kernel, handler, unmap, counts>>

(* ... and waits for the child's answer. *)
ParentReads(p) ==
  /\ parent[p] = "wait" /\ pipe[p] # Nothing
  /\ parent' = [parent EXCEPT ![p] = "over"]
  /\ told' = [told EXCEPT ![p] = pipe[p]]
  /\ UNCHANGED <<pipe, child, probe, dev, kernel, handler, unmap, counts>>

(* What a process had of the devices is given back when it ends. *)
Release(p) == task' = [d \in Devs |-> IF task[d] = p THEN NoProc ELSE task[d]]

(* Connect failed: the error goes to the parent, and the child exits. *)
ConnectFailed(p) ==
  /\ child' = [child EXCEPT ![p] = "exited"]
  /\ pipe' = [pipe EXCEPT ![p] = Failed]
  /\ Release(p)
  /\ UNCHANGED <<running, mounted>>

(* The sockets, the kernel module, the library, the blob on every          *)
(* connection, and its size.                                               *)
Connect(p) ==
  /\ child[p] = "connect"
  /\ \/ /\ child' = [child EXCEPT ![p] = IF dev[p] = NoDev THEN "probe" ELSE "setup"]
        /\ UNCHANGED <<pipe, kernel, faults>>
     \/ /\ faults < MaxFaults /\ faults' = faults + 1
        /\ ConnectFailed(p)
  /\ UNCHANGED <<parent, told, probe, dev, handler, unmap, list, signals, unmaps>>

(* FindUnusedNbdDevice: the first device without a pid file on which the   *)
(* trial socket can be set ...                                             *)
FindUnused(p) ==
  /\ child[p] = "probe" /\ probe[p] < NumDevs
  /\ IF running[probe[p]] = NoProc /\ task[probe[p]] = NoProc
     THEN /\ task' = [task EXCEPT ![probe[p]] = p]
          /\ child' = [child EXCEPT ![p] = "clear"]
          /\ UNCHANGED probe
     ELSE probe' = [probe EXCEPT ![p] = @ + 1] /\ UNCHANGED <<task, child>>
  /\ UNCHANGED <<parent, told, pipe, dev, running, mounted, handler, unmap, counts>>

(* ... is given back: until SetUp it is anyone's. *)
ClearTrial(p) ==
  /\ child[p] = "clear"
  /\ task' = [task EXCEPT ![probe[p]] = NoProc]
  /\ dev' = [dev EXCEPT ![p] = probe[p]]
  /\ child' = [child EXCEPT ![p] = "setup"]
  /\ UNCHANGED <<parent, told, pipe, probe, running, mounted, handler, unmap, counts>>

NoneFree(p) ==
  /\ child[p] = "probe" /\ probe[p] = NumDevs
  /\ ConnectFailed(p)
  /\ UNCHANGED <<parent, told, probe, dev, handler, unmap, counts>>

(* IOController::SetUp: the device is opened and the sockets are set,      *)
(* unless another process has the device.                                  *)
SetUp(p) ==
  /\ child[p] = "setup"
  /\ IF task[dev[p]] = NoProc
     THEN /\ task' = [task EXCEPT ![dev[p]] = p]
          /\ child' = [child EXCEPT ![p] = "attr"]
          /\ UNCHANGED <<pipe, running, mounted>>
     ELSE ConnectFailed(p)
  /\ UNCHANGED <<parent, told, probe, dev, handler, unmap, counts>>

(* InitDevAttr's other calls, each of which may fail, and the blob of the  *)
(* watch.  A failure clears the sockets or ends the process.               *)
InitDevAttr(p) ==
  /\ child[p] = "attr"
  /\ \/ child' = [child EXCEPT ![p] = "report"] /\ UNCHANGED <<pipe, kernel, faults>>
     \/ /\ faults < MaxFaults /\ faults' = faults + 1
        /\ ConnectFailed(p)
  /\ UNCHANGED <<parent, told, probe, dev, handler, unmap, list, signals, unmaps>>

(* The device's number goes to the parent. *)
Report(p) ==
  /\ child[p] = "report"
  /\ pipe' = [pipe EXCEPT ![p] = dev[p]]
  /\ child' = [child EXCEPT ![p] = "doit"]
  /\ UNCHANGED <<parent, told, probe, dev, kernel, handler, unmap, counts>>

(* RunServerUntilQuit: NBD_DO_IT. *)
RunServerUntilQuit(p) ==
  /\ child[p] = "doit"
  /\ running' = [running EXCEPT ![dev[p]] = p]
  /\ child' = [child EXCEPT ![p] = "serve"]
  /\ UNCHANGED <<parent, told, pipe, probe, dev, task, mounted, handler, unmap, counts>>

(* NBD_DO_IT has returned: the child takes itself down. *)
Quit(p) ==
  /\ child[p] = "serve" /\ running[dev[p]] # p
  /\ child' = [child EXCEPT ![p] = "exited"]
  /\ Release(p)
  /\ UNCHANGED <<parent, told, pipe, probe, dev, running, mounted, handler, unmap, counts>>

-----------------------------------------------------------------------------
(* Mounts, "unmap" and signals.                                            *)

Mount(d) ==
  /\ running[d] # NoProc /\ ~mounted[d]
  /\ mounted' = [mounted EXCEPT ![d] = TRUE]
  /\ UNCHANGED <<parent, told, pipe, child, probe, dev, task, running, handler, unmap, counts>>

Umount(d) ==
  /\ mounted[d]
  /\ mounted' = [mounted EXCEPT ![d] = FALSE]
  /\ UNCHANGED <<parent, told, pipe, child, probe, dev, task, running, handler, unmap, counts>>

(* DisconnectByPath: a device that is not mapped is left alone. *)
DisconnectByPath(d) == running' = [running EXCEPT ![d] = NoProc]

(* "unmap": a mounted device is refused ... *)
Unmap(d) ==
  /\ d \in Asks("unmap") /\ unmap = NoDev /\ unmaps < MaxUnmaps /\ ~mounted[d]
  /\ unmaps' = unmaps + 1
  /\ unmap' = d
  /\ UNCHANGED <<parent, told, pipe, child, probe, dev, kernel, handler, list, faults, signals>>

(* ... and another one is disconnected, whatever happened since. *)
UnmapDisconnects ==
  /\ unmap # NoDev
  /\ DisconnectByPath(unmap)
  /\ unmap' = NoDev
  /\ UNCHANGED <<parent, told, pipe, child, probe, dev, task, mounted, handler, counts>>

Alive(p) == child[p] \notin {"none", "exited", "killed"}

(* HandleSignal.  Before the device is known, DisconnectByPath's assertion *)
(* ends the process; a mounted device is kept.                             *)
HandleSignal(p) ==
  /\ Alive(p) /\ handler[p] = NoDev /\ signals < MaxSignals
  /\ signals' = signals + 1
  /\ IF dev[p] = NoDev
     THEN /\ child' = [child EXCEPT ![p] = "killed"] /\ Release(p)
          /\ UNCHANGED handler
     ELSE /\ handler' = [handler EXCEPT ![p] = IF mounted[dev[p]] THEN NoDev ELSE dev[p]]
          /\ UNCHANGED <<child, task>>
  /\ UNCHANGED <<parent, told, pipe, probe, dev, running, mounted, unmap, list, faults, unmaps>>

HandlerDisconnects(p) ==
  /\ handler[p] # NoDev
  /\ IF Alive(p) THEN DisconnectByPath(handler[p]) ELSE UNCHANGED running
  /\ handler' = [handler EXCEPT ![p] = NoDev]
  /\ UNCHANGED <<parent, told, pipe, child, probe, dev, task, mounted, unmap, counts>>

-----------------------------------------------------------------------------
(* "list": NBDListIterator::Get reads a device's pid file ...              *)

others == <<parent, told, pipe, child, probe, dev, kernel, handler, unmap, faults, signals, unmaps>>

List ==
  /\ at = NoDev /\ \E d \in Asks("list") : at' = d + 1
  /\ UNCHANGED <<pid, found, others>>

(* Mutant: a device without a pid file has the process of the one before. *)
ListPidKept ==
  /\ at \in Devs /\ pid = NoProc
  /\ pid' = IF running[at] # NoProc THEN running[at] ELSE CHOOSE p \in Procs : TRUE
  /\ UNCHANGED <<at, found, others>>

(* ... if there is one ... *)
ListPid ==
  /\ at \in Devs /\ pid = NoProc
  /\ IF running[at] # NoProc THEN pid' = running[at] /\ UNCHANGED at
                              ELSE at' = at + 1 /\ UNCHANGED pid
  /\ UNCHANGED <<found, others>>

(* ... and, later, that process's command line, which is gone when the     *)
(* process is.                                                             *)
GetMappedInfo ==
  /\ pid # NoProc
  /\ found' = IF Alive(pid) THEN found \cup {<<at, pid>>} ELSE found
  /\ at' = at + 1 /\ pid' = NoProc
  /\ UNCHANGED others

Steps ==
  \/ ListPid \/ GetMappedInfo
  \/ \E p \in Procs :
    ParentReads(p) \/ Connect(p) \/ FindUnused(p) \/ ClearTrial(p) \/ NoneFree(p) \/ SetUp(p)
      \/ InitDevAttr(p) \/ Report(p) \/ RunServerUntilQuit(p) \/ Quit(p) \/ HandlerDisconnects(p)

Next ==
  \/ Steps
  \/ \E p \in Procs : Fork(p) \/ HandleSignal(p)
  \/ \E d \in Devs : Mount(d) \/ Umount(d) \/ Unmap(d)
  \/ UnmapDisconnects
  \/ List

(* Processes are scheduled. *)
Fairness == WF_vars(Steps)

Spec == Init /\ [][Next]_vars /\ Fairness

-----------------------------------------------------------------------------
(* A child that has given a device its sockets keeps it until it ends:     *)
(* another child's search for a free device neither takes nor clears it,   *)
(* and the one that serves a device is the one it is tied to.              *)
DeviceKept ==
  /\ \A p \in Procs : child[p] \in {"attr", "report", "doit", "serve"} => task[dev[p]] = p
  /\ \A d \in Devs : running[d] # NoProc => task[d] = running[d]

(* "map" names the device that its child has set up. *)
ToldDevice ==
  \A p \in Procs : told[p] \in Devs =>
    told[p] = dev[p] /\ (Alive(p) => task[told[p]] = p)

(* A row of "list" names the blob of the process that serves the device,   *)
(* or did a moment ago, although the two files are read one after the      *)
(* other: a process has one device all its life.                           *)
ListedRight == \A row \in found : dev[row[2]] = row[1] /\ told[row[2]] \in {row[1], Nothing}

(* "map" returns, unless a signal ended the child before it answered: the  *)
(* parent holds the pipe's other end itself and then waits for ever.       *)
Returned   == \A p \in Procs : parent[p] = "wait" => child[p] = "killed"
MapReturns == []<>Returned
=============================================================================
