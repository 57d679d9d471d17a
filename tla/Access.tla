------------------------------- MODULE Access -------------------------------
(***************************************************************************)
(* How a user's request finds the extent manager of the user's set: the    *)
(* extent managers' heartbeats (one timer thread for heartbeats and for    *)
(* garbage collection), the set manager that keeps the last heartbeat of   *)
(* every set, and the access layer with its two caches: the sets, read     *)
(* anew on a timer, and the set of every user, kept until the user goes.   *)
(*                                                                         *)
(* A request or its answer may be lost on the way, at every call.          *)
(***************************************************************************)
EXTENDS Integers, FiniteSets, Sequences

CONSTANTS
  Sets,        \* set ids; each has one extent manager
  Addrs,       \* <<ip, port>> of extent managers
  Homes,       \* where each set's extent manager is started first
  Hosts,       \* the ips of the hosts it may be started on
  Order,       \* the order in which the set manager's set_map_ is walked
  Uids,        \* user ids that extent managers may generate
  Workers,     \* brpc workers of the access layer
  MaxMishaps   \* bound: lost calls, managers started at a new address, restarts of the set manager

NoSet  == 0
NoAddr == <<0, 0>>

(* How a cluster is set up: hosts may serve several sets, an address one.  *)
ASSUME SetsPlaced ==
  /\ Homes \in [Sets -> Addrs] /\ NoAddr \notin Addrs /\ NoSet \notin Sets
  /\ \A s \in Sets : Homes[s][1] \in Hosts[s]
  /\ \A s, t \in Sets : s # t => Homes[s] # Homes[t]

VARIABLES
  addr,    \* where the extent manager of a set listens
  record,  \* UserManager: set and status of every user id
  last,    \* set manager, set_map_: the address in the last heartbeat, and whether it is recent
  routes,  \* access, SetMgr::set_map_: the address of every set
  users,   \* access, ResourceMgr::user_map_: set and address of a user
  chan,    \* access, em_channel_map_: for an ip, the address of the open channel
  req,     \* the request that a worker handles
  faults,  \* how many faults there were
  toldOk   \* users whose creation or deletion was answered with OK (history)

manager == <<addr, record>>
access  == <<routes, users, chan>>
accessVars == <<manager, last, access, req, faults, toldOk>>

Unknown == [recent |-> FALSE, at |-> NoAddr]
NoRoute == [set |-> NoSet, at |-> NoAddr]
NoRequest == [op |-> "none", pc |-> "none", uid |-> "none", to |-> NoRoute]

AccessInit ==
  /\ addr = Homes
  /\ record = [u \in Uids |-> [set |-> NoSet, status |-> "none"]]
  /\ last = [s \in Sets |-> Unknown]
  /\ routes = [s \in Sets |-> NoAddr]
  /\ users = [u \in Uids |-> NoRoute]
  /\ chan = [h \in {a[1] : a \in Addrs} |-> NoAddr]
  /\ req = [w \in Workers |-> NoRequest]
  /\ faults = 0
  /\ toldOk = [created |-> {}, deleted |-> {}]

(* The outcomes of a call: it arrives and is answered, it arrives and the  *)
(* answer is lost, or the request is lost.                                 *)
Outcomes == {"answered"} \cup IF faults < MaxMishaps THEN {"unanswered", "unsent"} ELSE {}
Spend(o) == faults' = IF o = "answered" THEN faults ELSE faults + 1

-----------------------------------------------------------------------------
(* Extent managers and the set manager's heartbeat service.                *)

(* SetManager::AddSet: the last heartbeat counts. *)
AddSet(s) == [last EXCEPT ![s] = [recent |-> TRUE, at |-> addr[s]]]

(* ExtentManager::ReportHeartbeat, on its timer. *)
Receive(o, s) == IF o = "unsent" THEN last ELSE AddSet(s)
ReportSetHeartbeat(s) ==
  /\ \E o \in Outcomes :
       /\ Spend(o)
       /\ last' = Receive(o, s)
  /\ UNCHANGED <<manager, access, req, toldOk>>

(* obsolete_interval_sec pass without a heartbeat: they were lost, or gc() *)
(* held the timer thread that sends them.                                  *)
Obsolete(s) ==
  /\ last[s].recent
  /\ last' = [last EXCEPT ![s].recent = FALSE]
  /\ UNCHANGED <<manager, access, req, faults, toldOk>>

(* gc() of a manager removes the records of deleted users. *)
GcUsers(s) ==
  /\ record' = [u \in Uids |-> IF record[u] = [set |-> s, status |-> "deleted"]
                             THEN [record[u] EXCEPT !.status = "collected"] ELSE record[u]]
  /\ record' # record
  /\ UNCHANGED <<addr, last, access, req, faults, toldOk>>

(* An extent manager is started again, at another port or on another host, *)
(* where no other listens.                                                 *)
Move(s) ==
  /\ faults < MaxMishaps
  /\ \E a \in Addrs \ {addr[t] : t \in Sets} : a[1] \in Hosts[s] /\ addr' = [addr EXCEPT ![s] = a]
  /\ faults' = faults + 1
  /\ UNCHANGED <<record, last, access, req, toldOk>>

(* The set manager keeps nothing on disk: it starts with no set. *)
SetManagerRestarts ==
  /\ faults < MaxMishaps
  /\ last' = [s \in Sets |-> Unknown]
  /\ faults' = faults + 1
  /\ UNCHANGED <<manager, access, req, toldOk>>

(* Of all the sets in the configuration a heartbeat has come. *)
Available == \A s \in Sets : last[s] # Unknown
obsoleted(s) == ~ last[s].recent

(* ListSets and AllocateSet walk the map up to the first obsolete set. *)
ListSets ==
  {s \in Sets : \E i \in DOMAIN Order :
     Order[i] = s /\ \A j \in 1..i : last[Order[j]] # Unknown => ~ obsoleted(Order[j])} \cap
  {s \in Sets : last[s] # Unknown}

(* SetManager::AllocateSet takes the set with the least used pool of the   *)
(* right type: which one that is, is left open.                            *)
LeastUsed == ListSets

(* The service answers List and Allocate only when every set has reported. *)
List     == IF Available THEN ListSets ELSE {}
Allocate == IF Available THEN LeastUsed ELSE {}

(* Query asks, for every listed set, whoever listens at the address that   *)
(* its manager last reported for the user.                                 *)
BroadcastRequest(u) ==
  {s \in ListSets : \E t \in Sets : /\ addr[t] = last[s].at
                                   /\ record[u] = [set |-> t, status |-> "created"]}

-----------------------------------------------------------------------------
(* The access layer.                                                       *)

(* Mutant: an error leaves the map as it is, and so does an answer. *)
UpdateSetsNever ==
  /\ \E o \in Outcomes : Spend(o)
  /\ UNCHANGED <<manager, last, access, req, toldOk>>

(* SetMgr::UpdateSets: the map is cleared on an error too. *)
UpdateSets ==
  /\ \E o \in Outcomes :
       /\ Spend(o)
       /\ routes' = [s \in Sets |-> IF o = "answered" /\ s \in List
                                    THEN last[s].at ELSE NoAddr]
  /\ UNCHANGED <<manager, last, users, chan, req, toldOk>>

(* SetMgr::QuerySetById looks into the map only. *)
QuerySetById(s) == routes[s]

(* CreateUser in a set that the client names, or in one that the set       *)
(* manager chooses.                                                        *)
RpcCreateUser(w) ==
  /\ req[w] = NoRequest
  /\ \E s \in Sets :
       \/ /\ QuerySetById(s) # NoAddr
          /\ req' = [req EXCEPT ![w] = [NoRequest EXCEPT !.op = "create", !.pc = "channel",
                                                         !.to = [set |-> s, at |-> QuerySetById(s)]]]
       \/ /\ s \in Allocate
          /\ req' = [req EXCEPT ![w] = [NoRequest EXCEPT !.op = "create", !.pc = "channel",
                                                         !.to = [set |-> s, at |-> last[s].at]]]
  /\ UNCHANGED <<manager, last, access, faults, toldOk>>

(* DeleteUser, and the other calls for a user or a blob of the user:       *)
(* QueryUserSet looks into the cache ...                                   *)
UserCall(w, op, u) ==
  /\ req[w] = NoRequest /\ record[u].set # NoSet
  /\ req' = [req EXCEPT ![w] = [NoRequest EXCEPT !.op = op, !.uid = u, !.to = users[u],
                                                 !.pc = IF users[u] # NoRoute THEN "channel" ELSE "query"]]
  /\ UNCHANGED <<manager, last, access, faults, toldOk>>

(* ... and asks the set manager, which asks the extent managers of the     *)
(* sets it lists.                                                          *)
Query(u) == BroadcastRequest(u)
QuerySet(w) ==
  /\ req[w].pc = "query"
  /\ \E o \in Outcomes :
       /\ Spend(o)
       /\ IF o = "answered" /\ Query(req[w].uid) # {} /\ req[w].op # "set"
              THEN \E s \in Query(req[w].uid) :
                     req' = [req EXCEPT ![w].pc = "insert", ![w].to = [set |-> s, at |-> last[s].at]]
              ELSE req' = [req EXCEPT ![w] = NoRequest]
  /\ UNCHANGED <<manager, last, access, toldOk>>

InsertUserSet(w) ==
  /\ req[w].pc = "insert"
  /\ users' = [users EXCEPT ![req[w].uid] = req[w].to]
  /\ req' = [req EXCEPT ![w].pc = "channel"]
  /\ UNCHANGED <<manager, last, routes, chan, faults, toldOk>>

(* Mutant: any channel that is open will do. *)
GetChannelAny(w) ==
  /\ req[w].pc = "channel"
  /\ LET ip == req[w].to.at[1]
         open == {chan[h] : h \in DOMAIN chan} \ {NoAddr}
     IN  chan' = IF open = {} THEN [chan EXCEPT ![ip] = req[w].to.at]
                 ELSE [chan EXCEPT ![ip] = CHOOSE a \in open : TRUE]
  /\ req' = [req EXCEPT ![w].pc = "call"]
  /\ UNCHANGED <<manager, last, routes, users, faults, toldOk>>

(* A channel that somebody has opened to the ip is taken, whatever port it *)
(* was opened to.                                                          *)
InitChannel(to) == IF chan[to[1]] = NoAddr THEN [chan EXCEPT ![to[1]] = to] ELSE chan

(* GetChannel: a channel is found by the ip alone, and it stays open to    *)
(* the port it was opened to.                                              *)
GetChannel(w) ==
  /\ req[w].pc = "channel"
  /\ chan' = InitChannel(req[w].to.at)
  /\ req' = [req EXCEPT ![w].pc = "call"]
  /\ UNCHANGED <<manager, last, routes, users, faults, toldOk>>

(* The extent managers that listen at the address of the channel. *)
Reached(w) == {s \in Sets : addr[s] = chan[req[w].to.at[1]]}

(* The outcomes of the call to the extent manager; nobody may be there. *)
CallOutcomes(w) == IF Reached(w) = {} THEN {"unsent"} ELSE Outcomes

(* CreateUser at the manager.  After a failed call the access layer goes   *)
(* on and answers OK, with no user id.                                     *)
CallCreate(w) ==
  /\ req[w].pc = "call" /\ req[w].op = "create"
  /\ \E o \in CallOutcomes(w), u \in Uids :
       /\ record[u].set = NoSet
       /\ IF Reached(w) = {} THEN UNCHANGED faults ELSE Spend(o)
       /\ record' = IF o = "unsent" THEN record
                  ELSE [record EXCEPT ![u] = [set |-> CHOOSE s \in Reached(w) : TRUE, status |-> "created"]]
       /\ toldOk' = IF o = "answered" THEN [toldOk EXCEPT !.created = @ \cup {u}] ELSE toldOk
  /\ req' = [req EXCEPT ![w] = NoRequest]
  /\ UNCHANGED <<addr, last, access>>

(* DeleteUser at the manager: an error only for a user it has no record    *)
(* of, so a second deletion is answered like the first.                    *)
CallDelete(w) ==
  LET u == req[w].uid
      there == record[u].set \in Reached(w) /\ record[u].status \in {"created", "deleted"}
  IN  /\ req[w].pc = "call" /\ req[w].op = "delete"
      /\ \E o \in CallOutcomes(w) :
           /\ IF Reached(w) = {} THEN UNCHANGED faults ELSE Spend(o)
           /\ record' = IF o # "unsent" /\ there THEN [record EXCEPT ![u].status = "deleted"] ELSE record
           /\ req' = IF o = "answered" /\ there THEN [req EXCEPT ![w].pc = "erase"]
                     ELSE [req EXCEPT ![w] = NoRequest]
      /\ UNCHANGED <<addr, last, access, toldOk>>

DeleteUserSetCache(w) ==
  /\ req[w].pc = "erase"
  /\ users' = [users EXCEPT ![req[w].uid] = NoRoute]
  /\ toldOk' = [toldOk EXCEPT !.deleted = @ \cup {req[w].uid}]
  /\ req' = [req EXCEPT ![w] = NoRequest]
  /\ UNCHANGED <<manager, last, routes, chan, faults>>

(* The other requests: the manager's answer is handed on, whatever it is,  *)
(* and the access layer keeps nothing of it.                               *)
CallOther(w) ==
  /\ req[w].pc = "call" /\ req[w].op = "other"
  /\ req' = [req EXCEPT ![w] = NoRequest]
  /\ UNCHANGED <<manager, last, access, faults, toldOk>>

-----------------------------------------------------------------------------
(* The requests for a user or a blob of the user.  Invalid names, ids and  *)
(* descriptions are refused before anything is looked up.                  *)
RpcDeleteUser(w) == \E u \in Uids : UserCall(w, "delete", u)
RpcUpdateUser(w) == \E u \in Uids : UserCall(w, "other", u)
RpcQueryUser(w)  == \E u \in Uids : UserCall(w, "other", u)
RpcCreateBlob(w) == \E u \in Uids : UserCall(w, "other", u)
RpcDeleteBlob(w) == \E u \in Uids : UserCall(w, "other", u)
RpcRenameBlob(w) == \E u \in Uids : UserCall(w, "other", u)
RpcResizeBlob(w) == \E u \in Uids : UserCall(w, "other", u)
RpcQueryBlob(w)  == \E u \in Uids : UserCall(w, "other", u)
RpcListBlobs(w)  == \E u \in Uids : UserCall(w, "other", u)

(* ListUsers names a set: no user is looked up. *)
RpcListUsers(w) ==
  /\ req[w] = NoRequest
  /\ \E s \in Sets :
       /\ QuerySetById(s) # NoAddr
       /\ req' = [req EXCEPT ![w] = [NoRequest EXCEPT !.op = "other", !.pc = "channel",
                                                      !.to = [set |-> s, at |-> QuerySetById(s)]]]
  /\ UNCHANGED <<manager, last, access, faults, toldOk>>

(* The set of a user, past the cache. *)
QueryUserSet(w) ==
  /\ req[w] = NoRequest
  /\ \E u \in Uids : /\ record[u].set # NoSet
                     /\ req' = [req EXCEPT ![w] = [NoRequest EXCEPT !.op = "set", !.uid = u, !.pc = "query"]]
  /\ UNCHANGED <<manager, last, access, faults, toldOk>>

(* The access layer is started again: its caches are empty, and who waits  *)
(* for an answer gets none.                                                *)
AccessRestarts ==
  /\ faults < MaxMishaps
  /\ routes' = [s \in Sets |-> NoAddr]
  /\ users' = [u \in Uids |-> NoRoute]
  /\ chan' = [h \in DOMAIN chan |-> NoAddr]
  /\ req' = [w \in Workers |-> NoRequest]
  /\ faults' = faults + 1
  /\ UNCHANGED <<manager, last, toldOk>>

-----------------------------------------------------------------------------
UserRequest(w) == RpcCreateUser(w) \/ RpcDeleteUser(w) \/ RpcUpdateUser(w) \/ RpcQueryUser(w) \/ RpcListUsers(w)
BlobRequest(w) ==
  RpcCreateBlob(w) \/ RpcDeleteBlob(w) \/ RpcRenameBlob(w) \/ RpcResizeBlob(w) \/ RpcQueryBlob(w) \/ RpcListBlobs(w)
Handle(w) ==
  \/ QuerySet(w) \/ InsertUserSet(w) \/ GetChannel(w)
  \/ CallCreate(w) \/ CallDelete(w) \/ DeleteUserSetCache(w) \/ CallOther(w)

AccessNext ==
  \/ \E s \in Sets : ReportSetHeartbeat(s) \/ Obsolete(s) \/ GcUsers(s) \/ Move(s)
  \/ SetManagerRestarts
  \/ AccessRestarts
  \/ UpdateSets
  \/ \E w \in Workers : UserRequest(w) \/ BlobRequest(w) \/ QueryUserSet(w) \/ Handle(w)

(* Timers fire again and again. *)
Timers ==
  /\ \A s \in Sets : WF_accessVars(ReportSetHeartbeat(s))
  /\ WF_accessVars(UpdateSets)

AccessSpec == AccessInit /\ [][AccessNext]_accessVars /\ Timers
-----------------------------------------------------------------------------
(* Properties.                                                             *)

(* Every variable has its type. *)
AccessTypes ==
  /\ addr \in [Sets -> Addrs]
  /\ \A s \in Sets : last[s].recent \in BOOLEAN /\ last[s].at \in Addrs \cup {NoAddr}
  /\ \A u \in Uids : record[u].set \in Sets \cup {NoSet} /\ users[u].set \in Sets \cup {NoSet}
  /\ routes \in [Sets -> Addrs \cup {NoAddr}]

(* Set t is set s, or another that may run on the same host: a channel is  *)
(* found by the ip alone and stays open to the port of whoever was first,  *)
(* so of two managers on a host one gets the requests of the other.        *)
SameOrShared(s, t, host) == s = t \/ host \in Hosts[s] \cap Hosts[t]

(* The set that the access layer remembers for a user is the set that has  *)
(* the user, whatever was lost, retried or overtaken in between, unless    *)
(* the two sets share the host.                                            *)
CachedSetRight ==
  \A u \in Uids : users[u] # NoRoute => SameOrShared(users[u].set, record[u].set, users[u].at[1])

(* A request comes to the extent manager of the set it is meant for, or to *)
(* nobody, unless the two sets share the host: also after a manager was    *)
(* started again at another port of its host, or at another host, while    *)
(* channels and routes to it were cached.                                  *)
ReachesItsSet ==
  \A w \in Workers : req[w].pc = "call" =>
    \A s \in Reached(w) : SameOrShared(req[w].to.set, s, req[w].to.at[1])

(* An OK with a user id means that a manager has the user, and an OK to    *)
(* DeleteUser that it has no longer.                                       *)
OkMeansDone ==
  /\ \A u \in toldOk.created : record[u].set # NoSet
  /\ \A u \in toldOk.deleted : record[u].status \in {"deleted", "collected"}

(* A request comes to the extent manager of the set it is meant for, or to *)
(* nobody, although managers move while routes and channels are cached;    *)
(* the set that user_map_ has for a user is the set that has the user;     *)
(* both fail only where a host serves two sets, and then between these     *)
(* two.  What the access layer answers OK was done by an extent manager.   *)
RightManager == AccessTypes /\ ReachesItsSet /\ CachedSetRight /\ OkMeansDone

(* All sets report in time; the access layer knows them all.               *)
AllReport == \A s \in Sets : last[s] # Unknown /\ ~ obsoleted(s)
AllKnown  == \A s \in Sets : routes[s] # NoAddr
=============================================================================
