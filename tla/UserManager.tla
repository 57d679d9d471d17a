----------------------------- MODULE UserManager -----------------------------
(***************************************************************************)
(* The users of the extent manager: UserManager behind ResourceService,    *)
(* with the collector that removes a deleted user.                         *)
(*                                                                         *)
(* create_user and delete_user hold the manager's lock alone (add_pool and *)
(* the pools of a user, which are not stored, are in BlobLifecycle).       *)
(* update_user and soft_delete_user change a user under the SHARED lock:   *)
(* they look it up, change its fields in place, encode the whole record    *)
(* and write it to RocksDB, and so interleave with one another.            *)
(* The e-mail, the comments and the time follow the rules of the name but  *)
(* for its uniqueness; an update that leaves the name alone is one of them. *)
(***************************************************************************)
EXTENDS FiniteSets, Naturals, PbTransfer

CONSTANTS
  Users,       \* user ids
  Names,       \* user names
  Keep,        \* the empty string: an update that leaves the name alone
  Threads,     \* brpc workers
  MaxFaults,   \* bound: failed writes to RocksDB
  MaxRestarts  \* bound: stops of the process

VARIABLES
  user,    \* user_map_
  userKV,
  call,    \* the call that a thread is in
  found,   \* what list_deleted_users has given the collector
  count,   \* faults and restarts so far
  gone,    \* users whose deletion was answered OK (history)
  mishap   \* what has happened to a user that the code does not handle (history)

vars == <<user, userKV, call, found, count, gone, mishap>>

NoUser == [status |-> "none", name |-> Keep]
Record == [status : {"none", "created", "deleted"}, name : Names \cup {Keep}]
Idle   == [op |-> "none", pc |-> "none", user |-> "none",
           name |-> Keep, old |-> Keep, val |-> NoUser]

Init ==
  /\ user = [u \in Users |-> NoUser] /\ userKV = user
  /\ call = [t \in Threads |-> Idle]
  /\ found = {} /\ gone = {}
  /\ count = [faults |-> 0, restarts |-> 0]
  /\ mishap = [u \in Users |-> {}]

-----------------------------------------------------------------------------
(* The shared lock is held from a call's first step to its last. *)
Unlocked == \A t \in Threads : call[t] = Idle

Writes(ok) == ok \/ count.faults < MaxFaults
Counted(ok) == count' = IF ok THEN count ELSE [count EXCEPT !.faults = @ + 1]

At(t, pc) == call[t].pc = pc
Goto(t, pc) == call' = [call EXCEPT ![t].pc = pc]
Return(t) == call' = [call EXCEPT ![t] = Idle]

(* Call t, on user u, starts while others are under way: on the same user, *)
(* or, for an update, calls that take or free a name and have not stored it.*)
Overlap(t, u, op) ==
  LET others == {call[v] : v \in {v \in Threads \ {t} : call[v].op # "none"}}
      same == IF \E c \in others : c.user = u THEN {u} ELSE {}
      names == IF op = "update" THEN {c.user : c \in others} ELSE {}
  IN  mishap' = [v \in Users |-> mishap[v] \cup (IF v \in same THEN {"overlap"} ELSE {})
                                          \cup (IF v \in names THEN {"names"} ELSE {})]

username_exist(n) == \E u \in Users : user[u].status = "created" /\ user[u].name = n
user_exist(u)     == user[u].status = "created"
ToPbUser(u)       == [id |-> u, status |-> ToPbUserStatus(user[u].status), name |-> user[u].name]

(* gen_userid draws ids until one is not in the map. *)
gen_userid == {u \in Users : user[u].status = "none"}

(* Mutant: the name is not looked for. *)
create_userUnchecked(u, n) ==
  /\ Unlocked /\ u \in gen_userid
  /\ user' = [user EXCEPT ![u] = [NoUser EXCEPT !.status = "created", !.name = n]]
  /\ userKV' = [userKV EXCEPT ![u] = user'[u]]
  /\ UNCHANGED <<call, found, count, gone, mishap>>

(* CreateUser: the name is new; the record is stored, then in the map.     *)
(* (An id is a UUID: none is drawn a second time.)                         *)
create_user(u, n) ==
  /\ Unlocked /\ u \in gen_userid /\ u \notin gone
  /\ ~username_exist(n)
  /\ \E ok \in BOOLEAN :
       /\ Writes(ok) /\ Counted(ok)
       /\ userKV' = IF ok THEN [userKV EXCEPT ![u] = [NoUser EXCEPT !.status = "created", !.name = n]]
                          ELSE userKV
       /\ user' = IF ok THEN [user EXCEPT ![u] = userKV'[u]] ELSE user
  /\ UNCHANGED <<call, found, gone, mishap>>

-----------------------------------------------------------------------------
(* UpdateUser: something is to change, the user is there and nobody has    *)
(* the new name (the user's own name is refused too).                      *)
update_user(t, u, n) ==
  /\ call[t] = Idle
  /\ user_exist(u) /\ ~username_exist(n)
  /\ call' = [call EXCEPT ![t] = [Idle EXCEPT !.op = "update", !.pc = "set", !.user = u,
                                              !.name = n, !.old = user[u].name]]
  /\ Overlap(t, u, "update")
  /\ UNCHANGED <<user, userKV, found, count, gone>>

SetFields(t) ==
  LET u == call[t].user
  IN  /\ At(t, "set")
      /\ user' = [user EXCEPT ![u].name = IF call[t].name = Keep THEN call[t].old ELSE call[t].name]
      /\ Goto(t, "encode")
      /\ UNCHANGED <<userKV, found, count, gone, mishap>>

(* DeleteUser: the user is in the map, deleted or not. *)
soft_delete_user(t, u) ==
  /\ call[t] = Idle
  /\ user[u].status # "none"
  /\ user' = [user EXCEPT ![u].status = "deleted"]
  /\ call' = [call EXCEPT ![t] = [Idle EXCEPT !.op = "delete", !.pc = "encode", !.user = u]]
  /\ Overlap(t, u, "delete")
  /\ UNCHANGED <<userKV, found, count, gone>>

(* Serializer::Encode reads the whole record, whoever has changed it. *)
Encode(t) ==
  /\ At(t, "encode")
  /\ call' = [call EXCEPT ![t].pc = "put", ![t].val = user[call[t].user]]
  /\ UNCHANGED <<user, userKV, found, count, gone, mishap>>

(* The write: a failed update puts the old fields back; a failed deletion  *)
(* leaves the user deleted in the map.                                     *)
PutUser(t) ==
  LET u == call[t].user
  IN  /\ At(t, "put") /\ Return(t)
      /\ \E ok \in BOOLEAN :
           /\ Writes(ok) /\ Counted(ok)
           /\ userKV' = IF ok THEN [userKV EXCEPT ![u] = call[t].val] ELSE userKV
           /\ user' = IF ok \/ call[t].op = "delete" THEN user
                      ELSE [user EXCEPT ![u].name = call[t].old]
           /\ gone' = IF ok /\ call[t].op = "delete" THEN gone \cup {u} ELSE gone
           /\ mishap' = IF ok \/ call[t].op = "update" THEN mishap
                        ELSE [mishap EXCEPT ![u] = @ \cup {"unstored"}]
      /\ UNCHANGED found

-----------------------------------------------------------------------------
(* The collector: list_deleted_users, and delete_user when the user's      *)
(* blobs are gone (see BlobLifecycle).                                     *)
list_deleted_users ==
  /\ found = {}
  /\ found' = {u \in Users : user[u].status = "deleted"} /\ found' # {}
  /\ UNCHANGED <<user, userKV, call, count, gone, mishap>>

delete_user(u) ==
  /\ Unlocked /\ u \in found /\ found' = found \ {u}
  /\ \E ok \in BOOLEAN :
       /\ Writes(ok) /\ Counted(ok)
       /\ userKV' = IF ok THEN [userKV EXCEPT ![u] = NoUser] ELSE userKV
       /\ user' = IF ok THEN [user EXCEPT ![u] = NoUser] ELSE user
       /\ gone' = IF ok THEN gone \cup {u} ELSE gone
  /\ UNCHANGED <<call, mishap>>

(* The process stops at any step, and recovery_from_store reads the users. *)
recovery_from_store ==
  /\ count.restarts < MaxRestarts
  /\ count' = [count EXCEPT !.restarts = @ + 1]
  /\ user' = userKV
  /\ call' = [t \in Threads |-> Idle] /\ found' = {}
  /\ UNCHANGED <<userKV, gone, mishap>>

-----------------------------------------------------------------------------
(* The requests of ResourceService.  A user is created with a name; an     *)
(* update brings something new, a name or one of the other fields.         *)
CreateUser(u, n)    == n # Keep /\ create_user(u, n)
UpdateUser(t, u, n) == update_user(t, u, n)
DeleteUser(t, u)    == soft_delete_user(t, u)

Next ==
  \/ \E u \in Users, n \in Names \cup {Keep} : CreateUser(u, n)
  \/ \E t \in Threads, u \in Users, n \in Names \cup {Keep} : UpdateUser(t, u, n)
  \/ \E t \in Threads, u \in Users : DeleteUser(t, u)
  \/ \E t \in Threads : SetFields(t) \/ Encode(t) \/ PutUser(t)
  \/ list_deleted_users
  \/ \E u \in Users : delete_user(u)
  \/ recovery_from_store

Spec == Init /\ [][Next]_vars

-----------------------------------------------------------------------------
(* What QueryUser and ListUsers answer: the users that are not deleted. *)
query_user(u) == IF user_exist(u) THEN {ToPbUser(u)} ELSE {}
list_users    == {ToPbUser(u) : u \in {v \in Users : user_exist(v)}}
QueryUser(u)  == query_user(u)
ListUsers     == list_users

TypeOK ==
  /\ user \in [Users -> Record] /\ userKV \in [Users -> Record]
  /\ \A t \in Threads : call[t].pc \in {"none", "set", "encode", "put"}
  /\ found \subseteq Users /\ gone \subseteq Users

(* user.h: a name is "unique in zone and set".  Of the users that          *)
(* ListUsers shows, two have one name only after updates that overlapped,  *)
(* or after a deletion that RocksDB refused and a restart undid.           *)
NamesUnique ==
  \A a, b \in ListUsers :
    a.id # b.id /\ a.name = b.name => mishap[a.id] \cup mishap[b.id] # {}

(* A user whose deletion DeleteUser has answered OK is never shown again,  *)
(* by no restart either, unless another change of it was under way.        *)
DeletionHolds == \A u \in gone : QueryUser(u) # {} => "overlap" \in mishap[u]

(* What UserManager shows of a user is what RocksDB would give back, when  *)
(* no call is under way and none has overlapped or failed to delete: a     *)
(* refused update leaves no trace.                                         *)
AnswersStored ==
  \A u \in Users :
    Unlocked /\ mishap[u] = {} =>
      user[u] = userKV[u]

(* All of it: what clients were told of users stays true. *)
UsersAsTold == TypeOK /\ NamesUnique /\ DeletionHolds /\ AnswersStored
=============================================================================
