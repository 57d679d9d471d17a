--------------------------- MODULE CatalogProofs ----------------------------
(***************************************************************************)
(* Proofs about what clients are told, and by whom: UserManager, for any   *)
(* users, names and threads and any number of failed writes and restarts;  *)
(* Catalog, for any pools, blobs, users and workers; and Access, for any   *)
(* sets, addresses, users and workers.                                     *)
(***************************************************************************)
EXTENDS UserManager, Catalog, Access, TLAPS

(* The users. *)
AnyName == Names \cup {Keep}
Marks == {"overlap", "names", "unstored"}

(* A user that is in the map or the store has a name.                      *)
Named == {r \in Record : r.status # "none" => r.name \in Names}

Updates == [op : {"update"}, pc : {"set", "encode", "put"}, user : Users,
            name : AnyName, old : Names, val : Named]
Deletes == [op : {"delete"}, pc : {"encode", "put"}, user : Users,
            name : AnyName, old : AnyName, val : Named]
Calls   == {Idle} \cup Updates \cup Deletes

Typed ==
  /\ user \in [Users -> Named] /\ userKV \in [Users -> Named]
  /\ call \in [Threads -> Calls]
  /\ found \subseteq Users /\ gone \subseteq Users
  /\ mishap \in [Users -> SUBSET Marks]

(* The call t is on user u.                                                *)
On(t, u) == call[t].op # "none" /\ call[t].user = u

Alone(u) == "overlap" \notin mishap[u]
Clean(u) == mishap[u] = {}

(* Calls on one user overlap only if the user is marked.                   *)
OneCall(u) == Alone(u) => \A s, t \in Threads : On(s, u) /\ On(t, u) => s = t

(* The name an update leaves its user with.                                *)
NewName(c) == IF c.name = Keep THEN c.old ELSE c.name

(* What the only call on a user has done to its record, and what it is     *)
(* about to write.                                                         *)
Done(c, r) ==
  /\ c.op = "update" => /\ r.status = "created"
                        /\ c.pc = "set" => r.name = c.old
                        /\ c.pc # "set" => r.name = NewName(c)
  /\ c.op = "delete" => r.status = "deleted"
  /\ c.pc = "put" => c.val = r
CallsOK(u) == Alone(u) => \A t \in Threads : On(t, u) => Done(call[t], user[u])

(* How the store differs from the map while a call is under way, and that  *)
(* it does not otherwise.                                                  *)
Behind(c, r, kv) ==
  /\ c.op = "update" => kv.status = "created" /\ kv.name = c.old
  /\ c.op = "delete" => kv.status # "none" /\ kv.name = r.name
StoredOK(u) ==
  Clean(u) =>
    /\ (\A t \in Threads : ~On(t, u)) => user[u] = userKV[u]
    /\ \A t \in Threads : On(t, u) => Behind(call[t], user[u], userKV[u])

GoneOK(u) == u \in gone /\ Alone(u) => user[u].status # "created" /\ userKV[u].status # "created"

UserOK(u) == OneCall(u) /\ CallsOK(u) /\ StoredOK(u) /\ GoneOK(u)

(* The names that a user has, is getting or would have after a restart.    *)
(* No two users that nothing happened to claim one name.                   *)
Claimed(u, n) ==
  \/ user[u].status = "created" /\ user[u].name = n
  \/ userKV[u].status = "created" /\ userKV[u].name = n
  \/ \E t \in Threads : On(t, u) /\ call[t].op = "update" /\ call[t].name = n
NamesOK ==
  \A u, w \in Users, n \in Names :
    u # w /\ Clean(u) /\ Clean(w) => ~(Claimed(u, n) /\ Claimed(w, n))

Inv == Typed /\ (\A u \in Users : UserOK(u)) /\ NamesOK

-----------------------------------------------------------------------------
(* The parts of a call's record.                                           *)
LEMMA CallFacts ==
  ASSUME NEW c \in Calls
  PROVE  /\ c.op \in {"none", "update", "delete"}
         /\ c.op = "none" => c = Idle /\ c.pc = "none"
         /\ c.op = "update" => c \in Updates /\ c.old \in Names /\ c.pc \in {"set", "encode", "put"}
         /\ c.op = "delete" => c \in Deletes /\ c.pc \in {"encode", "put"}
         /\ c.op # "none" => c.user \in Users /\ c.val \in Named /\ c.name \in AnyName
BY DEF Calls, Updates, Deletes, Idle

(* No user, and no call.                                                   *)
LEMMA Nothing ==
  /\ NoUser \in Named /\ NoUser.status = "none" /\ NoUser.name = Keep
  /\ Idle \in Calls /\ Idle.op = "none" /\ Idle.pc = "none"
<1>1. NoUser \in Named /\ NoUser.status = "none" /\ NoUser.name = Keep
  BY DEF NoUser, Named, Record
<1>2. Idle \in Calls /\ Idle.op = "none" /\ Idle.pc = "none"
  BY DEF Idle, Calls
<1> QED
  BY <1>1, <1>2

(* The parts of a user's record, and what becomes of it.                   *)
LEMMA NamedFacts ==
  ASSUME NEW r \in Named
  PROVE  /\ r.status \in {"none", "created", "deleted"}
         /\ r.status # "none" => r.name \in Names
         /\ \A n \in Names : /\ [r EXCEPT !.name = n] \in Named
                             /\ [r EXCEPT !.name = n].status = r.status
                             /\ [r EXCEPT !.name = n].name = n
         /\ r.status # "none" => [r EXCEPT !.status = "deleted"] \in Named
         /\ [r EXCEPT !.status = "deleted"].status = "deleted"
         /\ [r EXCEPT !.status = "deleted"].name = r.name
BY DEF Named, Record

(* A thread takes up the record c.                                         *)
LEMMA CallTyped ==
  ASSUME Typed, NEW t \in Threads, NEW c \in Calls, call' = [call EXCEPT ![t] = c]
  PROVE  /\ call' \in [Threads -> Calls] /\ call'[t] = c
         /\ \A s \in Threads : s # t => call'[s] = call[s]
BY DEF Typed

-----------------------------------------------------------------------------
(* A step on one user leaves what is known of the others.                  *)
OnlyOn(u) ==
  /\ \A w \in Users : w # u => user'[w] = user[w] /\ userKV'[w] = userKV[w]
  /\ \A s \in Threads : \/ call'[s] = call[s]
                        \/ (call[s].op = "none" \/ call[s].user = u) /\ (call'[s].op = "none" \/ call'[s].user = u)
  /\ \A w \in Users : mishap[w] \subseteq mishap'[w]
  /\ gone' \subseteq gone \cup {u}

LEMMA OthersKeep ==
  ASSUME NEW u \in Users, OnlyOn(u), NEW w \in Users, w # u
  PROVE  /\ Alone(w)' => Alone(w)
         /\ Clean(w)' => Clean(w)
         /\ UserOK(w) => UserOK(w)'
         /\ \A n \in Names : Claimed(w, n)' => Claimed(w, n)
<1>1. (Alone(w)' => Alone(w)) /\ (Clean(w)' => Clean(w))
  BY DEF OnlyOn, Alone, Clean
<1>2. user'[w] = user[w] /\ userKV'[w] = userKV[w] /\ (w \in gone' => w \in gone)
  BY DEF OnlyOn
<1>3. ASSUME NEW s \in Threads
      PROVE  (On(s, w)' <=> On(s, w)) /\ (On(s, w) => call'[s] = call[s])
  BY DEF OnlyOn, On
<1>4. ASSUME UserOK(w)
      PROVE  UserOK(w)'
  <2>1. OneCall(w)'
    BY <1>1, <1>3, <1>4 DEF UserOK, OneCall
  <2>2. CallsOK(w)'
    BY <1>1, <1>2, <1>3, <1>4 DEF UserOK, CallsOK, Done, NewName
  <2>3. StoredOK(w)'
    BY <1>1, <1>2, <1>3, <1>4 DEF UserOK, StoredOK, Behind
  <2>4. GoneOK(w)'
    BY <1>1, <1>2, <1>4 DEF UserOK, GoneOK
  <2> QED
    BY <2>1, <2>2, <2>3, <2>4 DEF UserOK
<1>5. ASSUME NEW n \in Names, Claimed(w, n)'
      PROVE  Claimed(w, n)
  <2>1. CASE \E t \in Threads : On(t, w)' /\ call'[t].op = "update" /\ call'[t].name = n
    BY <1>3, <2>1 DEF Claimed
  <2>2. CASE ~ \E t \in Threads : On(t, w)' /\ call'[t].op = "update" /\ call'[t].name = n
    BY <1>2, <1>5, <2>2 DEF Claimed
  <2> QED
    BY <2>1, <2>2
<1> QED
  BY <1>1, <1>4, <1>5

(* So only the user itself is left to look at; a step that claims no name  *)
(* cannot give two users one.                                              *)
LEMMA OneKeeps ==
  ASSUME Inv, NEW u \in Users, OnlyOn(u), Typed', UserOK(u)',
         \A n \in Names : Clean(u)' /\ Claimed(u, n)' => Claimed(u, n)
  PROVE  Inv'
<1>1. \A w \in Users : UserOK(w)'
  BY OthersKeep DEF Inv
<1>2. Clean(u)' => Clean(u)
  BY DEF OnlyOn, Clean
<1>3. ASSUME NEW w \in Users, NEW n \in Names, Clean(w)', Claimed(w, n)'
      PROVE  Clean(w) /\ Claimed(w, n)
  <2>1. CASE w = u
    BY <1>2, <1>3, <2>1
  <2>2. CASE w # u
    BY <1>3, <2>2, OthersKeep
  <2> QED
    BY <2>1, <2>2
<1>4. NamesOK'
  <2> SUFFICES ASSUME NEW v \in Users, NEW w \in Users, NEW n \in Names, v # w,
                      Clean(v)', Clean(w)', Claimed(v, n)', Claimed(w, n)'
               PROVE  FALSE
    BY DEF NamesOK
  <2>1. Clean(v) /\ Clean(w) /\ Claimed(v, n) /\ Claimed(w, n)
    BY <1>3
  <2> QED
    BY <2>1 DEF Inv, NamesOK
<1> QED
  BY <1>1, <1>4 DEF Inv

-----------------------------------------------------------------------------
(* The threads while no call is under way.                                 *)
LEMMA UnlockedFacts ==
  ASSUME Unlocked
  PROVE  /\ \A t \in Threads : call[t].op = "none"
         /\ \A t \in Threads, u \in Users : ~On(t, u)
BY Nothing DEF Unlocked, On

(* create_user: a new user, whose name nobody who is shown has.            *)
LEMMA CreateKeeps ==
  ASSUME Inv, NEW u \in Users, NEW n \in AnyName, CreateUser(u, n)
  PROVE  Inv'
<1>1. PICK ok \in BOOLEAN :
        /\ userKV' = IF ok THEN [userKV EXCEPT ![u] = [NoUser EXCEPT !.status = "created", !.name = n]]
                           ELSE userKV
        /\ user' = IF ok THEN [user EXCEPT ![u] = userKV'[u]] ELSE user
  BY DEF CreateUser, create_user
<1>2. /\ Unlocked /\ u \notin gone /\ user[u].status = "none" /\ ~username_exist(n) /\ n \in Names
      /\ UNCHANGED <<call, found, gone, mishap>>
  BY DEF CreateUser, create_user, gen_userid, AnyName
<1>3. CASE ~ok
  <2>1. user' = user /\ userKV' = userKV
    BY <1>1, <1>3
  <2> QED
    BY <1>2, <2>1 DEF Inv, Typed, UserOK, OneCall, CallsOK, StoredOK, GoneOK, NamesOK, Claimed, On, Alone, Clean
<1>4. CASE ok
  <2>1. PICK r : r = [NoUser EXCEPT !.status = "created", !.name = n]
    OBVIOUS
  <2>2. r \in Named /\ r.status = "created" /\ r.name = n
    BY <1>2, <2>1 DEF NoUser, Named, Record
  <2>3. userKV' = [userKV EXCEPT ![u] = r] /\ user' = [user EXCEPT ![u] = r]
    BY <1>1, <1>4, <2>1 DEF Inv, Typed
  <2>4. /\ user' \in [Users -> Named] /\ userKV' \in [Users -> Named] /\ user'[u] = r /\ userKV'[u] = r
        /\ \A w \in Users : w # u => user'[w] = user[w] /\ userKV'[w] = userKV[w]
    BY <2>2, <2>3 DEF Inv, Typed
  <2>5. Typed'
    BY <1>2, <2>4 DEF Inv, Typed
  <2>6. OnlyOn(u)
    BY <1>2, <2>4 DEF OnlyOn
  <2>7. \A t \in Threads, w \in Users : ~On(t, w)'
    BY <1>2, UnlockedFacts DEF On
  <2>8. UserOK(u)'
    BY <1>2, <2>4, <2>7 DEF UserOK, OneCall, CallsOK, StoredOK, GoneOK
  <2>9. \A w \in Users : UserOK(w)'
    BY <2>6, <2>8, OthersKeep DEF Inv
  <2>10. ASSUME NEW w \in Users, w # u, Clean(w)
         PROVE  ~Claimed(w, n)'
    <3>1. user[w] = userKV[w] /\ ~(user[w].status = "created" /\ user[w].name = n)
      BY <1>2, <2>10, UnlockedFacts DEF Inv, UserOK, StoredOK, username_exist
    <3> QED
      BY <2>4, <2>7, <2>10, <3>1 DEF Claimed
  <2>11. \A m \in Names : Claimed(u, m)' => m = n
    BY <2>2, <2>4, <2>7 DEF Claimed
  <2>12. NamesOK'
    <3> SUFFICES ASSUME NEW v \in Users, NEW w \in Users, NEW m \in Names, v # w,
                        Clean(v)', Clean(w)', Claimed(v, m)', Claimed(w, m)'
                 PROVE  FALSE
      BY DEF NamesOK
    <3>1. Clean(v) /\ Clean(w)
      BY <1>2 DEF Clean
    <3>2. CASE v = u
      BY <2>10, <2>11, <3>1, <3>2
    <3>3. CASE w = u
      BY <2>10, <2>11, <3>1, <3>3
    <3>4. CASE v # u /\ w # u
      BY <2>6, <3>1, <3>4, OthersKeep DEF Inv, NamesOK
    <3> QED
      BY <3>2, <3>3, <3>4
  <2> QED
    BY <2>5, <2>9, <2>12 DEF Inv
<1> QED
  BY <1>3, <1>4

(* delete_user: the collector takes a user out of the store and the map.   *)
LEMMA CollectKeeps ==
  ASSUME Inv, NEW u \in Users, delete_user(u)
  PROVE  Inv'
<1>1. PICK ok \in BOOLEAN :
        /\ userKV' = IF ok THEN [userKV EXCEPT ![u] = NoUser] ELSE userKV
        /\ user' = IF ok THEN [user EXCEPT ![u] = NoUser] ELSE user
        /\ gone' = IF ok THEN gone \cup {u} ELSE gone
  BY DEF delete_user
<1>2. Unlocked /\ found' \subseteq found /\ UNCHANGED <<call, mishap>>
  BY DEF delete_user
<1>3. CASE ~ok
  <2>1. user' = user /\ userKV' = userKV /\ gone' = gone
    BY <1>1, <1>3
  <2> QED
    BY <1>2, <2>1 DEF Inv, Typed, UserOK, OneCall, CallsOK, StoredOK, GoneOK, NamesOK, Claimed, On, Alone, Clean
<1>4. CASE ok
  <2>1. userKV' = [userKV EXCEPT ![u] = NoUser] /\ user' = [user EXCEPT ![u] = NoUser] /\ gone' = gone \cup {u}
    BY <1>1, <1>4
  <2>2. /\ user' \in [Users -> Named] /\ userKV' \in [Users -> Named] /\ user'[u] = NoUser /\ userKV'[u] = NoUser
        /\ \A w \in Users : w # u => user'[w] = user[w] /\ userKV'[w] = userKV[w]
    BY <2>1, Nothing DEF Inv, Typed
  <2>3. Typed'
    BY <1>2, <2>1, <2>2 DEF Inv, Typed
  <2>4. OnlyOn(u)
    BY <1>2, <2>1, <2>2 DEF OnlyOn
  <2>5. \A t \in Threads, w \in Users : ~On(t, w)'
    BY <1>2, UnlockedFacts DEF On
  <2>6. UserOK(u)'
    BY <1>2, <2>2, <2>5, Nothing DEF UserOK, OneCall, CallsOK, StoredOK, GoneOK
  <2>7. \A m \in Names : ~Claimed(u, m)'
    BY <2>2, <2>5, Nothing DEF Claimed
  <2> QED
    BY <2>3, <2>4, <2>6, <2>7, OneKeeps
<1> QED
  BY <1>3, <1>4

(* A restart shows what the store has.                                     *)
LEMMA RestartKeeps ==
  ASSUME Inv, recovery_from_store
  PROVE  Inv'
<1>1. /\ user' = userKV /\ call' = [t \in Threads |-> Idle] /\ found' = {}
      /\ UNCHANGED <<userKV, gone, mishap>>
  BY DEF recovery_from_store
<1>2. call' \in [Threads -> Calls] /\ \A t \in Threads, u \in Users : ~On(t, u)'
  BY <1>1, Nothing DEF On
<1>3. Typed'
  BY <1>1, <1>2 DEF Inv, Typed
<1>4. ASSUME NEW u \in Users
      PROVE  UserOK(u)'
  BY <1>1, <1>2 DEF Inv, UserOK, OneCall, CallsOK, StoredOK, GoneOK, Alone
<1>5. \A u \in Users, n \in Names : Claimed(u, n)' => Claimed(u, n)
  BY <1>1, <1>2 DEF Claimed
<1>6. NamesOK'
  BY <1>1, <1>5 DEF Inv, NamesOK, Clean
<1> QED
  BY <1>3, <1>4, <1>6 DEF Inv

-----------------------------------------------------------------------------
(* Whom the start of a call on u marks.                                    *)
LEMMA OverlapFacts ==
  ASSUME Typed, NEW t \in Threads, NEW u \in Users, NEW op, Overlap(t, u, op)
  PROVE  /\ mishap' \in [Users -> SUBSET Marks]
         /\ \A w \in Users : mishap[w] \subseteq mishap'[w]
         /\ Alone(u)' => \A s \in Threads : s # t => ~On(s, u)
         /\ op = "update" => \A w \in Users : Clean(w)' => \A s \in Threads : s # t => ~On(s, w)
<1>1. PICK others : others = {call[v] : v \in {v \in Threads \ {t} : call[v].op # "none"}}
  OBVIOUS
<1>2. PICK same : same = IF \E c \in others : c.user = u THEN {u} ELSE {}
  OBVIOUS
<1>3. PICK names : names = IF op = "update" THEN {c.user : c \in others} ELSE {}
  OBVIOUS
<1>4. mishap' = [v \in Users |-> mishap[v] \cup (IF v \in same THEN {"overlap"} ELSE {})
                                          \cup (IF v \in names THEN {"names"} ELSE {})]
  BY <1>1, <1>2, <1>3 DEF Overlap
<1>5. \A v \in Users : mishap'[v] = mishap[v] \cup (IF v \in same THEN {"overlap"} ELSE {})
                                          \cup (IF v \in names THEN {"names"} ELSE {})
  BY <1>4
<1>6. mishap' \in [Users -> SUBSET Marks]
  BY <1>4 DEF Typed, Marks
<1>7. \A w \in Users : mishap[w] \subseteq mishap'[w]
  BY <1>5
<1>8. ASSUME NEW s \in Threads, s # t, On(s, u)
      PROVE  ~Alone(u)'
  <2>1. call[s] \in others /\ call[s].user = u
    BY <1>1, <1>8 DEF On
  <2>2. u \in same
    BY <1>2, <2>1
  <2> QED
    BY <1>5, <2>2 DEF Alone
<1>9. ASSUME op = "update", NEW w \in Users, NEW s \in Threads, s # t, On(s, w)
      PROVE  ~Clean(w)'
  <2>1. call[s] \in others /\ call[s].user = w
    BY <1>1, <1>9 DEF On
  <2>2. w \in names
    BY <1>3, <1>9, <2>1
  <2> QED
    BY <1>5, <2>2 DEF Clean
<1> QED
  BY <1>6, <1>7, <1>8, <1>9

(* What holds of a user once a call c on it is the only one.               *)
LEMMA OnlyCall ==
  ASSUME NEW u \in Users, NEW t \in Threads,
         Alone(u)' => \A s \in Threads : s # t => ~On(s, u)',
         On(t, u)',
         Alone(u)' => Done(call'[t], user'[u]),
         Clean(u)' => Behind(call'[t], user'[u], userKV'[u]),
         GoneOK(u)'
  PROVE  UserOK(u)'
<1>1. Clean(u)' => Alone(u)'
  BY DEF Clean, Alone
<1>2. OneCall(u)'
  BY DEF OneCall
<1>3. CallsOK(u)'
  <2> SUFFICES ASSUME Alone(u)', NEW s \in Threads, On(s, u)'
               PROVE  Done(call'[s], user'[u])
    BY DEF CallsOK, Done, NewName
  <2> s = t
    OBVIOUS
  <2> QED
    OBVIOUS
<1>4. StoredOK(u)'
  <2> SUFFICES ASSUME Clean(u)', NEW s \in Threads, On(s, u)'
               PROVE  Behind(call'[s], user'[u], userKV'[u])
    BY DEF StoredOK, Behind
  <2> s = t
    BY <1>1
  <2> QED
    OBVIOUS
<1> QED
  BY <1>2, <1>3, <1>4 DEF UserOK

(* update_user begins: the name is nobody's, and whoever is changing one   *)
(* meanwhile is marked.                                                    *)
LEMMA UpdateKeeps ==
  ASSUME Inv, NEW t \in Threads, NEW u \in Users, NEW n \in AnyName, update_user(t, u, n)
  PROVE  Inv'
<1>1. PICK c : c = [Idle EXCEPT !.op = "update", !.pc = "set", !.user = u, !.name = n, !.old = user[u].name]
  OBVIOUS
<1>2. /\ call[t].op = "none" /\ user[u].status = "created" /\ ~username_exist(n)
      /\ call' = [call EXCEPT ![t] = c] /\ Overlap(t, u, "update")
      /\ UNCHANGED <<user, userKV, found, count, gone>>
  BY <1>1, Nothing DEF update_user, user_exist
<1>3. user[u] \in Named /\ userKV[u] \in Named /\ user[u].name \in Names
  BY <1>2, NamedFacts DEF Inv, Typed
<1>4. /\ c \in Calls /\ c.op = "update" /\ c.pc = "set" /\ c.user = u /\ c.name = n /\ c.old = user[u].name
  BY <1>1, <1>3, Nothing DEF Calls, Updates, Idle
<1>5. /\ call' \in [Threads -> Calls] /\ call'[t] = c
      /\ \A s \in Threads : s # t => call'[s] = call[s]
  BY <1>2, <1>4, CallTyped DEF Inv
<1>6. /\ mishap' \in [Users -> SUBSET Marks]
      /\ \A w \in Users : mishap[w] \subseteq mishap'[w]
      /\ Alone(u)' => \A s \in Threads : s # t => ~On(s, u)
      /\ \A w \in Users : Clean(w)' => \A s \in Threads : s # t => ~On(s, w)
  BY <1>2, OverlapFacts DEF Inv
<1>7. Typed'
  BY <1>2, <1>5, <1>6 DEF Inv, Typed
<1>8. OnlyOn(u)
  BY <1>2, <1>4, <1>5, <1>6 DEF OnlyOn
<1>9. \A s \in Threads, w \in Users : s # t => (On(s, w)' <=> On(s, w))
  BY <1>5 DEF On
<1>10. On(t, u)' /\ \A w \in Users : w # u => ~On(t, w)'
  BY <1>4, <1>5 DEF On
<1>11. \A w \in Users : ~On(t, w)
  BY <1>2 DEF On
<1>12. (Clean(u)' => Clean(u)) /\ (Alone(u)' => Alone(u))
  BY <1>6 DEF Clean, Alone
<1>13. Clean(u)' => user[u] = userKV[u]
  BY <1>6, <1>11, <1>12 DEF Inv, UserOK, StoredOK
<1>14. UserOK(u)'
  <2>1. Done(call'[t], user'[u])
    BY <1>2, <1>4, <1>5 DEF Done
  <2>2. Clean(u)' => Behind(call'[t], user'[u], userKV'[u])
    BY <1>2, <1>4, <1>5, <1>13 DEF Behind
  <2>3. GoneOK(u)'
    BY <1>2, <1>12 DEF Inv, UserOK, GoneOK
  <2>4. Alone(u)' => \A s \in Threads : s # t => ~On(s, u)'
    BY <1>6, <1>9
  <2> QED
    BY <1>10, <2>1, <2>2, <2>3, <2>4, OnlyCall
<1>15. \A w \in Users : UserOK(w)'
  BY <1>8, <1>14, OthersKeep DEF Inv
<1>16. ASSUME NEW w \in Users, w # u, Clean(w)'
       PROVE  Clean(w) /\ ~Claimed(w, n)'
  <2>1. Clean(w)
    BY <1>6, <1>16 DEF Clean
  <2>2. \A s \in Threads : ~On(s, w) /\ ~On(s, w)'
    BY <1>6, <1>9, <1>10, <1>11, <1>16
  <2>3. user[w] = userKV[w] /\ ~(user[w].status = "created" /\ user[w].name = n)
    BY <1>2, <2>1, <2>2 DEF Inv, UserOK, StoredOK, username_exist
  <2> QED
    BY <1>2, <2>1, <2>2, <2>3 DEF Claimed
<1>17. ASSUME NEW m \in Names, Clean(u)', Claimed(u, m)'
       PROVE  Clean(u) /\ (m = n \/ Claimed(u, m))
  <2>1. CASE \E s \in Threads : On(s, u)' /\ call'[s].op = "update" /\ call'[s].name = m
    <3>1. PICK s \in Threads : On(s, u)' /\ call'[s].name = m
      BY <2>1
    <3>2. s = t
      BY <1>6, <1>9, <1>17, <3>1
    <3> QED
      BY <1>4, <1>5, <1>12, <1>17, <3>1, <3>2
  <2>2. CASE ~ \E s \in Threads : On(s, u)' /\ call'[s].op = "update" /\ call'[s].name = m
    BY <1>2, <1>12, <1>17, <2>2 DEF Claimed
  <2> QED
    BY <2>1, <2>2
<1>18. NamesOK'
  <2>1. ASSUME NEW w \in Users, NEW m \in Names, w # u, Clean(u)', Clean(w)', Claimed(u, m)', Claimed(w, m)'
        PROVE  FALSE
    <3>1. Clean(u) /\ Clean(w) /\ Claimed(w, m) /\ m # n
      BY <1>8, <1>16, <1>17, <2>1, OthersKeep
    <3>2. Claimed(u, m)
      BY <1>17, <2>1, <3>1
    <3> QED
      BY <2>1, <3>1, <3>2 DEF Inv, NamesOK
  <2> SUFFICES ASSUME NEW v \in Users, NEW w \in Users, NEW m \in Names, v # w,
                      Clean(v)', Clean(w)', Claimed(v, m)', Claimed(w, m)'
               PROVE  FALSE
    BY DEF NamesOK
  <2>2. CASE v = u
    BY <2>1, <2>2
  <2>3. CASE w = u
    BY <2>1, <2>3
  <2>4. CASE v # u /\ w # u
    <3>1. Clean(v) /\ Clean(w) /\ Claimed(v, m) /\ Claimed(w, m)
      BY <1>8, <2>4, OthersKeep
    <3> QED
      BY <3>1 DEF Inv, NamesOK
  <2> QED
    BY <2>2, <2>3, <2>4
<1> QED
  BY <1>7, <1>15, <1>18 DEF Inv

(* A call that is at one of its steps.                                     *)
LEMMA AtFacts ==
  ASSUME Inv, NEW t \in Threads, call[t].pc # "none"
  PROVE  /\ call[t] \in Calls /\ call[t].op \in {"update", "delete"} /\ call[t].user \in Users
         /\ call[t].val \in Named
         /\ On(t, call[t].user)
         /\ Alone(call[t].user) => Done(call[t], user[call[t].user])
         /\ Alone(call[t].user) => \A s \in Threads : s # t => ~On(s, call[t].user)
         /\ Clean(call[t].user) => Behind(call[t], user[call[t].user], userKV[call[t].user])
<1>1. /\ call[t] \in Calls /\ call[t].op \in {"update", "delete"} /\ call[t].user \in Users
      /\ call[t].val \in Named
  BY CallFacts DEF Inv, Typed
<1>2. On(t, call[t].user)
  BY <1>1 DEF On
<1> QED
  BY <1>1, <1>2 DEF Inv, UserOK, OneCall, CallsOK, StoredOK

(* update_user changes the record in the map.                              *)
LEMMA SetKeeps ==
  ASSUME Inv, NEW t \in Threads, SetFields(t)
  PROVE  Inv'
<1>1. PICK u \in Users, c \in Calls : u = call[t].user /\ c = call[t] /\ c.pc = "set"
  BY AtFacts DEF SetFields, At
<1>2. /\ c.op = "update" /\ c \in Updates /\ c.old \in Names /\ c.user = u /\ c.name \in AnyName
  BY <1>1, CallFacts
<1>3. PICK n \in Names : n = NewName(c)
  BY <1>2 DEF NewName, AnyName
<1>4. PICK d : d = [c EXCEPT !.pc = "encode"]
  OBVIOUS
<1>5. /\ d \in Calls /\ d.op = "update" /\ d.pc = "encode" /\ d.user = u /\ d.name = c.name /\ d.old = c.old
  BY <1>2, <1>4 DEF Calls, Updates
<1>6. PICK r : r = [user[u] EXCEPT !.name = n]
  OBVIOUS
<1>7. /\ call' = [call EXCEPT ![t] = d] /\ user' = [user EXCEPT ![u] = r]
      /\ UNCHANGED <<userKV, found, count, gone, mishap>>
  BY <1>1, <1>3, <1>4, <1>6 DEF SetFields, Goto, NewName, Inv, Typed
<1>8. r \in Named /\ r.status = user[u].status /\ r.name = n
  BY <1>6, NamedFacts DEF Inv, Typed
<1>9. /\ user' \in [Users -> Named] /\ user'[u] = r /\ \A w \in Users : w # u => user'[w] = user[w]
  BY <1>7, <1>8 DEF Inv, Typed
<1>10. /\ call' \in [Threads -> Calls] /\ call'[t] = d
       /\ \A s \in Threads : s # t => call'[s] = call[s]
  BY <1>5, <1>7, CallTyped DEF Inv
<1>11. Typed'
  BY <1>7, <1>9, <1>10 DEF Inv, Typed
<1>12. OnlyOn(u)
  BY <1>1, <1>2, <1>5, <1>7, <1>9, <1>10 DEF OnlyOn
<1>13. (Alone(u)' <=> Alone(u)) /\ (Clean(u)' <=> Clean(u)) /\ (Clean(u) => Alone(u))
  BY <1>7 DEF Alone, Clean
<1>14. /\ Alone(u) => Done(c, user[u]) /\ \A s \in Threads : s # t => ~On(s, u)
       /\ Clean(u) => Behind(c, user[u], userKV[u])
  BY <1>1, AtFacts
<1>15. On(t, u)' /\ \A s \in Threads : s # t => (On(s, u)' <=> On(s, u))
  BY <1>5, <1>10 DEF On
<1>16. UserOK(u)'
  <2>1. Alone(u)' => Done(call'[t], user'[u])
    BY <1>2, <1>3, <1>5, <1>8, <1>9, <1>10, <1>13, <1>14 DEF Done, NewName
  <2>2. Clean(u)' => Behind(call'[t], user'[u], userKV'[u])
    BY <1>2, <1>5, <1>7, <1>10, <1>13, <1>14 DEF Behind
  <2>3. GoneOK(u)'
    BY <1>7, <1>8, <1>9, <1>13 DEF Inv, UserOK, GoneOK
  <2>4. Alone(u)' => \A s \in Threads : s # t => ~On(s, u)'
    BY <1>13, <1>14, <1>15
  <2> QED
    BY <1>15, <2>1, <2>2, <2>3, <2>4, OnlyCall
<1>17. ASSUME NEW m \in Names, Clean(u)', Claimed(u, m)'
       PROVE  Claimed(u, m)
  <2>1. CASE user'[u].status = "created" /\ user'[u].name = m
    <3>1. r.status = "created" /\ n = m
      BY <1>8, <1>9, <2>1
    <3>2. CASE c.name = Keep
      <4>1. user[u].status = "created" /\ user[u].name = m
        BY <1>1, <1>2, <1>3, <1>8, <1>13, <1>14, <1>17, <3>1, <3>2 DEF NewName, Done
      <4> QED
        BY <4>1 DEF Claimed
    <3>3. CASE c.name # Keep
      <4>1. c.name = m /\ On(t, u)
        BY <1>1, <1>2, <1>3, <3>1, <3>3 DEF NewName, On
      <4> QED
        BY <1>1, <1>2, <4>1 DEF Claimed
    <3> QED
      BY <3>2, <3>3
  <2>2. CASE userKV'[u].status = "created" /\ userKV'[u].name = m
    BY <1>7, <2>2 DEF Claimed
  <2>3. ASSUME NEW s \in Threads, On(s, u)', call'[s].op = "update", call'[s].name = m
        PROVE  Claimed(u, m)
    <3>1. CASE s = t
      <4>1. c.name = m /\ On(t, u)
        BY <1>1, <1>2, <1>5, <1>10, <2>3, <3>1 DEF On
      <4> QED
        BY <1>1, <1>2, <4>1 DEF Claimed
    <3>2. CASE s # t
      <4>1. On(s, u) /\ call[s] = call'[s]
        BY <1>10, <1>15, <2>3, <3>2
      <4> QED
        BY <2>3, <4>1 DEF Claimed
    <3> QED
      BY <3>1, <3>2
  <2> QED
    BY <1>17, <2>1, <2>2, <2>3 DEF Claimed
<1> QED
  BY <1>11, <1>12, <1>16, <1>17, OneKeeps

(* DeleteUser: the user is deleted in the map.                             *)
LEMMA DeleteKeeps ==
  ASSUME Inv, NEW t \in Threads, NEW u \in Users, soft_delete_user(t, u)
  PROVE  Inv'
<1>1. PICK d : d = [Idle EXCEPT !.op = "delete", !.pc = "encode", !.user = u]
  OBVIOUS
<1>2. d \in Calls /\ d.op = "delete" /\ d.pc = "encode" /\ d.user = u
  BY <1>1, Nothing DEF Calls, Deletes, Idle, AnyName
<1>3. PICK r : r = [user[u] EXCEPT !.status = "deleted"]
  OBVIOUS
<1>4. /\ call[t].op = "none" /\ user[u].status # "none"
      /\ call' = [call EXCEPT ![t] = d] /\ user' = [user EXCEPT ![u] = r]
      /\ Overlap(t, u, "delete")
      /\ UNCHANGED <<userKV, found, count, gone>>
  BY <1>1, <1>3, Nothing DEF soft_delete_user, Inv, Typed
<1>5. r \in Named /\ r.status = "deleted" /\ r.name = user[u].name
  BY <1>3, <1>4, NamedFacts DEF Inv, Typed
<1>6. /\ user' \in [Users -> Named] /\ user'[u] = r /\ \A w \in Users : w # u => user'[w] = user[w]
  BY <1>4, <1>5 DEF Inv, Typed
<1>7. /\ call' \in [Threads -> Calls] /\ call'[t] = d
      /\ \A s \in Threads : s # t => call'[s] = call[s]
  BY <1>2, <1>4, CallTyped DEF Inv
<1>8. /\ mishap' \in [Users -> SUBSET Marks]
      /\ \A w \in Users : mishap[w] \subseteq mishap'[w]
      /\ Alone(u)' => \A s \in Threads : s # t => ~On(s, u)
  BY <1>4, OverlapFacts DEF Inv
<1>9. Typed'
  BY <1>4, <1>6, <1>7, <1>8 DEF Inv, Typed
<1>10. OnlyOn(u)
  BY <1>2, <1>4, <1>6, <1>7, <1>8 DEF OnlyOn
<1>11. (Alone(u)' => Alone(u)) /\ (Clean(u)' => Clean(u)) /\ (Clean(u)' => Alone(u)')
  BY <1>8 DEF Alone, Clean
<1>12. /\ On(t, u)' /\ ~On(t, u)
       /\ \A s \in Threads : s # t => (On(s, u)' <=> On(s, u)) /\ call'[s] = call[s]
  BY <1>2, <1>4, <1>7 DEF On
<1>13. Clean(u)' => user[u] = userKV[u]
  BY <1>8, <1>11, <1>12 DEF Inv, UserOK, StoredOK
<1>14. UserOK(u)'
  <2>1. Alone(u)' => Done(call'[t], user'[u])
    BY <1>2, <1>5, <1>6, <1>7 DEF Done
  <2>2. Clean(u)' => Behind(call'[t], user'[u], userKV'[u])
    BY <1>2, <1>4, <1>5, <1>6, <1>7, <1>13 DEF Behind
  <2>3. GoneOK(u)'
    BY <1>4, <1>5, <1>6, <1>11 DEF Inv, UserOK, GoneOK
  <2>4. Alone(u)' => \A s \in Threads : s # t => ~On(s, u)'
    BY <1>8, <1>12
  <2> QED
    BY <1>12, <2>1, <2>2, <2>3, <2>4, OnlyCall
<1>15. ASSUME NEW m \in Names, Clean(u)', Claimed(u, m)'
       PROVE  Claimed(u, m)
  <2>1. \A s \in Threads : ~(On(s, u)' /\ call'[s].op = "update")
    BY <1>2, <1>7, <1>8, <1>11, <1>12, <1>15
  <2> QED
    BY <1>4, <1>5, <1>6, <1>15, <2>1 DEF Claimed
<1> QED
  BY <1>9, <1>10, <1>14, <1>15, OneKeeps

(* The record is encoded: what will be written is what the map has now.    *)
LEMMA EncodeKeeps ==
  ASSUME Inv, NEW t \in Threads, Encode(t)
  PROVE  Inv'
<1>1. PICK u \in Users, c \in Calls : u = call[t].user /\ c = call[t] /\ c.pc = "encode" /\ c.user = u
  BY AtFacts DEF Encode, At
<1>2. PICK r \in Named : r = user[u]
  BY DEF Inv, Typed
<1>3. PICK d : d = [c EXCEPT !.pc = "put", !.val = r]
  OBVIOUS
<1>4. /\ d \in Calls /\ d.op = c.op /\ d.op # "none" /\ d.pc = "put" /\ d.user = u /\ d.name = c.name
      /\ d.old = c.old /\ d.val = r
  <2>1. CASE c \in Updates
    BY <1>1, <1>3, <2>1 DEF Calls, Updates
  <2>2. CASE c \in Deletes
    BY <1>1, <1>3, <2>2 DEF Calls, Deletes
  <2> QED
    BY <1>1, <2>1, <2>2, CallFacts
<1>5. call' = [call EXCEPT ![t] = d] /\ UNCHANGED <<user, userKV, found, count, gone, mishap>>
  BY <1>1, <1>2, <1>3 DEF Encode, Inv, Typed
<1>6. /\ call' \in [Threads -> Calls] /\ call'[t] = d
      /\ \A s \in Threads : s # t => call'[s] = call[s]
  BY <1>4, <1>5, CallTyped DEF Inv
<1>7. Typed'
  BY <1>5, <1>6 DEF Inv, Typed
<1>8. OnlyOn(u)
  BY <1>1, <1>4, <1>5, <1>6 DEF OnlyOn
<1>9. (Alone(u)' <=> Alone(u)) /\ (Clean(u)' <=> Clean(u))
  BY <1>5 DEF Alone, Clean
<1>10. /\ Alone(u) => Done(c, user[u]) /\ \A s \in Threads : s # t => ~On(s, u)
       /\ Clean(u) => Behind(c, user[u], userKV[u])
  BY <1>1, AtFacts
<1>11. On(t, u)' /\ On(t, u) /\ \A s \in Threads : s # t => (On(s, u)' <=> On(s, u)) /\ call'[s] = call[s]
  BY <1>1, <1>4, <1>6 DEF On
<1>12. UserOK(u)'
  <2>1. Alone(u)' => Done(call'[t], user'[u])
    BY <1>1, <1>2, <1>4, <1>5, <1>6, <1>9, <1>10 DEF Done, NewName
  <2>2. Clean(u)' => Behind(call'[t], user'[u], userKV'[u])
    BY <1>4, <1>5, <1>6, <1>9, <1>10 DEF Behind
  <2>3. GoneOK(u)'
    BY <1>5, <1>9 DEF Inv, UserOK, GoneOK
  <2>4. Alone(u)' => \A s \in Threads : s # t => ~On(s, u)'
    BY <1>9, <1>10, <1>11
  <2> QED
    BY <1>11, <2>1, <2>2, <2>3, <2>4, OnlyCall
<1>13. ASSUME NEW m \in Names, Claimed(u, m)'
       PROVE  Claimed(u, m)
  <2>1. ASSUME NEW s \in Threads, On(s, u)', call'[s].op = "update", call'[s].name = m
        PROVE  On(s, u) /\ call[s].op = "update" /\ call[s].name = m
    BY <1>1, <1>4, <1>6, <1>11, <2>1
  <2> QED
    BY <1>5, <1>13, <2>1 DEF Claimed
<1> QED
  BY <1>7, <1>8, <1>12, <1>13, OneKeeps

(* What holds of a user when its only call has returned.                   *)
LEMMA CallGone ==
  ASSUME NEW u \in Users,
         Alone(u)' => \A s \in Threads : ~On(s, u)',
         Clean(u)' => user'[u] = userKV'[u],
         GoneOK(u)'
  PROVE  UserOK(u)'
<1>1. Clean(u)' => Alone(u)'
  BY DEF Clean, Alone
<1> QED
  BY <1>1 DEF UserOK, OneCall, CallsOK, StoredOK

(* Two records of a user are equal when their parts are.                   *)
LEMMA SameRecord ==
  ASSUME NEW r \in Named, NEW q \in Named, r.status = q.status, r.name = q.name
  PROVE  r = q
BY DEF Named, Record

(* The write: done, or refused.  A refused update puts the name back; a    *)
(* refused deletion marks the user.                                        *)
LEMMA PutKeeps ==
  ASSUME Inv, NEW t \in Threads, PutUser(t)
  PROVE  Inv'
<1>1. PICK u \in Users, c \in Calls :
        /\ u = call[t].user /\ c = call[t] /\ c.pc = "put" /\ c.user = u /\ c.op \in {"update", "delete"}
        /\ c.val \in Named
  BY AtFacts DEF PutUser, At
<1>2. PICK ok \in BOOLEAN :
        /\ userKV' = IF ok THEN [userKV EXCEPT ![u] = c.val] ELSE userKV
        /\ user' = IF ok \/ c.op = "delete" THEN user ELSE [user EXCEPT ![u].name = c.old]
        /\ gone' = IF ok /\ c.op = "delete" THEN gone \cup {u} ELSE gone
        /\ mishap' = IF ok \/ c.op = "update" THEN mishap ELSE [mishap EXCEPT ![u] = @ \cup {"unstored"}]
  BY <1>1 DEF PutUser
<1>3. call' = [call EXCEPT ![t] = Idle] /\ found' = found
  BY DEF PutUser, Return
<1>4. /\ call' \in [Threads -> Calls] /\ call'[t].op = "none"
      /\ \A s \in Threads : s # t => call'[s] = call[s]
  BY <1>3, Nothing, CallTyped DEF Inv
<1>5. /\ Alone(u) => Done(c, user[u]) /\ \A s \in Threads : s # t => ~On(s, u)
      /\ Clean(u) => Behind(c, user[u], userKV[u])
  BY <1>1, AtFacts
<1>6. ~On(t, u)' /\ \A s \in Threads : s # t => (On(s, u)' <=> On(s, u)) /\ call'[s] = call[s]
  BY <1>4 DEF On
<1>7. user[u] \in Named /\ userKV[u] \in Named /\ user \in [Users -> Named] /\ userKV \in [Users -> Named]
  BY DEF Inv, Typed
<1>8. CASE ok
  <2>1. /\ userKV' = [userKV EXCEPT ![u] = c.val] /\ user' = user /\ mishap' = mishap
        /\ gone' = IF c.op = "delete" THEN gone \cup {u} ELSE gone
    BY <1>2, <1>8
  <2>2. userKV' \in [Users -> Named] /\ userKV'[u] = c.val /\ \A w \in Users : w # u => userKV'[w] = userKV[w]
    BY <1>1, <1>7, <2>1
  <2>3. Typed'
    BY <1>3, <1>4, <2>1, <2>2 DEF Inv, Typed
  <2>4. OnlyOn(u)
    BY <1>1, <1>4, <2>1, <2>2 DEF OnlyOn
  <2>5. (Alone(u)' <=> Alone(u)) /\ (Clean(u)' <=> Clean(u)) /\ (Clean(u) => Alone(u))
    BY <2>1 DEF Alone, Clean
  <2>6. Alone(u)' => userKV'[u] = user'[u]
    BY <1>1, <1>5, <2>1, <2>2, <2>5 DEF Done
  <2>7. Alone(u)' => \A s \in Threads : ~On(s, u)'
    BY <1>5, <1>6, <2>5
  <2>8. GoneOK(u)'
    <3> SUFFICES ASSUME u \in gone', Alone(u)'
                 PROVE  user[u].status # "created"
      BY <2>1, <2>6 DEF GoneOK
    <3>1. CASE c.op = "delete"
      BY <1>5, <2>5, <3>1 DEF Done
    <3>2. CASE c.op # "delete"
      BY <2>1, <2>5, <3>2 DEF Inv, UserOK, GoneOK
    <3> QED
      BY <3>1, <3>2
  <2>9. UserOK(u)'
    BY <2>5, <2>6, <2>7, <2>8, CallGone
  <2>10. ASSUME NEW m \in Names, Clean(u)', Claimed(u, m)'
         PROVE  Claimed(u, m)
    <3>1. \A s \in Threads : ~On(s, u)'
      BY <2>5, <2>7, <2>10
    <3>2. user[u].status = "created" /\ user[u].name = m
      BY <2>1, <2>5, <2>6, <2>10, <3>1 DEF Claimed
    <3> QED
      BY <3>2 DEF Claimed
  <2> QED
    BY <2>3, <2>4, <2>9, <2>10, OneKeeps
<1>9. CASE ~ok /\ c.op = "update"
  <2>1. c.old \in Names
    BY <1>9, CallFacts
  <2>2. PICK r : r = [user[u] EXCEPT !.name = c.old]
    OBVIOUS
  <2>3. r \in Named /\ r.status = user[u].status /\ r.name = c.old
    BY <1>7, <2>1, <2>2, NamedFacts
  <2>4. userKV' = userKV /\ user' = [user EXCEPT ![u] = r] /\ gone' = gone /\ mishap' = mishap
    BY <1>2, <1>7, <1>9, <2>2
  <2>5. user' \in [Users -> Named] /\ user'[u] = r /\ \A w \in Users : w # u => user'[w] = user[w]
    BY <1>7, <2>3, <2>4
  <2>6. Typed'
    BY <1>3, <1>4, <2>4, <2>5 DEF Inv, Typed
  <2>7. OnlyOn(u)
    BY <1>1, <1>4, <2>4, <2>5 DEF OnlyOn
  <2>8. (Alone(u)' <=> Alone(u)) /\ (Clean(u)' <=> Clean(u)) /\ (Clean(u) => Alone(u))
    BY <2>4 DEF Alone, Clean
  <2>9. Clean(u)' => user'[u] = userKV'[u]
    <3> SUFFICES ASSUME Clean(u)
                 PROVE  r = userKV[u]
      BY <2>4, <2>5, <2>8
    <3>1. r.status = "created" /\ userKV[u].status = "created" /\ userKV[u].name = c.old
      BY <1>5, <1>9, <2>3, <2>8 DEF Done, Behind
    <3> QED
      BY <1>7, <2>3, <3>1, SameRecord
  <2>10. Alone(u)' => \A s \in Threads : ~On(s, u)'
    BY <1>5, <1>6, <2>8
  <2>11. GoneOK(u)'
    BY <2>3, <2>4, <2>5, <2>8 DEF Inv, UserOK, GoneOK
  <2>12. UserOK(u)'
    BY <2>9, <2>10, <2>11, CallGone
  <2>13. ASSUME NEW m \in Names, Clean(u)', Claimed(u, m)'
         PROVE  Claimed(u, m)
    <3>1. \A s \in Threads : ~On(s, u)'
      BY <2>8, <2>10, <2>13
    <3>2. userKV[u].status = "created" /\ userKV[u].name = m
      BY <2>4, <2>9, <2>13, <3>1 DEF Claimed
    <3> QED
      BY <3>2 DEF Claimed
  <2> QED
    BY <2>6, <2>7, <2>12, <2>13, OneKeeps
<1>10. CASE ~ok /\ c.op = "delete"
  <2>1. userKV' = userKV /\ user' = user /\ gone' = gone /\ mishap' = [mishap EXCEPT ![u] = @ \cup {"unstored"}]
    BY <1>2, <1>10
  <2>2. /\ mishap' \in [Users -> SUBSET Marks] /\ mishap'[u] = mishap[u] \cup {"unstored"}
        /\ \A w \in Users : mishap[w] \subseteq mishap'[w]
    BY <2>1 DEF Inv, Typed, Marks
  <2>3. Typed'
    BY <1>3, <1>4, <2>1, <2>2 DEF Inv, Typed
  <2>4. OnlyOn(u)
    BY <1>1, <1>4, <2>1, <2>2 DEF OnlyOn
  <2>5. (Alone(u)' => Alone(u)) /\ ~Clean(u)'
    BY <2>2 DEF Alone, Clean
  <2>6. Alone(u)' => \A s \in Threads : ~On(s, u)'
    BY <1>5, <1>6, <2>5
  <2>7. GoneOK(u)'
    BY <2>1, <2>5 DEF Inv, UserOK, GoneOK
  <2>8. UserOK(u)'
    BY <2>5, <2>6, <2>7, CallGone
  <2> QED
    BY <2>3, <2>4, <2>5, <2>8, OneKeeps
<1> QED
  BY <1>1, <1>8, <1>9, <1>10

-----------------------------------------------------------------------------
(* No user and no call at the start.                                       *)
LEMMA InitHolds ==
  ASSUME Init
  PROVE  Inv
<1>1. /\ user \in [Users -> Named] /\ userKV = user /\ \A u \in Users : user[u].status = "none"
      /\ call \in [Threads -> Calls] /\ \A t \in Threads : call[t].op = "none"
      /\ found = {} /\ gone = {} /\ mishap \in [Users -> SUBSET Marks]
  BY Nothing DEF Init
<1>2. \A t \in Threads, u \in Users : ~On(t, u)
  BY <1>1 DEF On
<1>3. Typed
  BY <1>1 DEF Typed
<1>4. \A u \in Users : UserOK(u)
  BY <1>1, <1>2 DEF UserOK, OneCall, CallsOK, StoredOK, GoneOK
<1>5. NamesOK
  BY <1>1, <1>2 DEF NamesOK, Claimed
<1> QED
  BY <1>3, <1>4, <1>5 DEF Inv

(* Every step keeps the invariant.                                         *)
LEMMA NextKeeps ==
  ASSUME Inv, [Next]_vars
  PROVE  Inv'
<1>1. ASSUME UNCHANGED <<user, userKV, call, gone, mishap>>, found' \subseteq Users
      PROVE  Inv'
  BY <1>1 DEF Inv, Typed, UserOK, OneCall, CallsOK, StoredOK, GoneOK, NamesOK, Claimed, On, Alone, Clean
<1>2. CASE UNCHANGED vars
  BY <1>1, <1>2 DEF vars, Inv, Typed
<1>3. CASE list_deleted_users
  BY <1>1, <1>3 DEF list_deleted_users
<1>4. CASE \E u \in Users, n \in Names \cup {Keep} : CreateUser(u, n)
  BY <1>4, CreateKeeps DEF AnyName
<1>5. CASE \E t \in Threads, u \in Users, n \in Names \cup {Keep} : UpdateUser(t, u, n)
  BY <1>5, UpdateKeeps DEF AnyName, UpdateUser
<1>6. CASE \E t \in Threads, u \in Users : DeleteUser(t, u)
  BY <1>6, DeleteKeeps DEF DeleteUser
<1>7. CASE \E t \in Threads : SetFields(t) \/ Encode(t) \/ PutUser(t)
  BY <1>7, SetKeeps, EncodeKeeps, PutKeeps
<1>8. CASE \E u \in Users : delete_user(u)
  BY <1>8, CollectKeeps
<1>9. CASE recovery_from_store
  BY <1>9, RestartKeeps
<1> QED
  BY <1>2, <1>3, <1>4, <1>5, <1>6, <1>7, <1>8, <1>9 DEF Next

-----------------------------------------------------------------------------
(* The inductive invariant holds throughout.                               *)
THEOREM UserInvariance == Spec => []Inv
<1>1. Init => Inv
  BY InitHolds
<1>2. Inv /\ [Next]_vars => Inv'
  BY NextKeeps
<1> QED
  BY <1>1, <1>2, PTL DEF Spec

(* What UserManager tells of its users is right, with any number of calls  *)
(* sharing the lock, failing writes and restarts: two users that ListUsers *)
(* shows have one name only if updates overlapped or a deletion was not    *)
(* stored; a user whose deletion was answered OK is not shown again unless *)
(* another change of it was under way; and between calls a user that       *)
(* nothing happened to is in RocksDB as it is shown.                       *)
THEOREM UsersTold == Spec => []UsersAsTold
<1>1. Inv => UsersAsTold
  <2> SUFFICES ASSUME Inv
               PROVE  UsersAsTold
    OBVIOUS
  <2>1. TypeOK
    <3>1. Named \subseteq Record
      BY DEF Named
    <3>2. \A t \in Threads : call[t].pc \in {"none", "set", "encode", "put"}
      BY CallFacts DEF Inv, Typed
    <3> QED
      BY <3>1, <3>2 DEF Inv, Typed, TypeOK
  <2>2. NamesUnique
    <3> SUFFICES ASSUME NEW a \in ListUsers, NEW b \in ListUsers, a.id # b.id, a.name = b.name,
                        mishap[a.id] \cup mishap[b.id] = {}
                 PROVE  FALSE
      BY DEF NamesUnique
    <3>1. PICK u \in Users : user[u].status = "created" /\ a.id = u /\ a.name = user[u].name
      BY DEF ListUsers, list_users, user_exist, ToPbUser
    <3>2. PICK w \in Users : user[w].status = "created" /\ b.id = w /\ b.name = user[w].name
      BY DEF ListUsers, list_users, user_exist, ToPbUser
    <3>3. user[u].name \in Names
      BY <3>1, NamedFacts DEF Inv, Typed
    <3>4. Clean(u) /\ Clean(w) /\ u # w
      BY <3>1, <3>2 DEF Clean
    <3>5. Claimed(u, user[u].name) /\ Claimed(w, user[u].name)
      BY <3>1, <3>2 DEF Claimed
    <3> QED
      BY <3>3, <3>4, <3>5 DEF Inv, NamesOK
  <2>3. DeletionHolds
    BY DEF Inv, Typed, UserOK, GoneOK, Alone, DeletionHolds, QueryUser, query_user, user_exist
  <2>4. AnswersStored
    BY UnlockedFacts DEF Inv, UserOK, StoredOK, Clean, AnswersStored
  <2> QED
    BY <2>1, <2>2, <2>3, <2>4 DEF UsersAsTold
<1> QED
  BY <1>1, UserInvariance, PTL

-----------------------------------------------------------------------------
(* The catalog.  What pools, blobs and calls look like. *)
PoolRecs == [status : {"none", "created", "enabled", "disabled"},
             type : {"Unknown", "HDD", "SSD", "NVMeSSD"}, pb : PbPoolTypes]

BlobRecs == [status : {"none", "created", "deleted"}, pool : Pools \cup {NoPool}, user : Owners \cup {"none"},
             type : {"Unknown", "General", "Superior", "Excellent"}, pb : PbBlobTypes,
             name : BlobNames \cup {NoName}, retyped : BOOLEAN]

CatalogCalls == [pc : {"none", "pick", "create", "insert", "encode", "put", "list"},
          user : Owners \cup {"none"}, blob : Blobs \cup {"none"},
          name : BlobNames \cup {NoName}, old : BlobNames \cup {NoName}, val : BlobRecs,
          todo : SUBSET Pools, best : Pools \cup {NoPool}, min : Nat \X (Nat \ {0}),
          res : SUBSET Blobs, same : SUBSET Pools, had : SUBSET Blobs, dead : SUBSET Blobs]

CatalogShape ==
  /\ pool \in [Pools -> PoolRecs] /\ used \in [Pools -> Nat]
  /\ blob \in [Blobs -> BlobRecs] /\ blobKV \in [Blobs -> BlobRecs]
  /\ serving \in [Handlers -> CatalogCalls] /\ overlap \subseteq Blobs

(* The type of a pool in the map is the one that was asked for.            *)
PoolFine(p) ==
  /\ used[p] <= Capacity[p]
  /\ pool[p].status # "none" => pool_type_valid(pool[p].pb) /\ pool[p].type = FromPbPoolType(pool[p].pb)

(* A record has the type that was asked for; a pool has the disks for it,  *)
(* unless it was given another type after it was chosen.                   *)
Asked(v) == blobtype_valid(v.pb) /\ v.type = FromPbBlobType(v.pb)
Suits(p, v) == p \in Pools /\ pool[p].status # "none"
               /\ (~ v.retyped => pool[p].type = allocate_pool(v.type))
Placed(v) == Asked(v) /\ Suits(v.pool, v)

(* A blob in the map lies in a pool of its kind, and RocksDB has a record. *)
BlobFine(b) == blob[b].status # "none" => Placed(blob[b]) /\ blobKV[b].status # "none"

(* What a call knows.  In get_pool's loop: of the pools that it has passed *)
(* and that have not changed, none is emptier than the best.  Between      *)
(* store and map: the blob is stored and in no map.  A rename or deletion  *)
(* that is alone on its blob has what the map has, and RocksDB has that    *)
(* with the old name.  A listing lacks only what lies in pools to come.    *)
PickFine(c) ==
  /\ Asked(c.val) /\ (c.best # NoPool => Suits(c.best, c.val))
  /\ \A q \in c.same \ c.todo :
       pool[q].status = "enabled" /\ pool[q].pb = Disk[c.val.pb] => ~ Less(<<used[q], Capacity[q]>>, c.min)
CreateFine(c) == Asked(c.val) /\ Suits(c.best, c.val)
InsertFine(c) ==
  /\ c.blob \in Blobs /\ c.val.status = "created" /\ Placed(c.val)
  /\ blob[c.blob].status = "none" /\ blobKV[c.blob] = c.val
ChangeFine(c) ==
  /\ c.blob \in Blobs /\ blob[c.blob].status # "none"
  /\ c.pc = "put" => c.val.status # "none"
  /\ c.blob \notin overlap =>
       /\ c.pc = "put" => c.val = blob[c.blob]
       /\ c.name # NoName => blobKV[c.blob] = [blob[c.blob] EXCEPT !.name = c.old]
ListFine(c) ==
  /\ \A b \in c.had :
       /\ blob[b].status # "none" /\ blob[b].user = c.user
       /\ blob_valid(b) /\ Shown(blob[b].pool) /\ blob[b].pool \notin c.todo => b \in c.res
  /\ \A b \in c.res : blob[b].status # "none" /\ blob[b].user = c.user /\ b \notin c.dead
  /\ \A b \in c.dead : blob[b].status = "deleted"

CallFine(c) ==
  /\ c.pc = "pick" => PickFine(c)
  /\ c.pc = "create" => CreateFine(c)
  /\ c.pc = "insert" => InsertFine(c)
  /\ c.pc \in {"encode", "put"} => ChangeFine(c)
  /\ c.pc = "list" => ListFine(c)

(* Nobody else inserts the blob, and two that change it are known to.      *)
OneChanger ==
  \A s, t \in Handlers : s # t /\ serving[s].blob = serving[t].blob =>
    /\ ~ (In(s, "insert") /\ In(t, "insert"))
    /\ serving[s].pc \in {"encode", "put"} /\ serving[t].pc \in {"encode", "put"} => serving[s].blob \in overlap

(* The inductive invariant of the catalog.                                 *)
CatalogInv ==
  /\ CatalogShape
  /\ \A p \in Pools : PoolFine(p)
  /\ \A b \in Blobs : BlobFine(b)
  /\ \A t \in Handlers : CallFine(serving[t])
  /\ OneChanger /\ NameStored

-----------------------------------------------------------------------------
(* The conversions that answers rest on. *)
LEMMA PoolTypesKept ==
  ASSUME NEW x, pool_type_valid(x)
  PROVE  /\ x \in PbPoolTypes /\ FromPbPoolType(x) \in {"HDD", "SSD", "NVMeSSD"}
         /\ ToPbPoolType(FromPbPoolType(x)) = x
  BY DEF pool_type_valid, PbPoolTypes, FromPbPoolType, ToPbPoolType, Via

LEMMA BlobTypesKept ==
  ASSUME NEW x, blobtype_valid(x)
  PROVE  /\ x \in PbBlobTypes /\ FromPbBlobType(x) \in {"General", "Superior", "Excellent"}
         /\ toPbBlobType(FromPbBlobType(x)) = x
         /\ pool_type_valid(Disk[x])
         /\ FromPbPoolType(Disk[x]) = allocate_pool(FromPbBlobType(x))
  BY DEF blobtype_valid, PbBlobTypes, FromPbBlobType, toPbBlobType, Via, Disk, FromPbPoolType, allocate_pool,
         pool_type_valid

(* The disks that a blob's type asks for are the only ones of their kind. *)
LEMMA DiskOfPool ==
  ASSUME NEW x, NEW y, blobtype_valid(x), pool_type_valid(y),
         FromPbPoolType(y) = allocate_pool(FromPbBlobType(x))
  PROVE  y = Disk[x]
  BY DEF blobtype_valid, FromPbBlobType, Via, Disk, FromPbPoolType, allocate_pool, pool_type_valid

LEMMA ConversionsHold == ConversionsKeep
  <1>1. \A x \in PbPoolTypes : pool_type_valid(x) => ToPbPoolType(FromPbPoolType(x)) = x
    BY PoolTypesKept
  <1>2. \A x \in PbBlobTypes : blobtype_valid(x) => toPbBlobType(FromPbBlobType(x)) = x
    BY BlobTypesKept
  <1>3. \A x \in PbDomains : failure_domain_valid(x) => ToPbFailureDomain(FromPbFailureDomain(x)) = x
    BY DEF failure_domain_valid, FromPbFailureDomain, ToPbFailureDomain, Via
  <1>4. \A x, y \in {"ok", "failed", "recovering", "rebalancing"} :
          x # y => ToPbExtentServerStatus(x) # ToPbExtentServerStatus(y)
    BY DEF ToPbExtentServerStatus, Via
  <1>5. \A x, y \in {"ok", "downgrade", "recovering", "rebalancing"} : x # y => ToPbRgStatus(x) # ToPbRgStatus(y)
    BY DEF ToPbRgStatus, Via
  <1> QED BY <1>1, <1>2, <1>3, <1>4, <1>5 DEF ConversionsKeep

(* get_pool's minimum only goes down: what was not below it stays so. *)
LEMMA NotLess ==
  ASSUME NEW a \in Nat, NEW b \in Nat, NEW c \in Nat, NEW d \in Nat \ {0}, NEW e \in Nat, NEW f \in Nat,
         ~ Less(<<a, b>>, <<c, d>>), Less(<<e, f>>, <<c, d>>)
  PROVE  f # 0 /\ ~ Less(<<a, b>>, <<e, f>>)
  <1>1. a * d >= c * b /\ e * d < c * f
    BY DEF Less
  <1>2. f # 0
    BY <1>1
  <1>3. (a * d) * f >= (c * b) * f
    BY <1>1
  <1>4. (c * f) * b >= (e * d) * b
    BY <1>1
  <1>5. (a * f) * d >= (e * b) * d
    BY <1>3, <1>4
  <1>6. ASSUME a * f < e * b PROVE FALSE
    <2>1. (a * f) * d < (e * b) * d
      BY <1>6
    <2> QED BY <1>5, <2>1
  <1> QED BY <1>2, <1>6 DEF Less

-----------------------------------------------------------------------------
(* The invariant says what clients are told. *)
LEMMA PoolAnswers ==
  ASSUME CatalogShape, NEW p \in Pools, PoolFine(p), NEW y \in QueryPool(p)
  PROVE  /\ y = ToPbPool(p) /\ y.id = p
         /\ y.type = pool[p].pb /\ y.status # "POOL_STATUS_UNKNOWN"
         /\ pool[p].status \in {"created", "enabled"}
  <1>1. y = ToPbPool(p) /\ pool[p].status \in {"created", "enabled"}
    BY DEF QueryPool, query_pool
  <1>2. pool_type_valid(pool[p].pb) /\ pool[p].type = FromPbPoolType(pool[p].pb)
    BY <1>1 DEF PoolFine
  <1>3. ToPbPoolType(pool[p].type) = pool[p].pb
    BY <1>2, PoolTypesKept
  <1>4. ToPbPoolStatus(pool[p].status) # "POOL_STATUS_UNKNOWN"
    BY <1>1 DEF ToPbPoolStatus, Via
  <1> QED BY <1>1, <1>3, <1>4 DEF ToPbPool

LEMMA InvAnswers ==
  ASSUME CatalogInv PROVE AnswersAsAsked
  <1> USE DEF CatalogInv
  <1>1. ASSUME NEW b \in Blobs, NEW x \in QueryBlob(b)
        PROVE  /\ x.type = blob[b].pb /\ x.status = "BLOB_STATUS_CREATED"
               /\ \A y \in QueryPool(x.pool) : blob[b].retyped \/ y.type = Disk[x.type]
    <2>1. x = ToPbBlob(b) /\ blob[b].status = "created"
      BY <1>1 DEF QueryBlob, query_blob, blob_valid
    <2>2. Asked(blob[b]) /\ Suits(blob[b].pool, blob[b])
      BY <2>1 DEF BlobFine, Placed
    <2>3. toPbBlobType(blob[b].type) = blob[b].pb
      BY <2>2, BlobTypesKept DEF Asked
    <2>4. toPbBlobStatus("created") = "BLOB_STATUS_CREATED"
      BY DEF toPbBlobStatus, Via
    <2>5. x.type = blob[b].pb /\ x.status = "BLOB_STATUS_CREATED" /\ x.pool = blob[b].pool
      BY <2>1, <2>3, <2>4 DEF ToPbBlob
    <2>6. ASSUME NEW y \in QueryPool(blob[b].pool), ~ blob[b].retyped PROVE y.type = Disk[blob[b].pb]
      <3> DEFINE p == blob[b].pool
      <3>1. p \in Pools /\ PoolFine(p)
        BY <2>2 DEF Suits
      <3>2. y.type = pool[p].pb
        BY <3>1, <2>6, PoolAnswers
      <3>3. pool_type_valid(pool[p].pb) /\ pool[p].type = FromPbPoolType(pool[p].pb)
        BY <3>1, <2>2 DEF PoolFine, Suits
      <3>4. FromPbPoolType(pool[p].pb) = allocate_pool(FromPbBlobType(blob[b].pb))
        BY <3>3, <2>2, <2>6 DEF Suits, Asked
      <3> HIDE DEF p
      <3> QED BY <3>2, <3>3, <3>4, <2>2, DiskOfPool DEF Asked
    <2> QED BY <2>5, <2>6
  <1>2. \A p \in Pools : \A y \in QueryPool(p) : y.type = pool[p].pb /\ y.status # "POOL_STATUS_UNKNOWN"
    BY PoolAnswers
  <1>3. ASSUME NEW y \in ListPools PROVE QueryPool(y.id) = {y}
    <2>1. PICK p \in Pools : pool[p].status = "enabled" /\ y = ToPbPool(p)
      BY <1>3 DEF ListPools, list_pools
    <2>2. y.id = p
      BY <2>1 DEF ToPbPool
    <2> QED BY <2>1, <2>2 DEF QueryPool, query_pool
  <1> QED BY <1>1, <1>2, <1>3, ConversionsHold DEF AnswersAsAsked

LEMMA InvAsTold ==
  ASSUME CatalogInv PROVE CatalogAsTold
  <1> USE DEF CatalogInv
  <1>1. CatalogTypes
    <2>1. ASSUME NEW p \in Pools PROVE used[p] \in 0 .. Capacity[p] /\ pool[p].type # "Special"
      BY CatalogAssumption DEF CatalogShape, PoolFine, PoolRecs
    <2>2. ASSUME NEW b \in Blobs PROVE blob[b].status \in {"none", "created", "deleted"}
      BY DEF CatalogShape, BlobRecs
    <2> QED BY <2>1, <2>2 DEF CatalogTypes, CatalogShape
  <1>2. LeastUsedChosen
    BY DEF LeastUsedChosen, CallFine, PickFine, In
  <1>3. ListsAll
    BY DEF ListsAll, CallFine, ListFine, In
  <1> QED BY <1>1, <1>2, <1>3, InvAnswers DEF CatalogAsTold

LEMMA NoCallIsCall ==
  NoBlob \in BlobRecs /\ NoCall \in CatalogCalls /\ NoCall.pc = "none" /\ NoCall.best = NoPool /\ NoCall.res = {}
  <1>1. NoBlob \in BlobRecs
    BY DEF NoBlob, BlobRecs, PbBlobTypes
  <1> QED BY <1>1 DEF NoCall, CatalogCalls

LEMMA CatalogStarts ==
  ASSUME CatalogInit PROVE CatalogInv
  <1> USE DEF CatalogInit
  <1>1. NoBlob \in BlobRecs /\ NoBlob.status = "none"
    BY NoCallIsCall DEF NoBlob
  <1>2. Nowhere \in PoolRecs /\ Nowhere.status = "none"
    BY DEF Nowhere, PoolRecs, PbPoolTypes
  <1>3. NoCall \in CatalogCalls /\ NoCall.pc = "none"
    BY NoCallIsCall
  <1>4. CatalogShape
    BY <1>1, <1>2, <1>3 DEF CatalogShape
  <1>5. \A p \in Pools : PoolFine(p)
    BY <1>2, CatalogAssumption DEF PoolFine
  <1>6. \A b \in Blobs : BlobFine(b)
    BY <1>1 DEF BlobFine
  <1>7. \A t \in Handlers : serving[t].pc = "none"
    BY <1>3
  <1>8. \A t \in Handlers : CallFine(serving[t])
    BY <1>7 DEF CallFine
  <1>9. OneChanger /\ NameStored
    BY <1>1, <1>7 DEF OneChanger, NameStored, In
  <1> QED BY <1>4, <1>5, <1>6, <1>8, <1>9 DEF CatalogInv

-----------------------------------------------------------------------------
(* A step of one call that changes neither pools nor blobs: what is known  *)
(* of the others stays, and a call that is not changing a blob disturbs    *)
(* nobody.                                                                 *)
Quiet == {"none", "pick", "create", "list"}

LEMMA CallStep ==
  ASSUME CatalogInv, NEW t \in Handlers,
         UNCHANGED <<pool, used, blob, blobKV, overlap>>,
         serving' \in [Handlers -> CatalogCalls],
         \A s \in Handlers \ {t} : serving'[s] = serving[s],
         \/ serving'[t].pc \in Quiet
         \/ /\ serving[t].pc \in {"encode", "put"} /\ serving'[t].pc \in {"encode", "put"}
            /\ serving'[t].blob = serving[t].blob,
         CallFine(serving'[t]),
         \A b \in Blobs : b \notin overlap /\ Changers(b)' = {} /\ blob[b].status # "none" => blob[b] = blobKV[b]
  PROVE  CatalogInv'
  <1> USE DEF CatalogInv
  <1>1. CatalogShape'
    BY DEF CatalogShape
  <1>2. (\A p \in Pools : PoolFine(p))' /\ (\A b \in Blobs : BlobFine(b))'
    BY DEF PoolFine, BlobFine, Placed, Asked, Suits
  <1>3. ASSUME NEW c, CallFine(c) PROVE CallFine(c)'
    BY <1>3 DEF CallFine, PickFine, CreateFine, InsertFine, ChangeFine, ListFine, Placed, Asked, Suits, blob_valid, Shown
  <1>4. (\A s \in Handlers : CallFine(serving[s]))'
    BY <1>3
  <1>5. OneChanger'
    BY DEF OneChanger, In, Quiet
  <1>6. NameStored'
    BY DEF NameStored
  <1> QED BY <1>1, <1>2, <1>4, <1>5, <1>6

LEMMA CallQuiet ==
  ASSUME CatalogInv, NEW t \in Handlers, serving[t].pc \in Quiet,
         UNCHANGED <<pool, used, blob, blobKV, overlap>>,
         serving' \in [Handlers -> CatalogCalls],
         \A s \in Handlers \ {t} : serving'[s] = serving[s],
         serving'[t].pc \in Quiet, CallFine(serving'[t])
  PROVE  CatalogInv'
  <1>1. \A b \in Blobs : Changers(b)' = Changers(b)
    BY DEF Changers, Quiet
  <1> QED BY <1>1, CallStep DEF CatalogInv, NameStored

(* What a call is when it ends. *)
LEMMA CallEnds ==
  ASSUME CatalogInv, NEW t \in Handlers, serving[t].pc \in Quiet,
         UNCHANGED <<pool, used, blob, blobKV, overlap>>, Ends(t)
  PROVE  CatalogInv'
  <1>1. NoCall \in CatalogCalls /\ NoCall.pc = "none"
    BY NoCallIsCall
  <1>2. serving \in [Handlers -> CatalogCalls]
    BY DEF CatalogInv, CatalogShape
  <1>3. serving' \in [Handlers -> CatalogCalls] /\ serving'[t] = NoCall /\ \A s \in Handlers \ {t} : serving'[s] = serving[s]
    BY <1>1, <1>2 DEF Ends
  <1>4. CallFine(serving'[t])
    BY <1>1, <1>3 DEF CallFine
  <1> QED BY <1>1, <1>3, <1>4, CallQuiet DEF Quiet

-----------------------------------------------------------------------------
(* The walks over the pools. *)
LEMMA StepCreateBlob ==
  ASSUME CatalogInv, NEW t \in Handlers, NEW u \in Owners, NEW ty, CreateBlob(t, u, ty)
  PROVE  CatalogInv'
  <1> DEFINE v == [NoBlob EXCEPT !.type = FromPbBlobType(ty), !.pb = ty, !.user = u]
             c == [NoCall EXCEPT !.pc = "pick", !.user = u, !.todo = InMap, !.same = InMap, !.val = v]
  <1>1. serving[t] = NoCall /\ blobtype_valid(ty) /\ serving' = [serving EXCEPT ![t] = c]
        /\ UNCHANGED <<pool, used, blob, blobKV, overlap>>
    BY DEF CreateBlob
  <1>2. v \in BlobRecs /\ v.pb = ty /\ v.type = FromPbBlobType(ty)
    BY <1>1, BlobTypesKept DEF NoBlob, BlobRecs
  <1>3. c \in CatalogCalls /\ c.pc = "pick" /\ c.val = v /\ c.best = NoPool /\ c.same = c.todo
    <2>1. PICK n \in CatalogCalls : n = NoCall
      BY NoCallIsCall
    <2>2. PICK w \in BlobRecs : w = v
      BY <1>2
    <2>3. PICK m \in SUBSET Pools : m = InMap
      BY DEF InMap
    <2>4. c = [n EXCEPT !.pc = "pick", !.user = u, !.todo = m, !.same = m, !.val = w]
      BY <2>1, <2>2, <2>3
    <2>5. n.best = NoPool
      BY <2>1, NoCallIsCall
    <2> HIDE DEF v, c
    <2> QED BY <2>2, <2>4, <2>5 DEF CatalogCalls
  <1>4. PickFine(c)
    BY <1>1, <1>2, <1>3 DEF PickFine, Asked
  <1> HIDE DEF c
  <1>5. serving \in [Handlers -> CatalogCalls] /\ serving[t].pc = "none"
    BY <1>1 DEF CatalogInv, CatalogShape, NoCall
  <1>6. serving' \in [Handlers -> CatalogCalls] /\ serving'[t] = c /\ \A s \in Handlers \ {t} : serving'[s] = serving[s]
    BY <1>1, <1>3, <1>5
  <1>7. CallFine(serving'[t])
    BY <1>3, <1>4, <1>6 DEF CallFine
  <1> QED BY <1>1, <1>3, <1>5, <1>6, <1>7, CallQuiet DEF Quiet

LEMMA StepListBlobs ==
  ASSUME CatalogInv, NEW t \in Handlers, NEW u \in Owners, ListBlobs(t, u)
  PROVE  CatalogInv'
  <1> DEFINE had == {b \in Blobs : blob_valid(b) /\ blob[b].user = u /\ Shown(blob[b].pool)}
             dead == {b \in Blobs : blob[b].status = "deleted"}
             c == [NoCall EXCEPT !.pc = "list", !.user = u, !.todo = InMap, !.had = had, !.dead = dead]
  <1>1. serving[t] = NoCall /\ serving' = [serving EXCEPT ![t] = c]
        /\ UNCHANGED <<pool, used, blob, blobKV, overlap>>
    BY DEF ListBlobs
  <1>2. c \in CatalogCalls /\ c.pc = "list" /\ c.user = u /\ c.todo = InMap /\ c.had = had /\ c.dead = dead /\ c.res = {}
    <2> HIDE DEF had, dead
    <2>1. had \subseteq Blobs /\ dead \subseteq Blobs
      BY DEF had, dead
    <2>2. PICK n \in CatalogCalls : n = NoCall
      BY NoCallIsCall
    <2>3. PICK m \in SUBSET Pools : m = InMap
      BY DEF InMap
    <2>4. c = [n EXCEPT !.pc = "list", !.user = u, !.todo = m, !.had = had, !.dead = dead]
      BY <2>2, <2>3
    <2>5. n.res = {}
      BY <2>2, NoCallIsCall
    <2> HIDE DEF c
    <2>6. c \in CatalogCalls
      <3>1. PICK Os, Bs, Ps, Rs : Os = Owners \cup {"none"} /\ Bs = SUBSET Blobs /\ Ps = SUBSET Pools /\ Rs = BlobRecs
        OBVIOUS
      <3>2. u \in Os /\ had \in Bs /\ dead \in Bs /\ m \in Ps
        BY <2>1, <2>3, <3>1
      <3> QED BY <2>4, <3>1, <3>2 DEF CatalogCalls
    <2>7. c.pc = "list" /\ c.user = u /\ c.todo = m /\ c.had = had /\ c.dead = dead /\ c.res = n.res
      BY <2>4 DEF CatalogCalls
    <2> QED BY <2>3, <2>5, <2>6, <2>7
  <1>3. ListFine(c)
    <2>1. ASSUME NEW b \in c.had
          PROVE  /\ blob[b].status # "none" /\ blob[b].user = c.user
                 /\ blob[b].pool \in c.todo
      BY <1>2, <2>1 DEF CatalogInv, BlobFine, Placed, Suits, InMap, blob_valid
    <2> QED BY <1>2, <2>1 DEF ListFine
  <1> HIDE DEF c
  <1>5. serving \in [Handlers -> CatalogCalls] /\ serving[t].pc = "none"
    BY <1>1 DEF CatalogInv, CatalogShape, NoCall
  <1>6. serving' \in [Handlers -> CatalogCalls] /\ serving'[t] = c /\ \A s \in Handlers \ {t} : serving'[s] = serving[s]
    BY <1>1, <1>2, <1>5
  <1>7. CallFine(serving'[t])
    BY <1>2, <1>3, <1>6 DEF CallFine
  <1> QED BY <1>1, <1>2, <1>5, <1>6, <1>7, CallQuiet DEF Quiet

LEMMA StepPicked ==
  ASSUME CatalogInv, NEW t \in Handlers, Picked(t)
  PROVE  CatalogInv'
  <1>1. In(t, "pick") /\ UNCHANGED <<pool, used, blob, blobKV, overlap>>
    BY DEF Picked
  <1>2. PICK k \in CatalogCalls : k = serving[t]
    BY DEF CatalogInv, CatalogShape
  <1>3. k.pc = "pick" /\ PickFine(k) /\ serving \in [Handlers -> CatalogCalls]
    BY <1>1, <1>2 DEF In, CatalogInv, CallFine, CatalogShape
  <1>4. CASE k.best = NoPool
    BY <1>1, <1>2, <1>3, <1>4, CallEnds DEF Picked, Quiet
  <1>5. CASE k.best # NoPool
    <2> DEFINE c == [k EXCEPT !.pc = "create", !.same = {}, !.min = <<1, 1>>]
    <2>1. serving' = [serving EXCEPT ![t] = c]
      BY <1>2, <1>3, <1>5 DEF Picked
    <2>2. c \in CatalogCalls /\ c.pc = "create" /\ c.val = k.val /\ c.best = k.best
      <3>0. <<1, 1>> \in Nat \X (Nat \ {0})
        OBVIOUS
      <3>1. PICK m \in Nat \X (Nat \ {0}) : m = <<1, 1>>
        BY <3>0, Zenon
      <3>2. c = [k EXCEPT !.pc = "create", !.same = {}, !.min = m]
        BY <3>1
      <3> HIDE DEF c
      <3> QED BY <3>2 DEF CatalogCalls
    <2> HIDE DEF c
    <2>3. CreateFine(c)
      BY <1>3, <1>5, <2>2 DEF PickFine, CreateFine, Asked, Suits
    <2>4. serving' \in [Handlers -> CatalogCalls] /\ serving'[t] = c /\ \A s \in Handlers \ {t} : serving'[s] = serving[s]
      BY <1>3, <2>1, <2>2
    <2>5. CallFine(serving'[t])
      BY <2>2, <2>3, <2>4 DEF CallFine
    <2> QED BY <1>1, <1>2, <1>3, <2>2, <2>4, <2>5, CallQuiet DEF Quiet
  <1> QED BY <1>4, <1>5

LEMMA StepListed ==
  ASSUME CatalogInv, NEW t \in Handlers, Listed(t)
  PROVE  CatalogInv'
  BY CallEnds DEF Listed, In, Quiet

LEMMA StepListblobs ==
  ASSUME CatalogInv, NEW t \in Handlers, NEW p \in Pools, list_blobs(t, p)
  PROVE  CatalogInv'
  <1>1. In(t, "list") /\ UNCHANGED <<pool, used, blob, blobKV, overlap>>
    BY DEF list_blobs
  <1>2. PICK k \in CatalogCalls : k = serving[t]
    BY DEF CatalogInv, CatalogShape
  <1>3. k.pc = "list" /\ ListFine(k) /\ serving \in [Handlers -> CatalogCalls]
    BY <1>1, <1>2 DEF In, CatalogInv, CallFine, CatalogShape
  <1> DEFINE new == {b \in Blobs : blob_valid(b) /\ blob[b].user = k.user /\ blob[b].pool = p}
             R == IF Shown(p) THEN k.res \cup new ELSE k.res
             c == [k EXCEPT !.todo = k.todo \ {p}, !.res = R]
  <1>4. serving' = [serving EXCEPT ![t] = c]
    BY <1>2, <1>3 DEF list_blobs
  <1>5. R \subseteq Blobs
    BY <1>2 DEF CatalogCalls
  <1>6. c \in CatalogCalls /\ c.pc = "list" /\ c.user = k.user /\ c.had = k.had /\ c.dead = k.dead /\ c.res = R
        /\ c.todo = k.todo \ {p}
    <2> HIDE DEF R
    <2> QED BY <1>3, <1>5 DEF CatalogCalls
  <1> HIDE DEF c
  <1>7. ListFine(c)
    <2>1. ASSUME NEW b \in c.had
          PROVE  /\ blob[b].status # "none" /\ blob[b].user = c.user
                 /\ blob_valid(b) /\ Shown(blob[b].pool) /\ blob[b].pool \notin c.todo => b \in c.res
      <3>1. b \in k.had /\ b \in Blobs
        BY <1>6 DEF CatalogCalls
      <3> QED BY <3>1, <1>3, <1>6 DEF ListFine
    <2>2. ASSUME NEW b \in c.res PROVE blob[b].status # "none" /\ blob[b].user = c.user /\ b \notin c.dead
      <3>1. CASE b \in k.res
        BY <3>1, <1>3, <1>6 DEF ListFine
      <3>2. CASE b \in new
        BY <3>2, <1>3, <1>6 DEF ListFine, blob_valid
      <3> QED BY <1>6, <3>1, <3>2
    <2>3. \A b \in c.dead : blob[b].status = "deleted"
      BY <1>3, <1>6 DEF ListFine
    <2> QED BY <2>1, <2>2, <2>3 DEF ListFine
  <1>8. serving' \in [Handlers -> CatalogCalls] /\ serving'[t] = c /\ \A s \in Handlers \ {t} : serving'[s] = serving[s]
    BY <1>3, <1>4, <1>6
  <1>9. CallFine(serving'[t])
    BY <1>6, <1>7, <1>8 DEF CallFine
  <1> QED BY <1>1, <1>2, <1>3, <1>6, <1>8, <1>9, CallQuiet DEF Quiet

(* get_pool's loop: a pool that has not changed since the walk began is    *)
(* compared with the minimum once, and the minimum only goes down.         *)
LEMMA StepGetPool ==
  ASSUME CatalogInv, NEW t \in Handlers, NEW p \in Pools, get_pool(t, p)
  PROVE  CatalogInv'
  <1>1. In(t, "pick") /\ UNCHANGED <<pool, used, blob, blobKV, overlap>>
    BY DEF get_pool
  <1>2. PICK k \in CatalogCalls : k = serving[t]
    BY DEF CatalogInv, CatalogShape
  <1>3. k.pc = "pick" /\ PickFine(k) /\ serving \in [Handlers -> CatalogCalls]
    BY <1>1, <1>2 DEF In, CatalogInv, CallFine, CatalogShape
  <1> DEFINE ratio(q) == <<used[q], Capacity[q]>>
             fits == /\ pool[p].type = allocate_pool(k.val.type) /\ pool[p].status = "enabled"
                     /\ Less(ratio(p), k.min)
             B == IF fits THEN p ELSE k.best
             M == IF fits THEN ratio(p) ELSE k.min
             c == [k EXCEPT !.todo = k.todo \ {p}, !.best = B, !.min = M]
  <1>4. serving' = [serving EXCEPT ![t] = c]
    BY <1>2, <1>3 DEF get_pool
  <1>5. used \in [Pools -> Nat] /\ Capacity \in [Pools -> Nat] /\ k.min \in Nat \X (Nat \ {0})
    BY CatalogAssumption DEF CatalogInv, CatalogShape, CatalogCalls
  <1>6. PICK c1 \in Nat, d \in Nat \ {0} : k.min = <<c1, d>>
    BY <1>5
  <1>7. fits => Capacity[p] # 0
    BY <1>5, <1>6, NotLess DEF Less
  <1>8. B \in Pools \cup {NoPool} /\ M \in Nat \X (Nat \ {0})
    BY <1>5, <1>7 DEF CatalogCalls
  <1>9. c \in CatalogCalls /\ c.pc = "pick" /\ c.val = k.val /\ c.best = B /\ c.min = M /\ c.same = k.same
        /\ c.todo = k.todo \ {p}
    <2> HIDE DEF B, M
    <2> QED BY <1>3, <1>8 DEF CatalogCalls
  <1> HIDE DEF c
  <1>10. PickFine(c)
    <2>1. Asked(c.val) /\ (c.best # NoPool => Suits(c.best, c.val))
      BY <1>3, <1>9 DEF PickFine, Asked, Suits
    <2>2. ASSUME NEW q \in c.same \ c.todo, pool[q].status = "enabled", pool[q].pb = Disk[c.val.pb]
          PROVE  ~ Less(ratio(q), c.min)
      <3>1. q \in Pools /\ q \in k.same /\ (q = p \/ q \notin k.todo)
        BY <1>9, <2>2 DEF CatalogCalls
      <3>2. used[q] \in Nat /\ Capacity[q] \in Nat /\ used[p] \in Nat /\ Capacity[p] \in Nat
        BY <1>5, <3>1
      <3>3. CASE q = p
        <4>1. pool[p].type = allocate_pool(k.val.type)
          <5>1. pool[p].type = FromPbPoolType(Disk[k.val.pb])
            BY <3>3, <2>2, <1>9 DEF CatalogInv, PoolFine
          <5> QED BY <5>1, <1>3, BlobTypesKept DEF PickFine, Asked
        <4>2. ~ Less(ratio(p), ratio(p))
          BY <3>2 DEF Less
        <4> QED BY <3>3, <4>1, <4>2, <2>2, <1>9
      <3>4. CASE q # p
        <4>1. ~ Less(ratio(q), k.min)
          BY <3>1, <3>4, <2>2, <1>3, <1>9 DEF PickFine
        <4>2. CASE ~ fits
          BY <4>1, <4>2, <1>9
        <4>3. CASE fits
          BY <4>1, <4>3, <3>2, <1>6, <1>9, NotLess
        <4> QED BY <4>2, <4>3
      <3> QED BY <3>3, <3>4
    <2> QED BY <2>1, <2>2 DEF PickFine
  <1>11. serving' \in [Handlers -> CatalogCalls] /\ serving'[t] = c /\ \A s \in Handlers \ {t} : serving'[s] = serving[s]
    BY <1>3, <1>4, <1>9
  <1>12. CallFine(serving'[t])
    BY <1>9, <1>10, <1>11 DEF CallFine
  <1> QED BY <1>1, <1>2, <1>3, <1>9, <1>11, <1>12, CallQuiet DEF Quiet

-----------------------------------------------------------------------------
(* The pools change under the walks: a pool in the map stays there, and a  *)
(* walk counts on those alone that have not changed.                       *)
LEMMA PoolStep ==
  ASSUME CatalogInv, NEW p \in Pools, Changed(p),
         UNCHANGED <<blob, blobKV, overlap>>,
         pool' \in [Pools -> PoolRecs], used' \in [Pools -> Nat],
         \A q \in Pools \ {p} : pool'[q] = pool[q] /\ used'[q] = used[q],
         PoolFine(p)',
         pool[p].status # "none" => pool'[p].status # "none" /\ pool'[p].type = pool[p].type,
         pool[p].status = "disabled" => pool'[p].status = "disabled"
  PROVE  CatalogInv'
  <1> USE DEF CatalogInv
  <1>1. serving' = [t \in Handlers |-> [serving[t] EXCEPT !.same = @ \ {p}]]
    BY DEF Changed
  <1>2. ASSUME NEW t \in Handlers
        PROVE  /\ serving'[t] \in CatalogCalls /\ serving'[t].same = serving[t].same \ {p}
               /\ serving'[t].pc = serving[t].pc /\ serving'[t].blob = serving[t].blob
               /\ serving'[t].user = serving[t].user /\ serving'[t].name = serving[t].name
               /\ serving'[t].old = serving[t].old /\ serving'[t].val = serving[t].val
               /\ serving'[t].todo = serving[t].todo /\ serving'[t].best = serving[t].best
               /\ serving'[t].min = serving[t].min /\ serving'[t].res = serving[t].res
               /\ serving'[t].had = serving[t].had /\ serving'[t].dead = serving[t].dead
    <2>1. PICK k \in CatalogCalls : k = serving[t]
      BY DEF CatalogShape
    <2>2. serving'[t] = [k EXCEPT !.same = k.same \ {p}]
      BY <1>1, <2>1
    <2> QED BY <2>1, <2>2 DEF CatalogCalls
  <1>3. CatalogShape'
    BY <1>1, <1>2 DEF CatalogShape
  <1>4. (\A q \in Pools : PoolFine(q))'
    BY DEF PoolFine
  <1>5. ASSUME NEW q, NEW v, Suits(q, v) PROVE Suits(q, v)'
    BY <1>5 DEF Suits
  <1>6. (\A b \in Blobs : BlobFine(b))'
    BY <1>5 DEF BlobFine, Placed, Asked
  <1>7. ASSUME NEW t \in Handlers PROVE CallFine(serving[t])'
    <2> DEFINE c == serving[t]
               d == serving'[t]
    <2>0. CallFine(c) /\ c.same \subseteq Pools
      BY DEF CatalogShape, CatalogCalls
    <2>1. ASSUME d.pc = "pick" PROVE PickFine(c)'
      <3>1. PickFine(c)
        BY <2>0, <2>1, <1>2 DEF CallFine
      <3>2. Asked(c.val)' /\ (d.best # NoPool => Suits(c.best, c.val)')
        BY <3>1, <1>2, <1>5 DEF PickFine, Asked
      <3>3. ASSUME NEW q \in d.same \ d.todo PROVE q \in c.same \ c.todo /\ pool'[q] = pool[q] /\ used'[q] = used[q]
        BY <3>3, <2>0, <1>2
      <3> QED BY <3>1, <3>2, <3>3, <1>2 DEF PickFine
    <2>2. ASSUME d.pc = "create" PROVE CreateFine(c)'
      BY <2>0, <2>2, <1>2, <1>5 DEF CallFine, CreateFine, Asked
    <2>3. ASSUME d.pc = "insert" PROVE InsertFine(c)'
      BY <2>0, <2>3, <1>2, <1>5 DEF CallFine, InsertFine, Placed, Asked
    <2>4. ASSUME d.pc \in {"encode", "put"} PROVE ChangeFine(c)'
      BY <2>0, <2>4, <1>2 DEF CallFine, ChangeFine
    <2>5. ASSUME d.pc = "list" PROVE ListFine(c)'
      <3>1. ListFine(c) /\ c.had \subseteq Blobs
        BY <2>0, <2>5, <1>2 DEF CallFine, CatalogShape, CatalogCalls
      <3>2. ASSUME NEW b \in c.had, Shown(blob[b].pool)' PROVE Shown(blob[b].pool)
        <4>1. blob[b].pool \in Pools
          BY <3>1, <3>2 DEF ListFine, BlobFine, Placed, Suits
        <4> QED BY <3>2, <4>1 DEF Shown
      <3> QED BY <3>1, <3>2, <1>2 DEF ListFine, blob_valid
    <2> QED BY <2>1, <2>2, <2>3, <2>4, <2>5 DEF CallFine
  <1>8. OneChanger' /\ NameStored'
    <2>1. \A b \in Blobs : Changers(b)' = Changers(b)
      BY <1>2 DEF Changers
    <2> QED BY <1>2, <2>1 DEF OneChanger, NameStored, In
  <1> QED BY <1>3, <1>4, <1>6, <1>7, <1>8

LEMMA StepCreatePool ==
  ASSUME CatalogInv, NEW p \in Pools, NEW ty, CreatePool(p, ty)
  PROVE  CatalogInv'
  <1> DEFINE v == [status |-> "created", type |-> FromPbPoolType(ty), pb |-> ty]
  <1>1. pool[p].status = "none" /\ pool_type_valid(ty) /\ pool' = [pool EXCEPT ![p] = v] /\ Changed(p)
        /\ UNCHANGED <<used, blob, blobKV, overlap>>
    BY DEF CreatePool
  <1>2. v \in PoolRecs /\ v.pb = ty /\ v.type = FromPbPoolType(ty) /\ v.status = "created"
    BY <1>1, PoolTypesKept DEF PoolRecs
  <1> HIDE DEF v
  <1>3. pool \in [Pools -> PoolRecs] /\ used \in [Pools -> Nat] /\ used[p] <= Capacity[p]
    BY DEF CatalogInv, CatalogShape, PoolFine
  <1>4. pool' \in [Pools -> PoolRecs] /\ pool'[p] = v /\ \A q \in Pools \ {p} : pool'[q] = pool[q]
    BY <1>1, <1>2, <1>3
  <1>5. PoolFine(p)'
    BY <1>1, <1>2, <1>3, <1>4 DEF PoolFine
  <1> QED BY <1>1, <1>3, <1>4, <1>5, PoolStep

(* A pool gets another type while nobody walks: the blobs that it has, and *)
(* the calls that chose it, are marked.                                    *)
LEMMA RetypedFacts ==
  ASSUME NEW r \in BlobRecs, NEW here \in BOOLEAN
  PROVE  LET v == Retyped(r, here)
         IN  /\ v \in BlobRecs /\ v.status = r.status /\ v.pool = r.pool /\ v.type = r.type /\ v.pb = r.pb
             /\ (here => v.retyped) /\ (~ here => v = r)
  <1>1. CASE here
    <2>1. Retyped(r, here) = [r EXCEPT !.retyped = TRUE]
      BY <1>1 DEF Retyped
    <2> QED BY <1>1, <2>1 DEF BlobRecs
  <1>2. CASE ~ here
    BY <1>2 DEF Retyped
  <1> QED BY <1>1, <1>2

LEMMA StepUpdatePool ==
  ASSUME CatalogInv, NEW p \in Pools, NEW ty, UpdatePool(p, ty)
  PROVE  CatalogInv'
  <1> USE DEF CatalogInv
  <1>1. /\ \A t \in Handlers : serving[t].pc \in {"none", "create"}
        /\ pool[p].status # "none" /\ pool_type_valid(ty)
        /\ pool' = [pool EXCEPT ![p].type = FromPbPoolType(ty), ![p].pb = ty]
        /\ blob' = [b \in Blobs |-> Retyped(blob[b], blob[b].pool = p)]
        /\ blobKV' = [b \in Blobs |-> Retyped(blobKV[b], blobKV[b].pool = p)]
        /\ serving' = [t \in Handlers |-> [serving[t] EXCEPT !.val = Retyped(serving[t].val, serving[t].best = p)]]
        /\ UNCHANGED <<used, overlap>>
    BY DEF UpdatePool
  <1>2. /\ pool' \in [Pools -> PoolRecs] /\ pool'[p].status = pool[p].status
        /\ pool'[p].type = FromPbPoolType(ty) /\ pool'[p].pb = ty
        /\ \A q \in Pools \ {p} : pool'[q] = pool[q]
    <2>1. PICK k \in PoolRecs : k = pool[p]
      BY DEF CatalogShape
    <2>2. PICK v : v = [k EXCEPT !.type = FromPbPoolType(ty), !.pb = ty]
      OBVIOUS
    <2>3. v \in PoolRecs /\ v.status = k.status /\ v.type = FromPbPoolType(ty) /\ v.pb = ty
      BY <1>1, <2>2, PoolTypesKept DEF PoolRecs
    <2>4. pool' = [pool EXCEPT ![p] = v]
      BY <1>1, <2>1, <2>2 DEF CatalogShape
    <2> QED BY <2>1, <2>3, <2>4 DEF CatalogShape
  <1>3. ASSUME NEW b \in Blobs
        PROVE  /\ blob'[b] \in BlobRecs /\ blob'[b].status = blob[b].status /\ blob'[b].pool = blob[b].pool
               /\ blob'[b].type = blob[b].type /\ blob'[b].pb = blob[b].pb
               /\ (blob[b].pool = p => blob'[b].retyped) /\ (blob[b].pool # p => blob'[b] = blob[b])
               /\ blobKV'[b] \in BlobRecs /\ blobKV'[b].status = blobKV[b].status
               /\ (blob[b] = blobKV[b] => blob'[b] = blobKV'[b])
    <2>1. blob[b] \in BlobRecs /\ blobKV[b] \in BlobRecs
      BY DEF CatalogShape
    <2>2. /\ blob'[b] = Retyped(blob[b], blob[b].pool = p)
          /\ blobKV'[b] = Retyped(blobKV[b], blobKV[b].pool = p)
      BY <1>1
    <2>3. PICK here \in BOOLEAN, there \in BOOLEAN : here = (blob[b].pool = p) /\ there = (blobKV[b].pool = p)
      OBVIOUS
    <2>4. blob'[b] = Retyped(blob[b], here) /\ blobKV'[b] = Retyped(blobKV[b], there)
      BY <2>2, <2>3
    <2>5. /\ blob'[b] \in BlobRecs /\ blob'[b].status = blob[b].status /\ blob'[b].pool = blob[b].pool
          /\ blob'[b].type = blob[b].type /\ blob'[b].pb = blob[b].pb
          /\ (here => blob'[b].retyped) /\ (~ here => blob'[b] = blob[b])
      BY <2>1, <2>4, RetypedFacts
    <2>6. blobKV'[b] \in BlobRecs /\ blobKV'[b].status = blobKV[b].status
      BY <2>1, <2>4, RetypedFacts
    <2>7. blob[b] = blobKV[b] => blob'[b] = blobKV'[b]
      BY <2>2
    <2> QED BY <2>3, <2>5, <2>6, <2>7
  <1>4. ASSUME NEW t \in Handlers
        PROVE  /\ serving'[t] \in CatalogCalls /\ serving'[t].pc = serving[t].pc
               /\ serving'[t].best = serving[t].best
               /\ serving'[t].val = Retyped(serving[t].val, serving[t].best = p)
    <2>1. PICK k \in CatalogCalls : k = serving[t]
      BY DEF CatalogShape
    <2>2. PICK v : v = Retyped(k.val, k.best = p)
      OBVIOUS
    <2>3. k.val \in BlobRecs
      BY DEF CatalogCalls
    <2>4. v \in BlobRecs
      BY <2>2, <2>3, RetypedFacts
    <2>5. serving'[t] = [k EXCEPT !.val = v]
      BY <1>1, <2>1, <2>2
    <2> QED BY <2>1, <2>2, <2>4, <2>5 DEF CatalogCalls
  <1>5. CatalogShape'
    BY <1>1, <1>2, <1>3, <1>4 DEF CatalogShape
  <1>6. (\A q \in Pools : PoolFine(q))'
    BY <1>1, <1>2 DEF PoolFine
  <1>7. (\A b \in Blobs : BlobFine(b))'
    BY <1>2, <1>3 DEF BlobFine, Placed, Asked, Suits
  <1>8. ASSUME NEW t \in Handlers PROVE CallFine(serving[t])'
    <2>1. CASE serving[t].pc = "none"
      BY <1>4, <2>1 DEF CallFine
    <2>2. CASE serving[t].pc = "create"
      <3>1. CreateFine(serving[t]) /\ serving[t].val \in BlobRecs
        BY <2>2 DEF CallFine, CatalogShape, CatalogCalls
      <3>2. PICK v : v = serving'[t].val
        OBVIOUS
      <3>3. /\ v.type = serving[t].val.type /\ v.pb = serving[t].val.pb
            /\ (serving[t].best = p => v.retyped) /\ (serving[t].best # p => v = serving[t].val)
        BY <1>4, <3>1, <3>2, RetypedFacts
      <3>4. CreateFine(serving[t])'
        BY <1>2, <1>4, <3>1, <3>2, <3>3 DEF CreateFine, Asked, Suits
      <3> QED BY <1>4, <2>2, <3>4 DEF CallFine
    <2> QED BY <1>1, <2>1, <2>2
  <1>9. OneChanger'
    BY <1>1, <1>4 DEF OneChanger, In
  <1>10. NameStored'
    <2>1. \A b \in Blobs : Changers(b) = {}
      BY <1>1 DEF Changers
    <2> QED BY <1>1, <1>3, <2>1 DEF NameStored
  <1> QED BY <1>5, <1>6, <1>7, <1>8, <1>9, <1>10

LEMMA StepPoolStatus ==
  ASSUME CatalogInv, NEW p \in Pools, InitPool(p) \/ DeletePool(p)
  PROVE  CatalogInv'
  <1>1. PICK s \in {"enabled", "disabled"} : pool' = [pool EXCEPT ![p].status = s]
    BY DEF InitPool, DeletePool
  <1>2. Changed(p) /\ UNCHANGED <<used, blob, blobKV, overlap>> /\ pool[p].status \in {"created", "enabled"}
    BY DEF InitPool, DeletePool
  <1>3. pool \in [Pools -> PoolRecs] /\ used \in [Pools -> Nat] /\ PoolFine(p)
    BY DEF CatalogInv, CatalogShape
  <1>4. PICK k \in PoolRecs : k = pool[p]
    BY <1>3
  <1> DEFINE v == [k EXCEPT !.status = s]
  <1>5. v \in PoolRecs /\ v.pb = k.pb /\ v.type = k.type /\ v.status = s
    BY DEF PoolRecs
  <1>6. pool' = [pool EXCEPT ![p] = v]
    BY <1>1, <1>3, <1>4
  <1> HIDE DEF v
  <1>7. pool' \in [Pools -> PoolRecs] /\ pool'[p] = v /\ \A q \in Pools \ {p} : pool'[q] = pool[q]
    BY <1>3, <1>5, <1>6
  <1>8. PoolFine(p)'
    BY <1>2, <1>3, <1>4, <1>5, <1>7 DEF PoolFine
  <1> QED BY <1>2, <1>3, <1>4, <1>5, <1>7, <1>8, PoolStep

LEMMA StepUpdateEs ==
  ASSUME CatalogInv, NEW p \in Pools, NEW n \in 0 .. Capacity[p], update_es(p, n)
  PROVE  CatalogInv'
  <1>1. Changed(p) /\ UNCHANGED <<pool, blob, blobKV, overlap>> /\ used' = [used EXCEPT ![p] = n]
    BY DEF update_es
  <1>2. Capacity[p] \in Nat
    BY CatalogAssumption
  <1>3. pool \in [Pools -> PoolRecs] /\ used \in [Pools -> Nat] /\ PoolFine(p)
    BY DEF CatalogInv, CatalogShape
  <1>4. used' \in [Pools -> Nat] /\ used'[p] = n /\ n <= Capacity[p] /\ \A q \in Pools \ {p} : used'[q] = used[q]
    BY <1>1, <1>2, <1>3
  <1>5. PoolFine(p)'
    BY <1>1, <1>3, <1>4 DEF PoolFine
  <1> QED BY <1>1, <1>3, <1>4, <1>5, PoolStep

-----------------------------------------------------------------------------
(* The blobs change under the calls: one that is in the map stays there,   *)
(* with its owner and its pool, and what is deleted stays deleted.  A call *)
(* on the same blob goes on knowing what it needs to.                      *)
LEMMA Bystander ==
  ASSUME CatalogInv, NEW s \in Handlers, NEW b \in Blobs,
         UNCHANGED <<pool, used>>, serving'[s] = serving[s],
         \A a \in Blobs \ {b} : blob'[a] = blob[a] /\ blobKV'[a] = blobKV[a],
         overlap \subseteq overlap',
         blob[b].status # "none" =>
           /\ blob'[b].status # "none" /\ blob'[b].user = blob[b].user /\ blob'[b].pool = blob[b].pool
           /\ blob[b].status = "deleted" => blob'[b].status = "deleted",
         blob'[b].status = "created" /\ blob[b].status # "none" => blob[b].status = "created",
         serving[s].blob = b => /\ ~ In(s, "insert")
                                /\ serving[s].pc \in {"encode", "put"} => b \in overlap'
  PROVE  CallFine(serving[s])'
  <1> USE DEF CatalogInv
  <1> DEFINE c == serving[s]
  <1>0. CallFine(c) /\ c \in CatalogCalls
    BY DEF CatalogShape
  <1>1. ASSUME c.pc = "pick" PROVE PickFine(c)'
    BY <1>0, <1>1 DEF CallFine, PickFine, Asked, Suits
  <1>2. ASSUME c.pc = "create" PROVE CreateFine(c)'
    BY <1>0, <1>2 DEF CallFine, CreateFine, Asked, Suits
  <1>3. ASSUME c.pc = "insert" PROVE InsertFine(c)'
    <2>1. InsertFine(c) /\ c.blob # b
      BY <1>0, <1>3 DEF CallFine, In
    <2>2. blob'[c.blob] = blob[c.blob] /\ blobKV'[c.blob] = blobKV[c.blob]
      BY <2>1 DEF InsertFine
    <2> QED BY <2>1, <2>2 DEF InsertFine, Placed, Asked, Suits
  <1>4. ASSUME c.pc \in {"encode", "put"} PROVE ChangeFine(c)'
    <2>1. ChangeFine(c)
      BY <1>0, <1>4 DEF CallFine
    <2>2. CASE c.blob = b
      BY <1>4, <2>1, <2>2 DEF ChangeFine
    <2>3. CASE c.blob # b
      <3>1. blob'[c.blob] = blob[c.blob] /\ blobKV'[c.blob] = blobKV[c.blob]
        BY <2>1, <2>3 DEF ChangeFine
      <3> QED BY <2>1, <3>1 DEF ChangeFine
    <2> QED BY <2>2, <2>3
  <1>5. ASSUME c.pc = "list" PROVE ListFine(c)'
    <2>1. ListFine(c) /\ c.had \subseteq Blobs /\ c.res \subseteq Blobs /\ c.dead \subseteq Blobs
      BY <1>0, <1>5 DEF CallFine, CatalogCalls
    <2>2. ASSUME NEW a \in Blobs, blob[a].status # "none"
          PROVE  /\ blob'[a].status # "none" /\ blob'[a].user = blob[a].user /\ blob'[a].pool = blob[a].pool
                 /\ blob[a].status = "deleted" => blob'[a].status = "deleted"
                 /\ blob'[a].status = "created" => blob[a].status = "created"
      BY <2>2
    <2>3. ASSUME NEW a \in c.had
          PROVE  /\ blob'[a].status # "none" /\ blob'[a].user = c.user
                 /\ blob_valid(a)' /\ Shown(blob[a].pool)' /\ blob'[a].pool \notin c.todo => a \in c.res
      BY <2>1, <2>2, <2>3 DEF ListFine, blob_valid, Shown
    <2>4. ASSUME NEW a \in c.res PROVE blob'[a].status # "none" /\ blob'[a].user = c.user /\ a \notin c.dead
      BY <2>1, <2>2, <2>4 DEF ListFine
    <2>5. ASSUME NEW a \in c.dead PROVE blob'[a].status = "deleted"
      BY <2>1, <2>2, <2>5 DEF ListFine
    <2> QED BY <2>3, <2>4, <2>5 DEF ListFine
  <1> QED BY <1>1, <1>2, <1>3, <1>4, <1>5 DEF CallFine

LEMMA StepEncodeBlob ==
  ASSUME CatalogInv, NEW t \in Handlers, EncodeBlob(t)
  PROVE  CatalogInv'
  <1>1. In(t, "encode") /\ UNCHANGED <<pool, used, blob, blobKV, overlap>>
    BY DEF EncodeBlob
  <1>2. PICK k \in CatalogCalls : k = serving[t]
    BY DEF CatalogInv, CatalogShape
  <1>3. k.pc = "encode" /\ ChangeFine(k) /\ serving \in [Handlers -> CatalogCalls]
    BY <1>1, <1>2 DEF In, CatalogInv, CallFine, CatalogShape
  <1>4. PICK v \in BlobRecs : v = blob[k.blob]
    BY <1>3 DEF ChangeFine, CatalogInv, CatalogShape
  <1> DEFINE c == [k EXCEPT !.pc = "put", !.val = v]
  <1>5. serving' = [serving EXCEPT ![t] = c]
    BY <1>2, <1>3, <1>4 DEF EncodeBlob
  <1>6. c \in CatalogCalls /\ c.pc = "put" /\ c.val = v /\ c.blob = k.blob /\ c.name = k.name /\ c.old = k.old
    BY DEF CatalogCalls
  <1> HIDE DEF c
  <1>7. ChangeFine(c)
    BY <1>3, <1>4, <1>6 DEF ChangeFine
  <1>8. serving' \in [Handlers -> CatalogCalls] /\ serving'[t] = c /\ \A s \in Handlers \ {t} : serving'[s] = serving[s]
    BY <1>3, <1>5, <1>6
  <1>9. CallFine(serving'[t])
    BY <1>6, <1>7, <1>8 DEF CallFine
  <1>10. \A b \in Blobs : Changers(b)' = Changers(b)
    BY <1>2, <1>3, <1>6, <1>8 DEF Changers
  <1> QED BY <1>1, <1>2, <1>3, <1>6, <1>8, <1>9, <1>10, CallStep DEF CatalogInv, NameStored

LEMMA StepCreateblob ==
  ASSUME CatalogInv, NEW t \in Handlers, NEW b \in Blobs, create_blob(t, b)
  PROVE  CatalogInv'
  <1> USE DEF CatalogInv
  <1>1. In(t, "create") /\ blobKV[b].status = "none" /\ UNCHANGED <<pool, used, blob, overlap>>
    BY DEF create_blob
  <1>2. PICK k \in CatalogCalls : k = serving[t]
    BY DEF CatalogShape
  <1>3. k.pc = "create" /\ CreateFine(k) /\ serving \in [Handlers -> CatalogCalls]
    BY <1>1, <1>2 DEF In, CallFine, CatalogShape
  <1> DEFINE v == [k.val EXCEPT !.status = "created", !.pool = k.best]
             c == [NoCall EXCEPT !.pc = "insert", !.blob = b, !.val = v]
  <1>4. CASE Ends(t) /\ UNCHANGED blobKV
    BY <1>1, <1>2, <1>3, <1>4, CallEnds DEF Quiet
  <1>5. CASE blobKV' = [blobKV EXCEPT ![b] = v] /\ serving' = [serving EXCEPT ![t] = c]
    <2>1. v \in BlobRecs /\ v.status = "created" /\ v.pool = k.best /\ v.type = k.val.type /\ v.pb = k.val.pb
          /\ v.retyped = k.val.retyped
      <3>1. PICK w \in BlobRecs : w = k.val
        BY DEF CatalogCalls
      <3>2. v = [w EXCEPT !.status = "created", !.pool = k.best]
        BY <3>1
      <3>3. k.best \in Pools \cup {NoPool}
        BY DEF CatalogCalls
      <3> HIDE DEF v
      <3> QED BY <3>1, <3>2, <3>3 DEF BlobRecs
    <2>2. Placed(v)
      BY <1>3, <2>1 DEF CreateFine, Placed, Asked, Suits
    <2> HIDE DEF v
    <2>3. c \in CatalogCalls /\ c.pc = "insert" /\ c.blob = b /\ c.val = v
      <3>1. PICK n \in CatalogCalls : n = NoCall
        BY NoCallIsCall
      <3>2. c = [n EXCEPT !.pc = "insert", !.blob = b, !.val = v]
        BY <3>1
      <3> HIDE DEF c
      <3> QED BY <2>1, <3>2 DEF CatalogCalls
    <2> HIDE DEF c
    <2>4. serving' \in [Handlers -> CatalogCalls] /\ serving'[t] = c /\ \A s \in Handlers \ {t} : serving'[s] = serving[s]
      BY <1>3, <1>5, <2>3
    <2>5. blobKV' \in [Blobs -> BlobRecs] /\ blobKV'[b] = v /\ \A a \in Blobs \ {b} : blobKV'[a] = blobKV[a]
      BY <1>5, <2>1 DEF CatalogShape
    <2>6. blob[b].status = "none"
      BY <1>1 DEF BlobFine
    <2>7. ASSUME NEW s \in Handlers, serving[s].blob = b
          PROVE  serving[s].pc \notin {"insert", "encode", "put"}
      <3>1. CallFine(serving[s])
        OBVIOUS
      <3> QED BY <3>1, <2>7, <2>6, <1>1 DEF CallFine, InsertFine, ChangeFine
    <2>8. CatalogShape'
      BY <1>1, <2>4, <2>5 DEF CatalogShape
    <2>9. (\A p \in Pools : PoolFine(p))' /\ (\A a \in Blobs : BlobFine(a))'
      BY <1>1, <2>5, <2>1 DEF PoolFine, BlobFine, Placed, Asked, Suits
    <2>10. ASSUME NEW s \in Handlers PROVE CallFine(serving[s])'
      <3>1. CASE s = t
        BY <3>1, <1>1, <2>1, <2>2, <2>3, <2>4, <2>5, <2>6 DEF CallFine, InsertFine, Placed, Asked, Suits
      <3>2. CASE s # t
        BY <3>2, <1>1, <2>4, <2>5, <2>7, Bystander DEF In
      <3> QED BY <3>1, <3>2
    <2>11. OneChanger'
      BY <1>1, <2>3, <2>4, <2>7 DEF OneChanger, In
    <2>12. NameStored'
      <3>1. \A a \in Blobs : Changers(a)' = Changers(a)
        BY <1>2, <1>3, <2>3, <2>4 DEF Changers
      <3> QED BY <1>1, <2>5, <2>6, <3>1 DEF NameStored
    <2> QED BY <2>8, <2>9, <2>10, <2>11, <2>12
  <1> QED BY <1>2, <1>4, <1>5 DEF create_blob

LEMMA StepInsert ==
  ASSUME CatalogInv, NEW t \in Handlers, Insert(t)
  PROVE  CatalogInv'
  <1> USE DEF CatalogInv
  <1>1. In(t, "insert") /\ Ends(t) /\ UNCHANGED <<pool, used, blobKV, overlap>>
    BY DEF Insert
  <1>2. PICK k \in CatalogCalls : k = serving[t]
    BY DEF CatalogShape
  <1>3. k.pc = "insert" /\ InsertFine(k) /\ serving \in [Handlers -> CatalogCalls]
    BY <1>1, <1>2 DEF In, CallFine, CatalogShape
  <1>4. PICK b \in Blobs : b = k.blob
    BY <1>3 DEF InsertFine
  <1>5. PICK v \in BlobRecs : v = k.val
    BY DEF CatalogCalls
  <1>6. /\ blob[b].status = "none" /\ blobKV[b] = v /\ v.status = "created" /\ Placed(v)
    BY <1>3, <1>4, <1>5 DEF InsertFine
  <1>7. blob' \in [Blobs -> BlobRecs] /\ blob'[b] = v /\ \A a \in Blobs \ {b} : blob'[a] = blob[a]
    BY <1>2, <1>4, <1>5 DEF Insert, CatalogShape
  <1>8. serving' \in [Handlers -> CatalogCalls] /\ serving'[t].pc = "none"
        /\ \A s \in Handlers \ {t} : serving'[s] = serving[s]
    BY <1>1, <1>3, NoCallIsCall DEF Ends
  <1>9. ASSUME NEW s \in Handlers \ {t}, serving[s].blob = b
        PROVE  serving[s].pc \notin {"insert", "encode", "put"}
    <2>1. CallFine(serving[s])
      OBVIOUS
    <2> QED BY <2>1, <1>1, <1>2, <1>4, <1>6, <1>9 DEF CallFine, ChangeFine, OneChanger, In
  <1>10. CatalogShape'
    BY <1>1, <1>7, <1>8 DEF CatalogShape
  <1>11. (\A p \in Pools : PoolFine(p))' /\ (\A a \in Blobs : BlobFine(a))'
    BY <1>1, <1>6, <1>7 DEF PoolFine, BlobFine, Placed, Asked, Suits
  <1>12. ASSUME NEW s \in Handlers PROVE CallFine(serving[s])'
    <2>1. CASE s = t
      BY <2>1, <1>8 DEF CallFine
    <2>2. CASE s # t
      BY <2>2, <1>1, <1>6, <1>7, <1>8, <1>9, Bystander DEF In
    <2> QED BY <2>1, <2>2
  <1>13. OneChanger'
    BY <1>1, <1>8 DEF OneChanger, In
  <1>14. NameStored'
    <2>1. \A a \in Blobs : Changers(a)' = Changers(a)
      BY <1>2, <1>3, <1>8 DEF Changers
    <2> QED BY <1>1, <1>6, <1>7, <2>1 DEF NameStored
  <1> QED BY <1>10, <1>11, <1>12, <1>13, <1>14

(* A rename or a deletion that begins while another is under way makes the *)
(* two overlap; otherwise RocksDB has what the blob was before.            *)
LEMMA StepChangeBlob ==
  ASSUME CatalogInv, NEW t \in Handlers, NEW u \in Owners, NEW b \in Blobs, NEW n \in BlobNames \cup {NoName},
         ChangeBlob(t, u, b, n)
  PROVE  CatalogInv'
  <1> USE DEF CatalogInv
  <1>1. /\ serving[t] = NoCall /\ blob[b].status = "created"
        /\ overlap' = overlap \cup (IF Changers(b) # {} THEN {b} ELSE {})
        /\ UNCHANGED <<pool, used, blobKV>>
    BY DEF ChangeBlob, blob_valid
  <1>2. PICK k \in BlobRecs : k = blob[b]
    BY DEF CatalogShape
  <1> DEFINE v == IF n # NoName THEN [k EXCEPT !.name = n] ELSE [k EXCEPT !.status = "deleted"]
             c == [NoCall EXCEPT !.pc = "encode", !.user = u, !.blob = b, !.name = n, !.old = k.name]
  <1>3. /\ v \in BlobRecs /\ v.status \in {"created", "deleted"} /\ v.user = k.user /\ v.pool = k.pool
        /\ v.type = k.type /\ v.pb = k.pb /\ v.retyped = k.retyped
        /\ n # NoName => k = [v EXCEPT !.name = k.name]
    <2>1. k.status = "created"
      BY <1>1, <1>2
    <2>2. CASE n # NoName
      BY <2>1, <2>2 DEF BlobRecs
    <2>3. CASE n = NoName
      BY <2>1, <2>3 DEF BlobRecs
    <2> QED BY <2>2, <2>3
  <1>4. blob' = [blob EXCEPT ![b] = v] /\ serving' = [serving EXCEPT ![t] = c]
    BY <1>2 DEF ChangeBlob, CatalogShape
  <1> HIDE DEF v
  <1>5. c \in CatalogCalls /\ c.pc = "encode" /\ c.blob = b /\ c.name = n /\ c.old = k.name
    <2>1. PICK m \in CatalogCalls : m = NoCall
      BY NoCallIsCall
    <2>2. k.name \in BlobNames \cup {NoName}
      BY DEF BlobRecs
    <2>3. c = [m EXCEPT !.pc = "encode", !.user = u, !.blob = b, !.name = n, !.old = k.name]
      BY <2>1
    <2> HIDE DEF c
    <2> QED BY <2>2, <2>3 DEF CatalogCalls
  <1> HIDE DEF c
  <1>6. serving' \in [Handlers -> CatalogCalls] /\ serving'[t] = c /\ \A s \in Handlers \ {t} : serving'[s] = serving[s]
    BY <1>4, <1>5 DEF CatalogShape
  <1>7. blob' \in [Blobs -> BlobRecs] /\ blob'[b] = v /\ \A a \in Blobs \ {b} : blob'[a] = blob[a]
    BY <1>3, <1>4 DEF CatalogShape
  <1>8. overlap \subseteq overlap' /\ overlap' \subseteq Blobs /\ \A a \in Blobs \ {b} : a \in overlap' => a \in overlap
    BY <1>1 DEF CatalogShape
  <1>9. ASSUME NEW s \in Handlers, serving[s].blob = b
        PROVE  ~ In(s, "insert") /\ (serving[s].pc \in {"encode", "put"} => b \in overlap')
    <2>1. CallFine(serving[s])
      OBVIOUS
    <2>2. ~ In(s, "insert")
      BY <2>1, <1>1, <1>9 DEF CallFine, InsertFine, In
    <2>3. ASSUME serving[s].pc \in {"encode", "put"} PROVE b \in overlap'
      BY <2>3, <1>1, <1>9 DEF Changers
    <2> QED BY <2>2, <2>3
  <1>10. CatalogShape'
    BY <1>1, <1>6, <1>7, <1>8 DEF CatalogShape
  <1>11. (\A p \in Pools : PoolFine(p))' /\ (\A a \in Blobs : BlobFine(a))'
    <2>1. BlobFine(b) /\ blob[b].status # "none"
      BY <1>1
    <2>2. BlobFine(b)'
      BY <2>1, <1>1, <1>2, <1>3, <1>7 DEF BlobFine, Placed, Asked, Suits
    <2> QED BY <2>2, <1>1, <1>7 DEF PoolFine, BlobFine, Placed, Asked, Suits
  <1>12. ASSUME NEW s \in Handlers PROVE CallFine(serving[s])'
    <2>1. CASE s = t
      <3>1. ASSUME b \notin overlap', n # NoName PROVE blobKV[b] = [v EXCEPT !.name = k.name]
        <4>1. b \notin overlap /\ Changers(b) = {}
          BY <3>1, <1>1
        <4>2. blobKV[b] = k
          BY <4>1, <1>1, <1>2 DEF NameStored
        <4> QED BY <3>1, <4>2, <1>3
      <3>2. ChangeFine(serving[t])'
        BY <3>1, <1>1, <1>3, <1>5, <1>6, <1>7 DEF ChangeFine
      <3> QED BY <2>1, <3>2, <1>5, <1>6 DEF CallFine
    <2>2. CASE s # t
      <3>1. /\ blob'[b].status # "none" /\ blob'[b].user = blob[b].user /\ blob'[b].pool = blob[b].pool
        BY <1>2, <1>3, <1>7
      <3> QED BY <2>2, <3>1, <1>1, <1>6, <1>7, <1>8, <1>9, Bystander
    <2> QED BY <2>1, <2>2
  <1>13. OneChanger'
    BY <1>5, <1>6, <1>8, <1>9 DEF OneChanger, In
  <1>14. NameStored'
    <2>1. t \in Changers(b)'
      BY <1>5, <1>6 DEF Changers
    <2>2. ASSUME NEW a \in Blobs, Changers(a)' = {} PROVE Changers(a) = {}
      <3>1. serving[t].pc = "none"
        BY <1>1, NoCallIsCall
      <3>2. \A s \in Handlers : s \in Changers(a) => s \in Changers(a)'
        BY <3>1, <1>6 DEF Changers
      <3> QED BY <2>2, <3>2 DEF Changers
    <2>3. ASSUME NEW a \in Blobs, a \notin overlap', Changers(a)' = {}, blob'[a].status # "none"
          PROVE  blob'[a] = blobKV'[a]
      BY <2>1, <2>2, <2>3, <1>1, <1>7, <1>8 DEF NameStored
    <2> QED BY <2>3 DEF NameStored
  <1> QED BY <1>10, <1>11, <1>12, <1>13, <1>14

(* The write: of a call that is alone on its blob it stores what the map   *)
(* has, or takes the name back, or marks the blob.                         *)
LEMMA StepPutBlob ==
  ASSUME CatalogInv, NEW t \in Handlers, PutBlob(t)
  PROVE  CatalogInv'
  <1> USE DEF CatalogInv
  <1>1. In(t, "put") /\ Ends(t) /\ UNCHANGED <<pool, used>>
    BY DEF PutBlob
  <1>2. PICK k \in CatalogCalls : k = serving[t]
    BY DEF CatalogShape
  <1>3. k.pc = "put" /\ ChangeFine(k) /\ serving \in [Handlers -> CatalogCalls]
    BY <1>1, <1>2 DEF In, CallFine, CatalogShape
  <1>4. PICK b \in Blobs : b = k.blob
    BY <1>3 DEF ChangeFine
  <1>5. PICK w \in BlobRecs : w = blob[b]
    BY DEF CatalogShape
  <1>6. PICK ok \in BOOLEAN :
          /\ blobKV' = IF ok THEN [blobKV EXCEPT ![b] = k.val] ELSE blobKV
          /\ blob' = IF ok \/ k.name = NoName THEN blob ELSE [blob EXCEPT ![b].name = k.old]
          /\ overlap' = IF ok \/ k.name # NoName THEN overlap ELSE overlap \cup {b}
    BY <1>2, <1>4 DEF PutBlob
  <1> DEFINE v == IF ok \/ k.name = NoName THEN w ELSE [w EXCEPT !.name = k.old]
  <1>7. /\ v \in BlobRecs /\ v.status = w.status /\ v.user = w.user /\ v.pool = w.pool
        /\ v.type = w.type /\ v.pb = w.pb /\ v.retyped = w.retyped
    <2>1. k.old \in BlobNames \cup {NoName}
      BY DEF CatalogCalls
    <2> QED BY <2>1 DEF BlobRecs
  <1>8. blob' \in [Blobs -> BlobRecs] /\ blob'[b] = v /\ \A a \in Blobs \ {b} : blob'[a] = blob[a]
    BY <1>5, <1>6, <1>7 DEF CatalogShape
  <1>9. blobKV' \in [Blobs -> BlobRecs] /\ blobKV'[b] = (IF ok THEN k.val ELSE blobKV[b])
        /\ \A a \in Blobs \ {b} : blobKV'[a] = blobKV[a]
    <2>1. k.val \in BlobRecs
      BY DEF CatalogCalls
    <2> QED BY <1>6, <2>1 DEF CatalogShape
  <1>10. overlap \subseteq overlap' /\ overlap' \subseteq Blobs /\ \A a \in Blobs \ {b} : a \in overlap' => a \in overlap
    BY <1>6 DEF CatalogShape
  <1>11. serving' \in [Handlers -> CatalogCalls] /\ serving'[t].pc = "none"
         /\ \A s \in Handlers \ {t} : serving'[s] = serving[s]
    BY <1>1, <1>3, NoCallIsCall DEF Ends
  <1>12. blob[b].status # "none" /\ k.val.status # "none" /\ blobKV[b].status # "none"
    BY <1>3, <1>4 DEF ChangeFine, BlobFine
  <1>13. ASSUME NEW s \in Handlers \ {t}, serving[s].blob = b
         PROVE  ~ In(s, "insert") /\ (serving[s].pc \in {"encode", "put"} => b \in overlap)
    <2>1. CallFine(serving[s])
      OBVIOUS
    <2>2. ~ In(s, "insert")
      BY <2>1, <1>12, <1>13 DEF CallFine, InsertFine, In
    <2>3. serving[s].pc \in {"encode", "put"} => b \in overlap
      BY <1>2, <1>3, <1>4, <1>13 DEF OneChanger
    <2> QED BY <2>2, <2>3
  <1>14. CatalogShape'
    BY <1>1, <1>8, <1>9, <1>10, <1>11 DEF CatalogShape
  <1>15. (\A p \in Pools : PoolFine(p))' /\ (\A a \in Blobs : BlobFine(a))'
    <2>1. BlobFine(b)'
      <3>1. Placed(w)
        BY <1>5, <1>12 DEF BlobFine
      <3>2. Placed(v)'
        BY <3>1, <1>1, <1>7 DEF Placed, Asked, Suits
      <3> HIDE DEF v
      <3> QED BY <3>2, <1>8, <1>9, <1>12 DEF BlobFine, Placed, Asked, Suits
    <2> QED BY <2>1, <1>1, <1>8, <1>9 DEF PoolFine, BlobFine, Placed, Asked, Suits
  <1> HIDE DEF v
  <1>16. ASSUME NEW s \in Handlers PROVE CallFine(serving[s])'
    <2>1. CASE s = t
      BY <2>1, <1>11 DEF CallFine
    <2>2. CASE s # t
      BY <2>2, <1>1, <1>5, <1>7, <1>8, <1>9, <1>10, <1>11, <1>13, Bystander
    <2> QED BY <2>1, <2>2
  <1>17. OneChanger'
    BY <1>10, <1>11 DEF OneChanger, In
  <1>18. NameStored'
    <2>1. ASSUME b \notin overlap' PROVE blob'[b] = blobKV'[b]
      <3>1. b \notin overlap /\ k.val = w /\ (k.name # NoName => blobKV[b] = [w EXCEPT !.name = k.old])
            /\ (ok \/ k.name # NoName)
        BY <2>1, <1>3, <1>4, <1>5, <1>6, <1>10 DEF ChangeFine
      <3> QED BY <3>1, <1>8, <1>9 DEF v
    <2>2. ASSUME NEW a \in Blobs \ {b} PROVE Changers(a)' = Changers(a)
      BY <1>2, <1>3, <1>4, <1>11, <2>2 DEF Changers
    <2>3. ASSUME NEW a \in Blobs, a \notin overlap', Changers(a)' = {}, blob'[a].status # "none"
          PROVE  blob'[a] = blobKV'[a]
      BY <2>1, <2>2, <2>3, <1>8, <1>9, <1>10 DEF NameStored
    <2> QED BY <2>3 DEF NameStored
  <1> QED BY <1>14, <1>15, <1>16, <1>17, <1>18

-----------------------------------------------------------------------------
LEMMA CatalogStep ==
  ASSUME CatalogInv, [CatalogNext]_catalogVars
  PROVE  CatalogInv'
  <1>1. ASSUME NEW p \in Pools, InitPool(p) \/ DeletePool(p) PROVE CatalogInv'
    BY <1>1, StepPoolStatus
  <1>2. ASSUME NEW p \in Pools, NEW ty \in PoolTypes, CreatePool(p, ty) PROVE CatalogInv'
    BY <1>2, StepCreatePool
  <1>2a. ASSUME NEW p \in Pools, NEW ty \in PoolTypes, UpdatePool(p, ty) PROVE CatalogInv'
    BY <1>2a, StepUpdatePool
  <1>3. ASSUME NEW p \in Pools, NEW n \in 0 .. Capacity[p], update_es(p, n) PROVE CatalogInv'
    BY <1>3, StepUpdateEs
  <1>4. ASSUME NEW t \in Walkers, NEW u \in Owners, NEW ty \in BlobTypes, CreateBlob(t, u, ty) PROVE CatalogInv'
    BY <1>4, StepCreateBlob, CatalogAssumption
  <1>5. ASSUME NEW t \in Handlers, NEW p \in Pools, get_pool(t, p) PROVE CatalogInv'
    BY <1>5, StepGetPool
  <1>6. ASSUME NEW t \in Handlers, NEW p \in Pools, list_blobs(t, p) PROVE CatalogInv'
    BY <1>6, StepListblobs
  <1>7. ASSUME NEW t \in Handlers, NEW b \in Blobs, create_blob(t, b) PROVE CatalogInv'
    BY <1>7, StepCreateblob
  <1>8. ASSUME NEW t \in Walkers, NEW u \in Owners, ListBlobs(t, u) PROVE CatalogInv'
    BY <1>8, StepListBlobs, CatalogAssumption
  <1>9. ASSUME NEW t \in Handlers, NEW u \in Owners, NEW b \in Blobs, NEW n \in BlobNames, RenameBlob(t, u, b, n)
        PROVE  CatalogInv'
    BY <1>9, StepChangeBlob DEF RenameBlob
  <1>10. ASSUME NEW t \in Handlers, NEW u \in Owners, NEW b \in Blobs, DeleteBlob(t, u, b) PROVE CatalogInv'
    BY <1>10, StepChangeBlob DEF DeleteBlob
  <1>11. ASSUME NEW t \in Handlers, Picked(t) \/ Insert(t) \/ Listed(t) \/ EncodeBlob(t) \/ PutBlob(t)
         PROVE  CatalogInv'
    BY <1>11, StepPicked, StepInsert, StepListed, StepEncodeBlob, StepPutBlob
  <1>12. CASE UNCHANGED catalogVars
    <2>1. UNCHANGED <<pool, used, blob, blobKV, serving, overlap>>
      BY <1>12 DEF catalogVars
    <2>2. \A b \in Blobs : Changers(b)' = Changers(b)
      BY <2>1 DEF Changers
    <2> QED
      BY <2>1, <2>2 DEF CatalogInv, CatalogShape, PoolFine, BlobFine, CallFine, PickFine, CreateFine, InsertFine,
                        ChangeFine, ListFine, Placed, Asked, Suits, blob_valid, Shown, OneChanger, In, NameStored
  <1> QED BY <1>1, <1>2, <1>2a, <1>3, <1>4, <1>5, <1>6, <1>7, <1>8, <1>9, <1>10, <1>11, <1>12 DEF CatalogNext

(* For any pools, users, blobs and workers: whatever pools, servers and    *)
(* other calls do between two steps of a walk, the invariant holds.        *)
THEOREM CatalogInvariance == CatalogSpec => []CatalogInv
  <1>1. CatalogInit => CatalogInv
    BY CatalogStarts
  <1>2. CatalogInv /\ [CatalogNext]_catalogVars => CatalogInv'
    BY CatalogStep
  <1> QED BY <1>1, <1>2, PTL DEF CatalogSpec

(* What clients are told of pools and blobs, for any pools, users, blobs   *)
(* and workers: queries answer what was asked for, get_pool passes no      *)
(* unchanged pool over for a fuller one, a listing has every blob that     *)
(* stayed and none that was deleted before it, and RocksDB has what        *)
(* QueryBlob shows of a blob that no two calls changed at once.            *)
THEOREM ClientsToldRight == CatalogSpec => []CatalogAsTold
  <1>1. CatalogInv => CatalogAsTold
    BY InvAsTold
  <1> QED BY <1>1, CatalogInvariance, PTL

-----------------------------------------------------------------------------
(* The access layer.  What is kept for a set is an address on one of the   *)
(* hosts its manager may be started on.                                    *)
Homed(s, a) == a \in Addrs /\ a[1] \in Hosts[s]
Ips == {a[1] : a \in Addrs}
RouteRecs == [set : Sets \cup {NoSet}, at : Addrs \cup {NoAddr}]
Beats == [recent : BOOLEAN, at : Addrs \cup {NoAddr}]
Requests == [op  : {"none", "create", "delete", "other", "set"},
             pc  : {"none", "query", "insert", "channel", "call", "erase"},
             uid : Uids \cup {"none"},
             to  : RouteRecs]

(* Where the managers listen, and where the set manager and SetMgr think   *)
(* they do.                                                                *)
SetsOK ==
  /\ addr \in [Sets -> Addrs] /\ \A s \in Sets : Homed(s, addr[s])
  /\ last \in [Sets -> Beats]
  /\ \A s \in Sets : last[s] = Unknown \/ Homed(s, last[s].at)
  /\ routes \in [Sets -> Addrs \cup {NoAddr}]
  /\ \A s \in Sets : routes[s] = NoAddr \/ Homed(s, routes[s])

(* A user without a set is one that was never made.                        *)
RecordsOK ==
  /\ record \in [Uids -> [set : Sets \cup {NoSet}, status : {"none", "created", "deleted", "collected"}]]
  /\ \A u \in Uids : record[u].set = NoSet => record[u].status = "none"

(* user_map_ has the user's set, or one that shares its host, and a host   *)
(* of it.                                                                  *)
UsersOK ==
  /\ users \in [Uids -> RouteRecs]
  /\ \A u \in Uids : users[u] # NoRoute =>
       /\ users[u].set \in Sets /\ record[u].set # NoSet
       /\ SameOrShared(users[u].set, record[u].set, users[u].at[1])
       /\ Homed(users[u].set, users[u].at)

(* The channel kept for an ip leads to that ip.                            *)
ChanOK ==
  /\ chan \in [Ips -> Addrs \cup {NoAddr}]
  /\ \A h \in Ips : chan[h] = NoAddr \/ (chan[h] \in Addrs /\ chan[h][1] = h)

(* A request on its way has the address of its set; one that is about to   *)
(* enter a user into the cache has the user's set, and one that is about   *)
(* to remove a user from it was told by the manager that the user is gone. *)
RequestOK(r) ==
  /\ r \in Requests
  /\ r.op \in {"delete", "set"} \/ r.pc \in {"query", "insert", "erase"} => r.uid \in Uids
  /\ r.pc \in {"insert", "channel", "call"} => r.to.set \in Sets /\ Homed(r.to.set, r.to.at)
  /\ r.pc = "insert" => /\ record[r.uid].set # NoSet
                        /\ SameOrShared(r.to.set, record[r.uid].set, r.to.at[1])
  /\ r.pc = "erase" => record[r.uid].status \in {"deleted", "collected"}
ReqOK == req \in [Workers -> Requests] /\ \A w \in Workers : RequestOK(req[w])

ToldOK == toldOk \in [created : SUBSET Uids, deleted : SUBSET Uids] /\ OkMeansDone

(* The inductive invariant.                                                *)
AccessInv == SetsOK /\ RecordsOK /\ UsersOK /\ ChanOK /\ ReqOK /\ ToldOK

(* No user changes its set, and none that is deleted comes back.           *)
UsersStay ==
  /\ \A u \in Uids : record[u].set # NoSet => record'[u].set = record[u].set
  /\ \A u \in Uids : record[u].status \in {"deleted", "collected"} =>
       record'[u].status \in {"deleted", "collected"}

-----------------------------------------------------------------------------
(* What the invariant is for: a channel that was taken for the ip of one   *)
(* set's manager leads to another's only if that may run there too.        *)
LEMMA InvGivesRight == AccessInv => RightManager
<1> SUFFICES ASSUME AccessInv PROVE RightManager
  OBVIOUS
<1> USE DEF AccessInv
<1>1. AccessTypes
  BY DEF AccessTypes, SetsOK, Beats, RecordsOK, UsersOK, RouteRecs
<1>2. CachedSetRight /\ OkMeansDone
  BY DEF CachedSetRight, UsersOK, ToldOK
<1>3. ReachesItsSet
  <2> SUFFICES ASSUME NEW w \in Workers, req[w].pc = "call", NEW s \in Sets,
                      addr[s] = chan[req[w].to.at[1]]
               PROVE  SameOrShared(req[w].to.set, s, req[w].to.at[1])
    BY DEF ReachesItsSet, Reached
  <2>1. PICK t, a : t = req[w].to.set /\ a = req[w].to.at
    OBVIOUS
  <2>2. t \in Sets /\ Homed(t, a)
    BY <2>1 DEF ReqOK, RequestOK
  <2>3. a[1] \in Ips
    BY <2>2 DEF Homed, Ips
  <2>4. Homed(s, addr[s])
    BY DEF SetsOK
  <2>5. chan[a[1]] # NoAddr
    BY <2>1, <2>4, SetsPlaced DEF Homed
  <2>6. addr[s][1] = a[1]
    BY <2>1, <2>3, <2>5 DEF ChanOK
  <2>7. a[1] \in Hosts[s] /\ a[1] \in Hosts[t]
    BY <2>2, <2>4, <2>6 DEF Homed
  <2> QED
    BY <2>1, <2>7 DEF SameOrShared
<1> QED
  BY <1>1, <1>2, <1>3 DEF RightManager

(* Nothing is kept at the start.                                           *)
LEMMA AccessStart == AccessInit => AccessInv
<1> SUFFICES ASSUME AccessInit PROVE AccessInv
  OBVIOUS
<1> USE DEF AccessInit
<1>1. SetsOK
  BY SetsPlaced DEF SetsOK, Beats, Homed, Unknown
<1>2. RecordsOK
  BY DEF RecordsOK
<1>3. UsersOK
  BY DEF UsersOK, NoRoute, RouteRecs
<1>4. ChanOK
  BY DEF ChanOK, Ips
<1>5. ReqOK
  BY DEF ReqOK, RequestOK, Requests, RouteRecs, NoRequest, NoRoute
<1>6. ToldOK
  BY DEF ToldOK, OkMeansDone
<1> QED
  BY <1>1, <1>2, <1>3, <1>4, <1>5, <1>6 DEF AccessInv

(* NoRequest is a request on no way.                                       *)
LEMMA NoneOK ==
  /\ NoRequest \in Requests /\ NoRequest.pc = "none" /\ NoRequest.op = "none"
  /\ RequestOK(NoRequest) /\ RequestOK(NoRequest)'
BY DEF Requests, RouteRecs, NoRequest, NoRoute, RequestOK

(* The users of a set that stays, and requests that are not touched.       *)
LEMMA UsersKept ==
  ASSUME AccessInv, UsersStay
  PROVE  /\ \A w \in Workers : RequestOK(req[w])'  \/ req'[w] # req[w]
         /\ users' = users => UsersOK'
<1> USE DEF AccessInv
<1>1. ASSUME NEW w \in Workers, req'[w] = req[w]
      PROVE  RequestOK(req[w])'
  <2>1. RequestOK(req[w]) /\ req[w] \in Requests
    BY DEF ReqOK
  <2>2. req[w].pc = "insert" => record[req[w].uid].set # NoSet /\ req[w].uid \in Uids
    BY <2>1, SetsPlaced DEF RequestOK
  <2> QED
    BY <1>1, <2>1, <2>2 DEF RequestOK, UsersStay, Homed
<1>2. ASSUME users' = users
      PROVE  UsersOK'
  BY <1>2, SetsPlaced DEF UsersOK, UsersStay, Homed
<1> QED
  BY <1>1, <1>2

(* A worker takes the request r, the others keep theirs.                   *)
LEMMA TakesRequest ==
  ASSUME AccessInv, UsersStay, NEW w \in Workers, NEW r, RequestOK(r)',
         req' = [req EXCEPT ![w] = r]
  PROVE  ReqOK'
<1>1. r \in Requests /\ req \in [Workers -> Requests]
  BY DEF RequestOK, AccessInv, ReqOK
<1>2. req' \in [Workers -> Requests]
  BY <1>1
<1>3. ASSUME NEW v \in Workers
      PROVE  RequestOK(req[v])'
  <2>1. CASE v = w
    BY <1>1, <2>1
  <2>2. CASE v # w
    BY <1>1, <2>2, UsersKept
  <2> QED
    BY <2>1, <2>2
<1> QED
  BY <1>2, <1>3 DEF ReqOK

(* Users and requests are left alone.                                      *)
LEMMA UsersSame ==
  ASSUME AccessInv, UNCHANGED record
  PROVE  /\ UsersStay /\ RecordsOK'
         /\ UNCHANGED req => ReqOK'
         /\ UNCHANGED toldOk => ToldOK'
         /\ UNCHANGED users => UsersOK'
<1>1. UsersStay /\ RecordsOK'
  BY DEF UsersStay, AccessInv, RecordsOK
<1>2. UNCHANGED toldOk => ToldOK'
  BY DEF AccessInv, ToldOK, OkMeansDone
<1>3. UNCHANGED req => ReqOK'
  BY <1>1, UsersKept DEF AccessInv, ReqOK
<1>4. UNCHANGED users => UsersOK'
  BY <1>1, UsersKept
<1> QED
  BY <1>1, <1>2, <1>3, <1>4

-----------------------------------------------------------------------------
(* Heartbeats, silence, moves, restarts of the set manager and the access  *)
(* layer's timer.                                                          *)
LEMMA SetsKeep ==
  ASSUME AccessInv, NEW s \in Sets,
         ReportSetHeartbeat(s) \/ Obsolete(s) \/ Move(s) \/ SetManagerRestarts \/ UpdateSets
  PROVE  AccessInv'
<1> USE DEF AccessInv
<1>1. UNCHANGED <<record, users, chan, req, toldOk>>
  BY DEF ReportSetHeartbeat, Obsolete, Move, SetManagerRestarts, UpdateSets, manager, access
<1>2. RecordsOK' /\ UsersOK' /\ ReqOK' /\ ToldOK'
  BY <1>1, UsersSame
<1>3. ChanOK'
  BY <1>1 DEF ChanOK, Ips
<1>4. SetsOK'
  <2>0. ASSUME NEW b, b \in Beats, Homed(s, b.at), UNCHANGED <<addr, routes>>, last' = [last EXCEPT ![s] = b]
        PROVE  SetsOK'
    <3>1. last' \in [Sets -> Beats] /\ last'[s] = b /\ \A t \in Sets : t # s => last'[t] = last[t]
      BY <2>0 DEF SetsOK
    <3> QED
      BY <2>0, <3>1 DEF SetsOK, Homed
  <2>1. CASE ReportSetHeartbeat(s)
    <3>1. PICK b : b = [recent |-> TRUE, at |-> addr[s]]
      OBVIOUS
    <3>2. UNCHANGED <<addr, routes>> /\ (last' = last \/ last' = [last EXCEPT ![s] = b])
      BY <2>1, <3>1 DEF ReportSetHeartbeat, Receive, AddSet, manager, access
    <3>3. b \in Beats /\ Homed(s, b.at)
      BY <3>1 DEF SetsOK, Beats, Homed
    <3>4. CASE last' = last
      BY <3>2, <3>4 DEF SetsOK, Homed
    <3> QED
      BY <2>0, <3>2, <3>3, <3>4
  <2>2. CASE Obsolete(s)
    <3>1. PICK l : l = last[s]
      OBVIOUS
    <3>2. PICK b : b = [l EXCEPT !.recent = FALSE]
      OBVIOUS
    <3>3. UNCHANGED <<addr, routes>> /\ l.recent /\ last' = [last EXCEPT ![s] = b]
      BY <2>2, <3>1, <3>2 DEF Obsolete, manager, access
    <3>4. l \in Beats
      BY <3>1 DEF SetsOK
    <3>5. b \in Beats /\ b.at = l.at
      BY <3>2, <3>4 DEF Beats
    <3>6. l # Unknown
      BY <3>3 DEF Unknown
    <3>7. Homed(s, l.at)
      BY <3>1, <3>6 DEF SetsOK
    <3> QED
      BY <2>0, <3>3, <3>5, <3>7
  <2>3. CASE Move(s)
    <3>1. PICK a \in Addrs : a[1] \in Hosts[s] /\ addr' = [addr EXCEPT ![s] = a]
      BY <2>3 DEF Move
    <3>2. UNCHANGED <<last, routes>>
      BY <2>3 DEF Move, access
    <3> QED
      BY <3>1, <3>2 DEF SetsOK, Homed
  <2>4. CASE SetManagerRestarts
    BY <2>4 DEF SetManagerRestarts, SetsOK, Beats, Homed, Unknown, manager, access
  <2>5. CASE UpdateSets
    <3>1. PICK o \in Outcomes : routes' = [t \in Sets |-> IF o = "answered" /\ t \in List
                                                         THEN last[t].at ELSE NoAddr]
      BY <2>5 DEF UpdateSets
    <3>2. \A t \in Sets : t \in List => Homed(t, last[t].at)
      BY DEF List, ListSets, SetsOK
    <3>3. UNCHANGED <<addr, last>>
      BY <2>5 DEF UpdateSets, manager
    <3>4. \A t \in Sets : routes'[t] = NoAddr \/ Homed(t, routes'[t])
      BY <3>1, <3>2
    <3>5. routes' \in [Sets -> Addrs \cup {NoAddr}]
      BY <3>1, <3>2 DEF Homed
    <3> QED
      BY <3>3, <3>4, <3>5 DEF SetsOK, Homed
  <2> QED
    BY <2>1, <2>2, <2>3, <2>4, <2>5
<1> QED
  BY <1>2, <1>3, <1>4

(* The access layer starts again with empty caches.                        *)
LEMMA AccessRestartKeeps ==
  ASSUME AccessInv, AccessRestarts
  PROVE  AccessInv'
<1> USE DEF AccessInv
<1>1. UNCHANGED <<addr, record, last, toldOk>>
  BY DEF AccessRestarts, manager
<1>2. SetsOK'
  BY <1>1 DEF AccessRestarts, SetsOK, Homed
<1>3. RecordsOK' /\ ToldOK'
  BY <1>1, UsersSame
<1>4. UsersOK'
  BY DEF AccessRestarts, UsersOK, NoRoute, RouteRecs
<1>5. ChanOK'
  BY DEF AccessRestarts, ChanOK
<1>6. ReqOK'
  BY NoneOK DEF AccessRestarts, ReqOK
<1> QED
  BY <1>2, <1>3, <1>4, <1>5, <1>6

(* gc(): the record of a deleted user goes.                                *)
LEMMA GcKeeps ==
  ASSUME AccessInv, NEW s \in Sets, GcUsers(s)
  PROVE  AccessInv'
<1> USE DEF AccessInv
<1>1. UNCHANGED <<addr, last, routes, users, chan, req, toldOk>>
  BY DEF GcUsers, access
<1>2. \A u \in Uids : record'[u] = record[u] \/
        (record[u].status = "deleted" /\ record'[u] = [record[u] EXCEPT !.status = "collected"])
  BY DEF GcUsers
<1>3. \A u \in Uids : record'[u] = record[u] \/
        /\ record[u].status = "deleted"
        /\ record'[u] = [set |-> record[u].set, status |-> "collected"]
  BY <1>2 DEF RecordsOK
<1>4. UsersStay /\ RecordsOK'
  BY <1>3 DEF UsersStay, RecordsOK, GcUsers
<1>5. UsersOK' /\ ReqOK'
  BY <1>1, <1>4, UsersKept DEF ReqOK
<1>6. ToldOK'
  BY <1>1, <1>4 DEF ToldOK, OkMeansDone, UsersStay
<1>7. SetsOK' /\ ChanOK'
  BY <1>1 DEF SetsOK, ChanOK, Homed
<1> QED
  BY <1>4, <1>5, <1>6, <1>7

-----------------------------------------------------------------------------
(* A request that is on its way to the set s at the address a.             *)
LEMMA OnItsWay ==
  ASSUME NEW s \in Sets, NEW a, Homed(s, a)
  PROVE  \A o \in {"create", "other"} :
           RequestOK([NoRequest EXCEPT !.op = o, !.pc = "channel", !.to = [set |-> s, at |-> a]])'
<1> TAKE o \in {"create", "other"}
<1>1. PICK r : r = [NoRequest EXCEPT !.op = o, !.pc = "channel", !.to = [set |-> s, at |-> a]]
  OBVIOUS
<1>2. r = [op |-> o, pc |-> "channel", uid |-> "none", to |-> [set |-> s, at |-> a]]
  BY <1>1 DEF NoRequest
<1>3. r \in Requests /\ r.op = o /\ r.pc = "channel" /\ r.to.set = s /\ r.to.at = a
  BY <1>2 DEF Requests, RouteRecs, Homed
<1> QED
  BY <1>1, <1>3 DEF RequestOK

(* Requests that are taken: the set they name, or the set user_map_ has.   *)
LEMMA TakenKeep ==
  ASSUME AccessInv, NEW w \in Workers,
         UserRequest(w) \/ BlobRequest(w) \/ QueryUserSet(w)
  PROVE  AccessInv'
<1> USE DEF AccessInv
<1>1. \/ RpcCreateUser(w) \/ RpcListUsers(w) \/ QueryUserSet(w)
      \/ \E u \in Uids, op \in {"delete", "other"} : UserCall(w, op, u)
  BY DEF UserRequest, BlobRequest, RpcDeleteUser, RpcUpdateUser, RpcQueryUser, RpcCreateBlob, RpcDeleteBlob,
         RpcRenameBlob, RpcResizeBlob, RpcQueryBlob, RpcListBlobs
<1>2. UNCHANGED <<addr, record, last, routes, users, chan, toldOk>>
  BY <1>1 DEF RpcCreateUser, RpcListUsers, QueryUserSet, UserCall, manager, access
<1>3. UsersStay /\ RecordsOK' /\ ToldOK' /\ UsersOK' /\ SetsOK' /\ ChanOK'
  BY <1>2, UsersSame DEF SetsOK, ChanOK, Homed
<1>4. CASE RpcCreateUser(w)
  <2>0. PICK s \in Sets :
          \E a : /\ (a = routes[s] /\ a # NoAddr) \/ (s \in Allocate /\ a = last[s].at)
                /\ req' = [req EXCEPT ![w] = [NoRequest EXCEPT !.op = "create", !.pc = "channel",
                                                               !.to = [set |-> s, at |-> a]]]
    BY <1>4 DEF RpcCreateUser, QuerySetById
  <2>1. PICK a : /\ (a = routes[s] /\ a # NoAddr) \/ (s \in Allocate /\ a = last[s].at)
                 /\ req' = [req EXCEPT ![w] = [NoRequest EXCEPT !.op = "create", !.pc = "channel",
                                                                !.to = [set |-> s, at |-> a]]]
    BY <2>0
  <2>2. Homed(s, a)
    BY <2>1 DEF SetsOK, Allocate, LeastUsed, ListSets
  <2> QED
    BY <1>3, <2>1, <2>2, OnItsWay, TakesRequest
<1>5. CASE RpcListUsers(w)
  <2>1. PICK s \in Sets : /\ routes[s] # NoAddr
                          /\ req' = [req EXCEPT ![w] = [NoRequest EXCEPT !.op = "other", !.pc = "channel",
                                                                         !.to = [set |-> s, at |-> routes[s]]]]
    BY <1>5 DEF RpcListUsers, QuerySetById
  <2>2. Homed(s, routes[s])
    BY <2>1 DEF SetsOK
  <2> QED
    BY <1>3, <2>1, <2>2, OnItsWay, TakesRequest
<1>6. CASE QueryUserSet(w)
  <2>1. PICK u \in Uids : req' = [req EXCEPT ![w] = [NoRequest EXCEPT !.op = "set", !.uid = u, !.pc = "query"]]
    BY <1>6 DEF QueryUserSet
  <2>2. PICK r : r = [NoRequest EXCEPT !.op = "set", !.uid = u, !.pc = "query"]
    OBVIOUS
  <2>3. r = [op |-> "set", pc |-> "query", uid |-> u, to |-> NoRoute]
    BY <2>2 DEF NoRequest
  <2>4. r \in Requests /\ r.op = "set" /\ r.pc = "query" /\ r.uid = u
    BY <2>3 DEF Requests, RouteRecs, NoRoute
  <2>5. RequestOK(r)'
    BY <2>4 DEF RequestOK
  <2> QED
    BY <1>3, <2>1, <2>2, <2>5, TakesRequest
<1>7. ASSUME NEW u \in Uids, NEW op \in {"delete", "other"}, UserCall(w, op, u)
      PROVE  AccessInv'
  <2>1. PICK x, pc : x = users[u] /\ pc = IF x # NoRoute THEN "channel" ELSE "query"
    OBVIOUS
  <2>2. PICK r : r = [NoRequest EXCEPT !.op = op, !.uid = u, !.to = x, !.pc = pc]
    OBVIOUS
  <2>3. r = [op |-> op, pc |-> pc, uid |-> u, to |-> x]
    BY <2>2 DEF NoRequest
  <2>4. req' = [req EXCEPT ![w] = r]
    BY <1>7, <2>1, <2>2 DEF UserCall
  <2>5. x \in RouteRecs /\ (x # NoRoute => x.set \in Sets /\ Homed(x.set, x.at))
    BY <2>1 DEF UsersOK
  <2>6. r \in Requests
    BY <2>1, <2>3, <2>5 DEF Requests
  <2>7. r.op = op /\ r.pc = pc /\ r.uid = u /\ r.to = x
    BY <2>3
  <2>8. RequestOK(r)'
    BY <2>1, <2>5, <2>6, <2>7 DEF RequestOK
  <2> QED
    BY <1>3, <2>4, <2>8, TakesRequest
<1> QED
  BY <1>1, <1>4, <1>5, <1>6, <1>7

-----------------------------------------------------------------------------
(* A request goes on: to its next step, with its set and its user.         *)
LEMMA NextStep ==
  ASSUME NEW r \in Requests, NEW pc \in {"insert", "channel", "call", "erase"}
  PROVE  LET n == [r EXCEPT !.pc = pc]
         IN  n \in Requests /\ n.pc = pc /\ n.op = r.op /\ n.uid = r.uid /\ n.to = r.to
BY DEF Requests

(* The set of the user is asked for, and remembered.                       *)
LEMMA LookupKeeps ==
  ASSUME AccessInv, NEW w \in Workers, QuerySet(w) \/ InsertUserSet(w)
  PROVE  AccessInv'
<1> USE DEF AccessInv
<1>0. PICK r : r = req[w]
  OBVIOUS
<1>1. r \in Requests /\ RequestOK(r)
  BY <1>0 DEF ReqOK
<1>2. UNCHANGED <<addr, record, last, routes, chan, toldOk>>
  BY DEF QuerySet, InsertUserSet, manager, access
<1>3. UsersStay /\ RecordsOK' /\ ToldOK' /\ SetsOK' /\ ChanOK'
  BY <1>2, UsersSame DEF SetsOK, ChanOK, Homed
<1>4. CASE QuerySet(w)
  <2>1. UsersOK'
    BY <1>2, <1>4, UsersSame DEF QuerySet, access
  <2>2. CASE req' = [req EXCEPT ![w] = NoRequest]
    BY <1>3, <2>1, <2>2, NoneOK, TakesRequest
  <2>3. ASSUME NEW s \in Query(r.uid),
               req' = [req EXCEPT ![w].pc = "insert", ![w].to = [set |-> s, at |-> last[s].at]]
        PROVE  AccessInv'
    <3>1. PICK y : y = [set |-> s, at |-> last[s].at]
      OBVIOUS
    <3>2. PICK n : n = [r EXCEPT !.pc = "insert", !.to = y]
      OBVIOUS
    <3>3. req' = [req EXCEPT ![w] = n]
      BY <1>0, <2>3, <3>1, <3>2 DEF ReqOK
    <3>4. s \in Sets /\ Homed(s, last[s].at) /\ record[r.uid].set # NoSet
          /\ SameOrShared(s, record[r.uid].set, last[s].at[1])
      <4>0. PICK t \in Sets : /\ addr[t] = last[s].at
                              /\ record[r.uid] = [set |-> t, status |-> "created"]
        BY <2>3, Zenon DEF Query, BroadcastRequest
      <4>1. t \in Sets /\ addr[t] = last[s].at /\ record[r.uid].set = t
        BY <4>0
      <4>2. s \in Sets /\ Homed(s, last[s].at) /\ Homed(t, last[s].at)
        BY <2>3, <4>1 DEF Query, BroadcastRequest, ListSets, SetsOK
      <4> QED BY <4>1, <4>2, SetsPlaced DEF Homed, SameOrShared
    <3>5. y \in RouteRecs /\ y.set = s /\ y.at = last[s].at
      BY <3>1, <3>4 DEF RouteRecs, Homed
    <3>6. n \in Requests /\ n.pc = "insert" /\ n.to = y /\ n.uid = r.uid /\ n.op = r.op
      BY <1>1, <3>2, <3>5 DEF Requests
    <3>7. r.uid \in Uids
      BY <1>0, <1>1, <1>4 DEF QuerySet, RequestOK
    <3>8. RequestOK(n)'
      BY <1>2, <3>4, <3>5, <3>6, <3>7 DEF RequestOK
    <3> QED
      BY <1>3, <2>1, <3>3, <3>8, TakesRequest
  <2> QED
    BY <1>0, <1>4, <2>2, <2>3 DEF QuerySet
<1>5. CASE InsertUserSet(w)
  <2>1. PICK n : n = [r EXCEPT !.pc = "channel"]
    OBVIOUS
  <2>2. req' = [req EXCEPT ![w] = n]
    BY <1>0, <1>5, <2>1 DEF InsertUserSet, ReqOK
  <2>3. n \in Requests /\ n.pc = "channel" /\ n.to = r.to /\ n.uid = r.uid /\ n.op = r.op
    BY <1>1, <2>1, NextStep
  <2>4. /\ r.pc = "insert" /\ r.uid \in Uids
        /\ r.to.set \in Sets /\ Homed(r.to.set, r.to.at)
        /\ record[r.uid].set # NoSet /\ SameOrShared(r.to.set, record[r.uid].set, r.to.at[1])
    BY <1>0, <1>1, <1>5 DEF InsertUserSet, RequestOK
  <2>5. RequestOK(n)'
    BY <2>3, <2>4 DEF RequestOK
  <2>6. ReqOK'
    BY <1>3, <2>2, <2>5, TakesRequest
  <2>7. PICK u, y : u = r.uid /\ y = r.to
    OBVIOUS
  <2>8. users' = [users EXCEPT ![u] = y] /\ y \in RouteRecs
    BY <1>0, <1>1, <1>5, <2>7 DEF InsertUserSet, Requests
  <2>9. UsersOK'
    BY <1>2, <2>4, <2>7, <2>8 DEF UsersOK, Homed
  <2> QED
    BY <1>3, <2>6, <2>9
<1> QED
  BY <1>4, <1>5

(* A channel is taken or opened, to the ip of the request's address.       *)
LEMMA ChannelKeeps ==
  ASSUME AccessInv, NEW w \in Workers, GetChannel(w)
  PROVE  AccessInv'
<1> USE DEF AccessInv
<1>0. PICK r, a : r = req[w] /\ a = r.to.at
  OBVIOUS
<1>1. r \in Requests /\ RequestOK(r)
  BY <1>0 DEF ReqOK
<1>2. UNCHANGED <<addr, record, last, routes, users, toldOk>>
  BY DEF GetChannel, manager
<1>3. UsersStay /\ RecordsOK' /\ ToldOK' /\ UsersOK' /\ SetsOK'
  BY <1>2, UsersSame DEF SetsOK, Homed
<1>4. r.pc = "channel" /\ r.to.set \in Sets /\ Homed(r.to.set, a)
  BY <1>0, <1>1 DEF GetChannel, RequestOK
<1>5. chan' = chan \/ chan' = [chan EXCEPT ![a[1]] = a]
  BY <1>0 DEF GetChannel, InitChannel
<1>6. ChanOK'
  BY <1>4, <1>5 DEF ChanOK, Homed, Ips
<1>7. PICK n : n = [r EXCEPT !.pc = "call"]
  OBVIOUS
<1>8. req' = [req EXCEPT ![w] = n]
  BY <1>0, <1>7 DEF GetChannel, ReqOK
<1>9. n \in Requests /\ n.pc = "call" /\ n.to = r.to /\ n.uid = r.uid /\ n.op = r.op
  BY <1>1, <1>7, NextStep
<1>10. RequestOK(n)'
  BY <1>0, <1>1, <1>4, <1>9 DEF RequestOK
<1> QED
  BY <1>3, <1>6, <1>8, <1>10, TakesRequest

-----------------------------------------------------------------------------
(* CreateUser comes to a manager: only a user without a set gets one.      *)
LEMMA CreateCallKeeps ==
  ASSUME AccessInv, NEW w \in Workers, CallCreate(w)
  PROVE  AccessInv'
<1> USE DEF AccessInv
<1>1. UNCHANGED <<addr, last, routes, users, chan>> /\ req' = [req EXCEPT ![w] = NoRequest]
  BY DEF CallCreate, access
<1>2. PICK o \in CallOutcomes(w), u \in Uids :
        /\ record[u].set = NoSet
        /\ record' = IF o = "unsent" THEN record
                   ELSE [record EXCEPT ![u] = [set |-> CHOOSE s \in Reached(w) : TRUE, status |-> "created"]]
        /\ toldOk' = IF o = "answered" THEN [toldOk EXCEPT !.created = @ \cup {u}] ELSE toldOk
  BY DEF CallCreate
<1>3. PICK s : s = CHOOSE t \in Reached(w) : TRUE
  OBVIOUS
<1>4. o # "unsent" => s \in Sets
  BY <1>3 DEF CallOutcomes, Reached
<1>5. CASE o = "unsent"
  <2>1. UNCHANGED <<record, toldOk>>
    BY <1>2, <1>5
  <2> QED
    BY <1>1, <2>1, UsersSame, NoneOK, TakesRequest DEF SetsOK, ChanOK, Homed
<1>6. CASE o # "unsent"
  <2>1. record' = [record EXCEPT ![u] = [set |-> s, status |-> "created"]] /\ s \in Sets
    BY <1>2, <1>3, <1>4, <1>6
  <2>2. UsersStay /\ RecordsOK'
    <3>1. PICK v : v = [set |-> s, status |-> "created"]
      OBVIOUS
    <3>2. v.set = s /\ v.set # NoSet
          /\ v \in [set : Sets \cup {NoSet}, status : {"none", "created", "deleted", "collected"}]
      BY <2>1, <3>1, SetsPlaced
    <3>3. record' = [record EXCEPT ![u] = v]
      BY <2>1, <3>1
    <3>4. RecordsOK'
      BY <3>2, <3>3 DEF RecordsOK
    <3>5. record[u].set = NoSet /\ record[u].status = "none"
      BY <1>2 DEF RecordsOK
    <3>6. \A x \in Uids : x # u => record'[x] = record[x]
      BY <3>3 DEF RecordsOK
    <3> QED
      BY <3>4, <3>5, <3>6 DEF UsersStay
  <2>3. UsersOK' /\ ReqOK'
    BY <1>1, <2>2, UsersKept, NoneOK, TakesRequest
  <2>4. toldOk'.created \subseteq toldOk.created \cup {u} /\ toldOk'.deleted = toldOk.deleted
        /\ toldOk' \in [created : SUBSET Uids, deleted : SUBSET Uids]
    BY <1>2 DEF ToldOK
  <2>5. record'[u].set # NoSet
    BY <2>1, SetsPlaced DEF RecordsOK
  <2>6. ToldOK'
    BY <2>2, <2>4, <2>5 DEF ToldOK, OkMeansDone, UsersStay
  <2>7. SetsOK' /\ ChanOK'
    BY <1>1 DEF SetsOK, ChanOK, Homed
  <2> QED
    BY <2>2, <2>3, <2>6, <2>7
<1> QED
  BY <1>5, <1>6

(* DeleteUser comes to a manager: the user it names is marked, and an OK   *)
(* leads to the removal from the cache.                                    *)
LEMMA DeleteCallKeeps ==
  ASSUME AccessInv, NEW w \in Workers, CallDelete(w)
  PROVE  AccessInv'
<1> USE DEF AccessInv
<1>0. PICK r, u : r = req[w] /\ u = r.uid
  OBVIOUS
<1>1. r \in Requests /\ RequestOK(r) /\ r.op = "delete" /\ u \in Uids
  BY <1>0 DEF ReqOK, CallDelete, RequestOK
<1>2. UNCHANGED <<addr, last, routes, users, chan, toldOk>>
  BY DEF CallDelete, access
<1>3. SetsOK' /\ ChanOK'
  BY <1>2 DEF SetsOK, ChanOK, Homed
<1>4. PICK o \in CallOutcomes(w), there \in BOOLEAN :
        /\ there => record[u].set \in Reached(w) /\ record[u].status \in {"created", "deleted"}
        /\ record' = IF o # "unsent" /\ there THEN [record EXCEPT ![u].status = "deleted"] ELSE record
        /\ req' = IF o = "answered" /\ there THEN [req EXCEPT ![w].pc = "erase"]
                  ELSE [req EXCEPT ![w] = NoRequest]
  <2>1. PICK p \in CallOutcomes(w) :
          LET th == record[u].set \in Reached(w) /\ record[u].status \in {"created", "deleted"}
          IN  /\ record' = IF p # "unsent" /\ th THEN [record EXCEPT ![u].status = "deleted"] ELSE record
              /\ req' = IF p = "answered" /\ th THEN [req EXCEPT ![w].pc = "erase"]
                        ELSE [req EXCEPT ![w] = NoRequest]
    BY <1>0 DEF CallDelete
  <2>2. CASE record[u].set \in Reached(w) /\ record[u].status \in {"created", "deleted"}
    <3> WITNESS p \in CallOutcomes(w), TRUE \in BOOLEAN
    <3> QED
      BY <2>1, <2>2
  <2>3. CASE ~ (record[u].set \in Reached(w) /\ record[u].status \in {"created", "deleted"})
    <3> WITNESS p \in CallOutcomes(w), FALSE \in BOOLEAN
    <3> QED
      BY <2>1, <2>3
  <2> QED
    BY <2>2, <2>3
<1>5. CASE o # "unsent" /\ there
  <2>1. PICK v : v = [record[u] EXCEPT !.status = "deleted"]
    OBVIOUS
  <2>2. record' = [record EXCEPT ![u] = v]
    BY <1>4, <1>5, <2>1
  <2>3. v = [set |-> record[u].set, status |-> "deleted"]
    BY <1>1, <2>1 DEF RecordsOK
  <2>4. record[u].set \in Sets /\ record[u].set # NoSet
    BY <1>4, <1>5, SetsPlaced DEF Reached
  <2>5. UsersStay /\ RecordsOK'
    BY <1>1, <2>2, <2>3, <2>4 DEF RecordsOK, UsersStay
  <2>6. ToldOK'
    BY <1>2, <2>5 DEF ToldOK, OkMeansDone, UsersStay
  <2>7. UsersOK'
    BY <1>2, <2>5, UsersKept
  <2>8. record'[u].status = "deleted"
    BY <1>1, <2>2, <2>3 DEF RecordsOK
  <2>9. PICK n : n = [r EXCEPT !.pc = "erase"]
    OBVIOUS
  <2>10. req' = [req EXCEPT ![w] = n] \/ req' = [req EXCEPT ![w] = NoRequest]
    BY <1>0, <1>4, <2>9 DEF ReqOK
  <2>11. n \in Requests /\ n.pc = "erase" /\ n.to = r.to /\ n.uid = u /\ n.op = r.op
    BY <1>0, <1>1, <2>9, NextStep
  <2>12. RequestOK(n)'
    BY <1>1, <2>8, <2>11 DEF RequestOK
  <2>13. ReqOK'
    BY <2>5, <2>10, <2>12, NoneOK, TakesRequest
  <2> QED
    BY <1>3, <2>5, <2>6, <2>7, <2>13
<1>6. CASE ~ (o # "unsent" /\ there)
  <2>1. UNCHANGED record
    BY <1>4, <1>6
  <2>2. req' = [req EXCEPT ![w] = NoRequest]
    BY <1>4, <1>6
  <2> QED
    BY <1>2, <1>3, <2>1, <2>2, UsersSame, NoneOK, TakesRequest
<1> QED
  BY <1>5, <1>6

(* The user leaves the cache, and the client is told.                      *)
LEMMA EraseKeeps ==
  ASSUME AccessInv, NEW w \in Workers, DeleteUserSetCache(w) \/ CallOther(w)
  PROVE  AccessInv'
<1> USE DEF AccessInv
<1>1. UNCHANGED <<addr, record, last, routes, chan>> /\ req' = [req EXCEPT ![w] = NoRequest]
  BY DEF DeleteUserSetCache, CallOther, manager, access
<1>2. RecordsOK' /\ ReqOK'
  BY <1>1, UsersSame, NoneOK, TakesRequest
<1>3. SetsOK' /\ ChanOK'
  BY <1>1 DEF SetsOK, ChanOK, Homed
<1>4. CASE CallOther(w)
  BY <1>1, <1>2, <1>3, <1>4, UsersSame DEF CallOther, access
<1>5. CASE DeleteUserSetCache(w)
  <2>1. PICK u : u = req[w].uid
    OBVIOUS
  <2>2. u \in Uids /\ record[u].status \in {"deleted", "collected"}
    BY <1>5, <2>1 DEF DeleteUserSetCache, ReqOK, RequestOK
  <2>3. users' = [users EXCEPT ![u] = NoRoute] /\ toldOk' = [toldOk EXCEPT !.deleted = @ \cup {u}]
    BY <1>5, <2>1 DEF DeleteUserSetCache
  <2>4. UsersOK'
    <3>1. users' \in [Uids -> RouteRecs]
      BY <2>2, <2>3 DEF UsersOK, NoRoute, RouteRecs
    <3> QED
      BY <1>1, <2>2, <2>3, <3>1 DEF UsersOK, Homed
  <2>5. /\ toldOk' \in [created : SUBSET Uids, deleted : SUBSET Uids]
        /\ toldOk'.created = toldOk.created /\ toldOk'.deleted = toldOk.deleted \cup {u}
    BY <2>2, <2>3 DEF ToldOK
  <2>6. ToldOK'
    BY <1>1, <2>2, <2>5 DEF ToldOK, OkMeansDone
  <2> QED
    BY <1>2, <1>3, <2>4, <2>6
<1> QED
  BY <1>4, <1>5

(* Every step keeps the invariant.                                         *)
LEMMA AccessKeeps == AccessInv /\ [AccessNext]_accessVars => AccessInv'
<1> SUFFICES ASSUME AccessInv, [AccessNext]_accessVars PROVE AccessInv'
  OBVIOUS
<1>1. CASE UNCHANGED accessVars
  <2>1. UNCHANGED <<addr, record, last, routes, users, chan, req, toldOk>>
    BY <1>1 DEF accessVars, manager, access
  <2> QED
    BY <2>1, UsersSame DEF AccessInv, SetsOK, ChanOK, Homed
<1>2. ASSUME NEW s \in Sets, ReportSetHeartbeat(s) \/ Obsolete(s) \/ GcUsers(s) \/ Move(s)
      PROVE  AccessInv'
  BY <1>2, SetsKeep, GcKeeps
<1>3. CASE SetManagerRestarts \/ UpdateSets
  <2>1. CASE \E s \in Sets : TRUE
    BY <1>3, <2>1, SetsKeep
  <2>2. CASE ~ \E s \in Sets : TRUE
    <3>1. UNCHANGED <<record, users, chan, req, toldOk, addr>>
      BY <1>3 DEF SetManagerRestarts, UpdateSets, manager, access
    <3>2. last' \in [Sets -> Beats] /\ routes' \in [Sets -> Addrs \cup {NoAddr}]
      BY <1>3, <2>2 DEF SetManagerRestarts, UpdateSets, access, AccessInv, SetsOK, Beats
    <3>3. SetsOK'
      BY <2>2, <3>1, <3>2 DEF AccessInv, SetsOK
    <3> QED
      BY <3>1, <3>3, UsersSame DEF AccessInv, ChanOK
  <2> QED
    BY <2>1, <2>2
<1>4. CASE AccessRestarts
  BY <1>4, AccessRestartKeeps
<1>5. ASSUME NEW w \in Workers, UserRequest(w) \/ BlobRequest(w) \/ QueryUserSet(w) \/ Handle(w)
      PROVE  AccessInv'
  BY <1>5, TakenKeep, LookupKeeps, ChannelKeeps, CreateCallKeeps, DeleteCallKeeps, EraseKeeps DEF Handle
<1> QED
  BY <1>1, <1>2, <1>3, <1>4, <1>5 DEF AccessNext

(* A request comes to the manager of its set, to one of a set that shares  *)
(* the host, or to nobody, wherever managers are started again, whatever   *)
(* is lost and however the caches of sets, users and channels have aged;   *)
(* user_map_ is right about the set of a user, but for sets that share the *)
(* host; an OK with a user id or to a deletion is true.                    *)
THEOREM RequestsFindTheirSet == AccessSpec => []RightManager
<1> QED
  BY AccessStart, AccessKeeps, InvGivesRight, PTL DEF AccessSpec
=============================================================================
