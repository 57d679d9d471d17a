----------------------------- MODULE HostProofs -----------------------------
(***************************************************************************)
(* Proofs about KvStore, for any threads, keys, batches and values, and    *)
(* about RouterCache, for any threads, extents, peers and routers.         *)
(*                                                                         *)
(* What the proofs need of KvStore's constants: keys are positive numbers  *)
(* (0 is "no key"), two batches of the callers share no key, and the keys  *)
(* of a prefix stand together in the order of the keys.  Single writes may *)
(* touch any key, and calls may overlap.                                   *)
(***************************************************************************)
EXTENDS KvStore, RouterCache, WellFoundedInduction, TLAPS

Stored == Values \cup {NoValue}
Maps   == [Keys -> Stored]

KeysOrdered == Keys \subseteq Nat \ {0}
BatchesApart ==
  /\ Batches \subseteq SUBSET Keys
  /\ \A A, B \in Batches : A # B => A \cap B = {}
PrefixesTogether ==
  \A i, j, k \in Keys : i <= j /\ j <= k /\ PrefixOf[i] = PrefixOf[k] => PrefixOf[j] = PrefixOf[i]

WriteRecs  == [op : {"write"}, keys : SUBSET Keys, value : Stored, done : BOOLEAN, last : SUBSET Keys]
PrefixRecs == [op : {"prefix"}, scan : [op : {"prefix"}, prefix : {PrefixOf[k] : k \in Keys}],
               snap : Maps, at : Keys \cup {0}, got : Seq(Keys)]
RangeRecs  == [op : {"range"}, scan : [op : {"range"}, from : Keys, end : Keys],
               snap : Maps, at : Keys \cup {0}, got : Seq(Keys)]
Recs == {Idle} \cup WriteRecs \cup PrefixRecs \cup RangeRecs

Typed == KvTypeOK /\ call \in [Threads -> Recs]

(* Writes are synchronous: nothing is in the map that is not on disk.      *)
Synced == db = durable

(* Calls are under way only while the store is open; what the last writer  *)
(* of a key has written stays until it is answered.                        *)
Writing(t) == call[t].op = "write"
WritersOK ==
  \A t \in Threads : Writing(t) =>
    /\ open
    /\ call[t].last \subseteq call[t].keys /\ (~call[t].done => call[t].last = {})
    /\ \A k \in call[t].last : db[k] = call[t].value

(* Only a write that is applied, not yet answered and not overwritten sets *)
(* a key apart from what was promised, also while the store is closed.     *)
Pending(k) == \E t \in Threads : Writing(t) /\ k \in call[t].last
KeptOK == \A k \in Keys \ hurt : ~Pending(k) => db[k] = promised[k]

(* Where a scan stands: what it has read, and what is still before it.     *)
From(c) == IF c.op = "prefix" THEN Seek(c.scan.prefix) ELSE c.scan.from
ScanOK(c) ==
  /\ \A i \in 1..Len(c.got) : c.got[i] \in InScan(c) /\ (c.at # 0 => c.got[i] < c.at)
  /\ \A i, j \in 1..Len(c.got) : i < j => c.got[i] < c.got[j]
  /\ c.at # 0 => c.snap[c.at] # NoValue /\ From(c) <= c.at
  /\ \A k \in InScan(c) : (c.at # 0 /\ c.at <= k) \/ \E i \in 1..Len(c.got) : c.got[i] = k

WriteInv == Typed /\ Synced /\ WritersOK /\ KeptOK
ScanInv  == Typed /\ \A t \in Scans : ScanOK(call[t])

-----------------------------------------------------------------------------
(* A set of numbers has a least one.                                       *)
LEMMA Least ==
  ASSUME NEW T, T \subseteq Nat, T # {}
  PROVE  \E x \in T : \A y \in T : x <= y
<1>1. IsWellFoundedOn({ss \in Nat \X Nat : ss[1] < ss[2]}, Nat)
  BY NatLessThanWellFounded DEF OpToRel
<1>2. PICK R : R = {ss \in Nat \X Nat : ss[1] < ss[2]}
  OBVIOUS
<1>3. PICK x \in T : \A y \in T : ~ (<<y, x>> \in R)
  BY <1>1, <1>2, WFMin
<1>4. ASSUME NEW y \in T
      PROVE  x <= y
  <2>1. y \in Nat /\ x \in Nat /\ <<y, x>> \notin R
    BY <1>3
  <2>2. <<y, x>> \in Nat \X Nat /\ <<y, x>>[1] = y /\ <<y, x>>[2] = x
    BY <2>1
  <2>3. ~(<<y, x>>[1] < <<y, x>>[2])
    BY <1>2, <2>1, <2>2, Zenon
  <2> QED
    BY <2>1, <2>2, <2>3
<1> QED
  BY <1>4

(* The key an iterator comes to: the next that is in the snapshot, or none. *)
LEMMA NextKeyFacts ==
  ASSUME KeysOrdered, NEW snap \in Maps, NEW from \in Nat
  PROVE  /\ NextKey(snap, from) \in Keys \cup {0}
         /\ NextKey(snap, from) # 0 => from <= NextKey(snap, from) /\ snap[NextKey(snap, from)] # NoValue
         /\ \A k \in Keys : from <= k /\ snap[k] # NoValue =>
              NextKey(snap, from) # 0 /\ NextKey(snap, from) <= k
<1>1. PICK later : later = {k \in Keys : from <= k /\ snap[k] # NoValue}
  OBVIOUS
<1>2. NextKey(snap, from) = IF later = {} THEN 0 ELSE CHOOSE k \in later : \A j \in later : k <= j
  BY <1>1 DEF NextKey
<1>3. CASE later = {}
  BY <1>1, <1>2, <1>3
<1>4. CASE later # {}
  <2>1. later \subseteq Nat /\ 0 \notin later /\ later \subseteq Keys
    BY <1>1 DEF KeysOrdered
  <2>2. \E k \in later : \A j \in later : k <= j
    BY <1>4, <2>1, Least
  <2>3. NextKey(snap, from) \in later /\ \A j \in later : NextKey(snap, from) <= j
    BY <1>2, <1>4, <2>2
  <2> QED
    BY <1>1, <2>1, <2>3
<1> QED
  BY <1>3, <1>4

(* The first key of a prefix some key has.                                 *)
LEMMA SeekFacts ==
  ASSUME KeysOrdered, NEW p \in {PrefixOf[k] : k \in Keys}
  PROVE  /\ Seek(p) \in Keys /\ PrefixOf[Seek(p)] = p
         /\ \A j \in Keys : PrefixOf[j] = p => Seek(p) <= j
<1>1. PICK T : T = {k \in Keys : PrefixOf[k] = p}
  OBVIOUS
<1>2. T \subseteq Nat /\ T # {}
  BY <1>1 DEF KeysOrdered
<1>3. \E k \in T : \A j \in T : k <= j
  BY <1>2, Least
<1>4. \E k \in Keys : PrefixOf[k] = p /\ \A j \in Keys : PrefixOf[j] = p => k <= j
  BY <1>1, <1>3
<1> QED
  BY <1>4 DEF Seek

-----------------------------------------------------------------------------
(* What the name of a call says of its record.                             *)
LEMMA RecFacts ==
  ASSUME NEW r \in Recs
  PROVE  /\ r.op \in {"idle", "write", "prefix", "range"}
         /\ r.op = "idle" => r = Idle
         /\ r.op = "write" => r \in WriteRecs
         /\ r.op = "prefix" => r \in PrefixRecs
         /\ r.op = "range" => r \in RangeRecs
BY DEF Recs, Idle, WriteRecs, PrefixRecs, RangeRecs

(* A thread goes on with the record r.                                     *)
LEMMA CallTyped ==
  ASSUME Typed, NEW t \in Threads, NEW r \in Recs, call' = [call EXCEPT ![t] = r]
  PROVE  /\ call' \in [Threads -> Recs] /\ call'[t] = r
         /\ \A u \in Threads : u # t => call'[u] = call[u]
BY DEF Typed

(* Idle is a record of its own.                                            *)
LEMMA IdleFacts == Idle \in Recs /\ Idle.op = "idle"
BY DEF Idle, Recs

(* The types hold when the call's record has its own.                      *)
LEMMA TypedKept ==
  ASSUME Typed, call' \in [Threads -> Recs],
         db' \in Maps, durable' \in Maps, promised' \in Maps, hurt' \subseteq Keys, loose' \subseteq Keys,
         open' \in BOOLEAN, stops' \in 0..MaxStops
  PROVE  Typed'
<1>1. ASSUME NEW t \in Threads
      PROVE  call'[t].op \in {"idle", "write", "prefix", "range"}
  <2> call'[t] \in Recs
    OBVIOUS
  <2> QED
    BY RecFacts
<1> QED
  BY <1>1 DEF Typed, KvTypeOK, Maps, Stored

(* Keys that are set at once.                                              *)
LEMMA SetFacts ==
  ASSUME NEW f \in Maps, NEW K \in SUBSET Keys, NEW v \in Stored
  PROVE  /\ Set(f, K, v) \in Maps
         /\ \A k \in K : Set(f, K, v)[k] = v
         /\ \A k \in Keys \ K : Set(f, K, v)[k] = f[k]
BY DEF Set, Maps

(* The parts of a writer's record.                                         *)
LEMMA WriterFacts ==
  ASSUME Typed, NEW t \in Threads, Writing(t)
  PROVE  /\ call[t] \in WriteRecs /\ call[t].keys \in SUBSET Keys /\ call[t].last \in SUBSET Keys
         /\ call[t].value \in Stored /\ call[t].done \in BOOLEAN
<1>1. call[t] \in WriteRecs
  BY RecFacts DEF Typed, Writing
<1> QED
  BY <1>1 DEF WriteRecs

-----------------------------------------------------------------------------
(* A write begins, whoever else writes its keys.                           *)
LEMMA StartKeeps ==
  ASSUME WriteInv, NEW t \in Threads, NEW K \in SUBSET Keys, NEW v \in Stored,
         StartWrite(t, K, v)
  PROVE  WriteInv'
<1> USE DEF WriteInv
<1>1. PICK r : r = [op |-> "write", keys |-> K, value |-> v, done |-> FALSE, last |-> {}]
  OBVIOUS
<1>2. r \in Recs /\ r.op = "write" /\ r.keys = K /\ r.done = FALSE /\ r.last = {}
  BY <1>1 DEF Recs, WriteRecs
<1>3. /\ call' \in [Threads -> Recs] /\ call'[t] = r
      /\ \A u \in Threads : u # t => call'[u] = call[u]
  BY <1>1, <1>2, CallTyped DEF StartWrite
<1>4. UNCHANGED <<db, durable, open, promised, hurt, loose, stops>> /\ open /\ call[t].op = "idle"
  BY IdleFacts DEF StartWrite
<1>5. Typed'
  BY <1>3, <1>4, TypedKept DEF Typed, KvTypeOK, Maps, Stored
<1>6. WritersOK'
  BY <1>2, <1>3, <1>4 DEF WritersOK, Writing
<1>7. KeptOK'
  BY <1>2, <1>3, <1>4 DEF KeptOK, Pending, Writing
<1> QED
  BY <1>4, <1>5, <1>6, <1>7 DEF Synced

(* The records after a write is applied: the writer's is marked, and the   *)
(* keys are taken from the others that wrote them before.                  *)
LEMMA AppliedFacts ==
  ASSUME Typed, NEW t \in Threads, Writing(t), call' = Applied(t)
  PROVE  /\ call' \in [Threads -> Recs]
         /\ Writing(t)' /\ call'[t].keys = call[t].keys /\ call'[t].value = call[t].value
         /\ call'[t].done = TRUE /\ call'[t].last = call[t].keys
         /\ \A u \in Threads : u # t /\ ~Writing(u) => call'[u] = call[u]
         /\ \A u \in Threads : u # t /\ Writing(u) =>
              /\ Writing(u)' /\ call'[u].keys = call[u].keys /\ call'[u].value = call[u].value
              /\ call'[u].done = call[u].done /\ call'[u].last = call[u].last \ call[t].keys
<1>1. call[t] \in WriteRecs
  BY WriterFacts
<1>2. \A u \in Threads : call'[u] = Applied(t)[u]
  OBVIOUS
<1>3. call'[t] = [call[t] EXCEPT !.done = TRUE, !.last = call[t].keys]
  BY <1>2 DEF Applied
<1>4. /\ call'[t] \in WriteRecs /\ Writing(t)' /\ call'[t].keys = call[t].keys
      /\ call'[t].value = call[t].value /\ call'[t].done = TRUE /\ call'[t].last = call[t].keys
  BY <1>1, <1>3 DEF WriteRecs, Writing
<1>5. ASSUME NEW u \in Threads, u # t, ~Writing(u)
      PROVE  call'[u] = call[u]
  BY <1>2, <1>5 DEF Applied, Writing
<1>6. ASSUME NEW u \in Threads, u # t, Writing(u)
      PROVE  /\ call'[u] \in WriteRecs
             /\ Writing(u)' /\ call'[u].keys = call[u].keys /\ call'[u].value = call[u].value
             /\ call'[u].done = call[u].done /\ call'[u].last = call[u].last \ call[t].keys
  <2>1. call[u] \in WriteRecs
    BY <1>6, WriterFacts
  <2>2. call'[u] = [call[u] EXCEPT !.last = call[u].last \ call[t].keys]
    BY <1>2, <1>6, <2>1 DEF Applied, Writing, WriteRecs
  <2> QED
    BY <2>1, <2>2 DEF WriteRecs, Writing
<1>7. \A u \in Threads : call'[u] \in Recs
  BY <1>4, <1>5, <1>6 DEF Typed, Recs
<1>8. call' \in [Threads -> Recs]
  <2>1. call' = [u \in Threads |-> call'[u]]
    BY DEF Applied
  <2> QED
    BY <1>7, <2>1
<1> QED
  BY <1>4, <1>5, <1>6, <1>8

(* The write itself: map and disk change together, and who wrote the keys  *)
(* before has no longer written them last.                                 *)
LEMMA WriteKeeps ==
  ASSUME WriteInv, NEW t \in Threads, Write(t)
  PROVE  WriteInv'
<1> USE DEF WriteInv
<1>0. Writing(t) /\ ~call[t].done
  BY DEF Write, Writing
<1>1. PICK K \in SUBSET Keys, v \in Stored : K = call[t].keys /\ v = call[t].value
  BY <1>0, WriterFacts
<1>2. call' = Applied(t)
  BY DEF Write
<1>4. /\ call' \in [Threads -> Recs]
      /\ Writing(t)' /\ call'[t].keys = K /\ call'[t].value = v /\ call'[t].done = TRUE /\ call'[t].last = K
      /\ \A u \in Threads : u # t /\ ~Writing(u) => ~Writing(u)'
      /\ \A u \in Threads : u # t /\ Writing(u) =>
           /\ Writing(u)' /\ call'[u].keys = call[u].keys /\ call'[u].value = call[u].value
           /\ call'[u].done = call[u].done /\ call'[u].last = call[u].last \ K
  BY <1>0, <1>1, <1>2, AppliedFacts DEF Writing
<1>5. /\ db' = Set(db, K, v) /\ durable' = Set(durable, K, v) /\ UNCHANGED <<open, promised, hurt, stops>>
      /\ loose' \subseteq loose \cup K
  BY <1>1 DEF Write
<1>6. db \in Maps /\ durable = db /\ loose \subseteq Keys
  BY DEF Typed, KvTypeOK, Maps, Stored, Synced
<1>7. /\ db' \in Maps /\ durable' = db'
      /\ \A k \in K : db'[k] = v
      /\ \A k \in Keys \ K : db'[k] = db[k]
  <2>1. PICK g : g = Set(db, K, v)
    OBVIOUS
  <2>2. g \in Maps /\ (\A k \in K : g[k] = v) /\ (\A k \in Keys \ K : g[k] = db[k])
    BY <1>6, <2>1 DEF Set, Maps
  <2> QED
    BY <1>5, <1>6, <2>1, <2>2
<1>8. Typed'
  BY <1>4, <1>5, <1>6, <1>7, TypedKept DEF Typed, KvTypeOK, Maps, Stored
<1>9. WritersOK'
  <2> SUFFICES ASSUME NEW u \in Threads, Writing(u)'
               PROVE  /\ open'
                      /\ call'[u].last \subseteq call'[u].keys /\ (~call'[u].done => call'[u].last = {})
                      /\ \A k \in call'[u].last : db'[k] = call'[u].value
    BY DEF WritersOK
  <2>1. CASE u = t
    BY <1>0, <1>4, <1>5, <1>7, <2>1 DEF WritersOK
  <2>2. CASE u # t
    <3>1. Writing(u) /\ call[u].last \in SUBSET Keys
      BY <1>4, <2>2, WriterFacts
    <3> QED
      BY <1>4, <1>5, <1>7, <2>2, <3>1 DEF WritersOK
  <2> QED
    BY <2>1, <2>2
<1>10. KeptOK'
  <2> SUFFICES ASSUME NEW k \in Keys \ hurt, ~Pending(k)'
               PROVE  db'[k] = promised[k]
    BY <1>5 DEF KeptOK
  <2>1. k \notin K
    BY <1>4 DEF Pending
  <2>2. ~Pending(k)
    BY <1>0, <1>4, <2>1 DEF Pending, WritersOK
  <2> QED
    BY <1>7, <2>1, <2>2 DEF KeptOK
<1> QED
  BY <1>7, <1>8, <1>9, <1>10 DEF Synced

(* A write that fails has changed nothing; any other call that ends, goes  *)
(* on or begins without a write does not either.                           *)
LEMMA QuietKeeps ==
  ASSUME WriteInv, NEW t \in Threads, NEW r \in Recs, r.op # "write",
         Writing(t) => ~call[t].done,
         call' = [call EXCEPT ![t] = r],
         UNCHANGED <<db, durable, open, promised, hurt, loose, stops>>
  PROVE  WriteInv'
<1> USE DEF WriteInv
<1>1. /\ call' \in [Threads -> Recs] /\ call'[t] = r
      /\ \A u \in Threads : u # t => call'[u] = call[u]
  BY CallTyped
<1>2. Typed'
  BY <1>1, TypedKept DEF Typed, KvTypeOK, Maps, Stored
<1>3. WritersOK'
  BY <1>1 DEF WritersOK, Writing
<1>4. KeptOK'
  BY <1>1 DEF KeptOK, Pending, Writing, WritersOK
<1> QED
  BY <1>2, <1>3, <1>4 DEF Synced

(* The answer: what is promised from now on is what the map has, but for   *)
(* keys that another call has written since.                               *)
LEMMA ReturnKeeps ==
  ASSUME WriteInv, NEW t \in Threads, WriteReturns(t)
  PROVE  WriteInv'
<1> USE DEF WriteInv
<1>0. Writing(t)
  BY DEF WriteReturns, Writing
<1>1. PICK K \in SUBSET Keys, v \in Stored : K = call[t].last /\ v = call[t].value
  BY <1>0, WriterFacts
<1>2. /\ call' \in [Threads -> Recs] /\ call'[t].op = "idle"
      /\ \A u \in Threads : u # t => call'[u] = call[u]
  BY CallTyped, IdleFacts DEF WriteReturns, Return
<1>3. /\ promised' = Set(promised, K, v) /\ hurt' = hurt \ K /\ UNCHANGED <<db, durable, open, loose, stops>>
  BY <1>1 DEF WriteReturns
<1>4. promised \in Maps
  BY DEF Typed, KvTypeOK, Maps, Stored
<1>5. /\ promised' \in Maps
      /\ \A k \in K : promised'[k] = v
      /\ \A k \in Keys \ K : promised'[k] = promised[k]
  <2>1. PICK g : g = Set(promised, K, v)
    OBVIOUS
  <2>2. g \in Maps /\ (\A k \in K : g[k] = v) /\ (\A k \in Keys \ K : g[k] = promised[k])
    BY <1>4, <2>1 DEF Set, Maps
  <2> QED
    BY <1>3, <2>1, <2>2
<1>6. Typed'
  BY <1>2, <1>3, <1>5, TypedKept DEF Typed, KvTypeOK, Maps, Stored
<1>7. WritersOK'
  BY <1>2, <1>3 DEF WritersOK, Writing
<1>8. KeptOK'
  <2> SUFFICES ASSUME NEW k \in Keys, k \notin hurt', ~Pending(k)'
               PROVE  db[k] = promised'[k]
    BY <1>3 DEF KeptOK
  <2>1. CASE k \in K
    BY <1>0, <1>1, <1>5, <2>1 DEF WritersOK
  <2>2. CASE k \notin K
    <3>1. k \notin hurt /\ ~Pending(k)
      BY <1>1, <1>2, <1>3, <2>2 DEF Pending, Writing
    <3> QED
      BY <1>5, <2>2, <3>1 DEF KeptOK
  <2> QED
    BY <2>1, <2>2
<1> QED
  BY <1>3, <1>6, <1>7, <1>8 DEF Synced

(* A stop loses nothing: the map is what the disk has.                     *)
LEMMA StopKeeps ==
  ASSUME WriteInv, MaxStops \in Nat, Stop
  PROVE  WriteInv'
<1> USE DEF WriteInv
<1>1. /\ call' = [t \in Threads |-> Idle] /\ db' = durable /\ durable' = durable /\ hurt' = hurt /\ loose' = loose
      /\ promised' = [k \in Keys |-> IF Unanswered(k) THEN durable[k] ELSE promised[k]]
      /\ open' = FALSE /\ stops' = stops + 1 /\ stops < MaxStops
  BY DEF Stop
<1>2. call' \in [Threads -> Recs] /\ \A t \in Threads : call'[t].op = "idle"
  BY <1>1, IdleFacts
<1>3. db \in Maps /\ durable = db /\ promised \in Maps /\ stops \in 0..MaxStops
  BY DEF Typed, KvTypeOK, Maps, Stored, Synced
<1>4. promised' \in Maps /\ stops' \in 0..MaxStops
  BY <1>1, <1>3 DEF Maps
<1>5. Typed'
  BY <1>1, <1>2, <1>3, <1>4, TypedKept DEF Typed, KvTypeOK
<1>6. WritersOK'
  BY <1>2 DEF WritersOK, Writing
<1>7. KeptOK'
  <2> SUFFICES ASSUME NEW k \in Keys \ hurt
               PROVE  db[k] = promised'[k]
    BY <1>1, <1>3 DEF KeptOK
  <2>1. CASE Unanswered(k)
    BY <1>1, <1>3, <2>1
  <2>2. CASE ~Unanswered(k)
    BY <1>1, <2>2 DEF Unanswered, KeptOK, Pending, Writing, WritersOK
  <2> QED
    BY <2>1, <2>2
<1> QED
  BY <1>1, <1>3, <1>5, <1>6, <1>7 DEF Synced

(* A repair hurts the keys that it changes, and no others.                 *)
LEMMA OpenKeeps ==
  ASSUME WriteInv, Open
  PROVE  WriteInv'
<1> USE DEF WriteInv
<1>1. PICK found \in Maps :
        /\ db' = found /\ durable' = found
        /\ hurt' = hurt \cup {k \in Keys : found[k] # durable[k]}
        /\ loose' = loose \cup {k \in Keys : found[k] # durable[k]}
  BY DEF Open, Maps, Stored
<1>2. ~open /\ open' = TRUE /\ UNCHANGED <<call, promised, stops>>
  BY DEF Open
<1>3. durable = db /\ hurt \subseteq Keys /\ loose \subseteq Keys
  BY DEF Typed, KvTypeOK, Synced
<1>4. hurt' \subseteq Keys /\ loose' \subseteq Keys
  BY <1>1, <1>3
<1>5. Typed'
  BY <1>1, <1>2, <1>4, TypedKept DEF Typed, KvTypeOK, Maps, Stored
<1>6. \A t \in Threads : ~Writing(t)
  BY <1>2 DEF WritersOK
<1>7. WritersOK'
  BY <1>2, <1>6 DEF WritersOK, Writing
<1>8. KeptOK'
  BY <1>1, <1>2, <1>3, <1>6 DEF KeptOK, Pending, Writing
<1> QED
  BY <1>1, <1>5, <1>7, <1>8 DEF Synced

-----------------------------------------------------------------------------
(* Two keys of a batch that are not set apart after the keys in L are      *)
(* written were both written, or neither was.                              *)
LEMMA SetWhole ==
  ASSUME BatchesApart, NEW apart, NEW L \in SUBSET Keys, NEW K \in Batches, NEW j \in K, NEW k \in K,
         j \notin (apart \cup L) \ Together(L), k \notin (apart \cup L) \ Together(L)
  PROVE  (j \in L /\ k \in L) \/ (j \notin L \cup apart /\ k \notin L \cup apart)
<1>1. CASE ~(K \subseteq L)
  <2>1. ASSUME NEW i \in K
        PROVE  i \notin Together(L)
    BY <1>1, <2>1 DEF Together, BatchesApart
  <2> QED
    BY <2>1
<1> QED
  BY <1>1

(* A batch is written as one and stands as one on disk; a key that a       *)
(* repair changes is set apart.                                            *)
LEMMA WholeKept ==
  ASSUME Typed, BatchesApart, BatchesWhole, [KvNext]_kvVars
  PROVE  BatchesWhole'
<1>1. ASSUME NEW t \in Threads, Write(t)
      PROVE  BatchesWhole'
  <2>1. PICK L \in SUBSET Keys, v \in Stored : L = call[t].keys /\ v = call[t].value
    BY <1>1, WriterFacts DEF Write, Writing
  <2>2. db' = Set(db, L, v) /\ durable' = Set(durable, L, v) /\ loose' = (loose \cup L) \ Together(L)
    BY <1>1, <2>1 DEF Write
  <2> SUFFICES ASSUME NEW K \in Batches, NEW j \in K, NEW k \in K, j \notin loose', k \notin loose'
               PROVE  db'[j] = db'[k] /\ durable'[j] = durable'[k]
    BY DEF BatchesWhole
  <2>3. j \in Keys /\ k \in Keys
    BY DEF BatchesApart
  <2>4. (j \in L /\ k \in L) \/ (j \notin L \cup loose /\ k \notin L \cup loose)
    BY <2>2, SetWhole
  <2>5. CASE j \in L /\ k \in L
    BY <2>2, <2>3, <2>5 DEF Set
  <2>6. CASE j \notin L \cup loose /\ k \notin L \cup loose
    <3>1. db[j] = db[k] /\ durable[j] = durable[k]
      BY <2>6 DEF BatchesWhole
    <3> QED
      BY <2>2, <2>3, <2>6, <3>1 DEF Set
  <2> QED
    BY <2>4, <2>5, <2>6
<1>2. ASSUME Open
      PROVE  BatchesWhole'
  <2>1. PICK found : /\ db' = found /\ durable' = found
                     /\ loose' = loose \cup {k \in Keys : found[k] # durable[k]}
    BY <1>2 DEF Open
  <2>2. ASSUME NEW K \in Batches, NEW j \in K \ loose', NEW k \in K \ loose'
        PROVE  found[j] = found[k]
    <3>1. j \in Keys /\ k \in Keys
      BY DEF BatchesApart
    <3>2. j \notin loose /\ k \notin loose /\ found[j] = durable[j] /\ found[k] = durable[k]
      BY <2>1, <2>2, <3>1
    <3> QED
      BY <3>2 DEF BatchesWhole
  <2> QED
    BY <2>1, <2>2 DEF BatchesWhole
<1>3. ASSUME Stop
      PROVE  BatchesWhole'
  BY <1>3 DEF Stop, BatchesWhole
<1>4. ASSUME UNCHANGED <<db, durable, loose>>
      PROVE  BatchesWhole'
  BY <1>4 DEF BatchesWhole
<1> QED
  BY <1>1, <1>2, <1>3, <1>4 DEF KvNext, kvVars, WriteFails, WriteReturns, IterNext, ScanEnds, Put, MultiPut,
     Delete, MultiDelete, DeleteRange, StartWrite, Get, ScanPrefix, ScanRange, OpenScan

-----------------------------------------------------------------------------
(* A scan's record has its parts.                                          *)
LEMMA ScanFacts ==
  ASSUME Typed, NEW t \in Scans
  PROVE  /\ t \in Threads /\ call[t] \in PrefixRecs \cup RangeRecs
         /\ call[t].snap \in Maps /\ call[t].at \in Keys \cup {0} /\ call[t].got \in Seq(Keys)
<1>1. t \in Threads /\ call[t] \in Recs /\ call[t].op \in {"prefix", "range"}
  BY DEF Scans, Typed
<1>2. call[t] \in PrefixRecs \cup RangeRecs
  BY <1>1, RecFacts
<1> QED
  BY <1>1, <1>2 DEF PrefixRecs, RangeRecs

(* A new scan has read nothing, and stands at the first key of its own.    *)
LEMMA OpenScanOK ==
  ASSUME KeysOrdered, NEW c \in PrefixRecs \cup RangeRecs, c.got = <<>>, c.at = NextKey(c.snap, From(c))
  PROVE  ScanOK(c)
<1>1. c.snap \in Maps /\ From(c) \in Keys
  BY SeekFacts DEF PrefixRecs, RangeRecs, From
<1>2. From(c) \in Nat
  BY <1>1 DEF KeysOrdered
<1>3. \A k \in InScan(c) : k \in Keys /\ From(c) <= k /\ c.snap[k] # NoValue
  BY SeekFacts DEF PrefixRecs, RangeRecs, From, InScan
<1>4. /\ c.at \in Keys \cup {0}
      /\ c.at # 0 => From(c) <= c.at /\ c.snap[c.at] # NoValue
      /\ \A k \in Keys : From(c) <= k /\ c.snap[k] # NoValue => c.at # 0 /\ c.at <= k
  BY <1>1, <1>2, NextKeyFacts
<1>5. Len(c.got) = 0
  OBVIOUS
<1> QED
  BY <1>3, <1>4, <1>5 DEF ScanOK

(* One turn of the loop: the key is read, and the iterator passes on to    *)
(* the next that was there at the start.                                   *)
LEMMA IterNextOK ==
  ASSUME KeysOrdered, NEW c \in PrefixRecs \cup RangeRecs, ScanOK(c), Valid(c),
         NEW d \in PrefixRecs \cup RangeRecs,
         d.op = c.op, d.scan = c.scan, d.snap = c.snap,
         d.got = Append(c.got, c.at), d.at = NextKey(c.snap, c.at + 1)
  PROVE  ScanOK(d)
<1>1. c.snap \in Maps /\ c.got \in Seq(Keys) /\ c.at \in Keys /\ From(c) \in Keys
  BY SeekFacts DEF PrefixRecs, RangeRecs, From, Valid
<1>2. Keys \subseteq Nat /\ 0 \notin Keys
  BY DEF KeysOrdered
<1>3. PICK x \in Nat, f \in Nat : x = c.at /\ f = From(c) /\ x \in Keys /\ f \in Keys
  BY <1>1, <1>2
<1>4. InScan(d) = InScan(c) /\ From(d) = From(c)
  BY DEF InScan, From
<1>5. c.at \in InScan(c)
  BY <1>1 DEF ScanOK, InScan, Valid, From, PrefixRecs, RangeRecs
<1>6. d.at \in Keys \cup {0}
  BY DEF PrefixRecs, RangeRecs
<1>7. PICK y \in Nat : y = d.at
  BY <1>2, <1>6
<1>8. /\ y \in Keys \cup {0}
      /\ y # 0 => x + 1 <= y /\ c.snap[y] # NoValue
      /\ \A k \in Keys : x + 1 <= k /\ c.snap[k] # NoValue => y # 0 /\ y <= k
  BY <1>1, <1>3, <1>7, NextKeyFacts
<1>9. PICK n \in Nat : n = Len(c.got)
  BY <1>1
<1>10. /\ Len(d.got) = n + 1 /\ d.got[n + 1] = x
      /\ \A i \in 1..n : d.got[i] = c.got[i] /\ c.got[i] \in Keys
  BY <1>1, <1>3, <1>9
<1>11. \A i \in 1..n : d.got[i] \in InScan(c) /\ d.got[i] < x /\ d.got[i] \in Nat
  BY <1>2, <1>1, <1>3, <1>9, <1>10 DEF ScanOK
<1>12. \A i \in 1..(n + 1) : d.got[i] \in InScan(c) /\ (y # 0 => d.got[i] < y)
  <2> TAKE i \in 1..(n + 1)
  <2>1. CASE i = n + 1
    BY <1>3, <1>5, <1>8, <1>10, <2>1
  <2>2. CASE i # n + 1
    <3>1. i \in 1..n
      BY <2>2
    <3>2. d.got[i] \in InScan(c) /\ d.got[i] < x /\ d.got[i] \in Nat
      BY <1>11, <3>1, Zenon
    <3>3. PICK g \in Nat : g = d.got[i]
      BY <3>2, Zenon
    <3>4. g < x
      BY <3>2, <3>3, Zenon
    <3>5. y # 0 => x + 1 <= y
      BY <1>8, Zenon
    <3>6. y # 0 => g < y
      BY <3>4, <3>5
    <3> QED
      BY <3>2, <3>3, <3>6, Zenon
  <2> QED
    BY <2>1, <2>2
<1>13. \A i, j \in 1..(n + 1) : i < j => d.got[i] < d.got[j]
  <2> SUFFICES ASSUME NEW i \in 1..(n + 1), NEW j \in 1..(n + 1), i < j
               PROVE  d.got[i] < d.got[j]
    OBVIOUS
  <2>1. i \in 1..n
    OBVIOUS
  <2>2. CASE j = n + 1
    BY <1>10, <1>11, <2>1, <2>2
  <2>3. CASE j # n + 1
    <3>1. j \in 1..n
      BY <2>3
    <3> QED
      BY <1>9, <1>10, <2>1, <3>1 DEF ScanOK
  <2> QED
    BY <2>2, <2>3
<1>14. y # 0 => d.snap[y] # NoValue /\ From(d) <= y
  <2>1. f <= x
    BY <1>3, <1>2 DEF ScanOK
  <2> QED
    BY <1>3, <1>4, <1>8, <2>1
<1>15. ASSUME NEW k \in InScan(c)
       PROVE  (y # 0 /\ y <= k) \/ \E i \in 1..(n + 1) : d.got[i] = k
  <2>1. k \in Keys /\ c.snap[k] # NoValue /\ k \in Nat
    BY <1>2 DEF InScan
  <2>2. CASE k = x
    BY <1>10, <2>2
  <2>3. CASE k # x /\ x <= k
    BY <1>8, <2>1, <2>3
  <2>4. CASE \E i \in 1..n : c.got[i] = k
    BY <1>10, <2>4
  <2> QED
    BY <1>2, <1>3, <1>9, <2>2, <2>3, <2>4 DEF ScanOK
<1> QED
  BY <1>4, <1>10, <1>12, <1>13, <1>14, <1>15, <1>7 DEF ScanOK

(* At its end a scan has read what it is for: the keys of a prefix stand   *)
(* together, so that the first key outside it ends it.                     *)
LEMMA EndOK ==
  ASSUME KeysOrdered, PrefixesTogether, NEW c \in PrefixRecs \cup RangeRecs, ScanOK(c), ~Valid(c)
  PROVE  {c.got[i] : i \in 1..Len(c.got)} = InScan(c)
<1>1. ASSUME NEW k \in InScan(c), c.at # 0, c.at <= k
      PROVE  FALSE
  <2>0. k \in Keys /\ c.at \in Keys /\ From(c) <= c.at /\ Keys \subseteq Nat
    BY <1>1 DEF InScan, ScanOK, PrefixRecs, RangeRecs, KeysOrdered
  <2>1. CASE c \in PrefixRecs
    <3>1. PICK p \in {PrefixOf[j] : j \in Keys} : p = c.scan.prefix
      BY <2>1 DEF PrefixRecs
    <3>2. /\ PrefixOf[k] = p /\ From(c) = Seek(p) /\ PrefixOf[c.at] # p
      BY <1>1, <2>1, <3>1 DEF InScan, Valid, PrefixRecs, From
    <3>3. Seek(p) \in Keys /\ PrefixOf[Seek(p)] = p
      BY SeekFacts
    <3> QED
      BY <1>1, <2>0, <3>2, <3>3 DEF PrefixesTogether
  <2>2. CASE c \in RangeRecs
    <3>1. PICK e \in Keys, x \in Keys : e = c.scan.end /\ x = c.at
      BY <2>0, <2>2 DEF RangeRecs
    <3>2. ~(x < e) /\ k < e /\ x <= k
      BY <1>1, <2>2, <3>1 DEF InScan, Valid, RangeRecs
    <3> QED
      BY <2>0, <3>1, <3>2
  <2> QED
    BY <2>1, <2>2
<1>2. \A k \in InScan(c) : \E i \in 1..Len(c.got) : c.got[i] = k
  BY <1>1 DEF ScanOK
<1>3. \A i \in 1..Len(c.got) : c.got[i] \in InScan(c)
  BY DEF ScanOK
<1> QED
  BY <1>2, <1>3

(* Every step keeps the scans: only their own thread moves them.           *)
LEMMA ScansKept ==
  ASSUME KeysOrdered, ScanInv, Typed', [KvNext]_kvVars
  PROVE  ScanInv'
<1> USE DEF ScanInv
<1> SUFFICES ASSUME NEW t \in Threads, t \in Scans'
             PROVE  ScanOK(call[t])'
  BY DEF Scans
<1>0. call'[t] \in PrefixRecs \cup RangeRecs
  <2>1. call'[t] \in Recs /\ call'[t].op \in {"prefix", "range"}
    BY DEF Scans, Typed
  <2> QED
    BY <2>1, RecFacts
<1>1. ASSUME call'[t] = call[t]
      PROVE  ScanOK(call[t])'
  <2>1. t \in Scans
    BY <1>1 DEF Scans
  <2>2. ScanOK(call[t])
    BY <2>1
  <2> QED
    BY <1>1, <2>2 DEF ScanOK, InScan, From, Seek
<1>2. ASSUME NEW u \in Threads, NEW r, call' = [call EXCEPT ![u] = r], r.op \notin {"prefix", "range"}
      PROVE  ScanOK(call[t])'
  <2>1. u # t
    BY <1>2 DEF Scans, Typed
  <2> QED
    BY <1>1, <1>2, <2>1 DEF Typed
<1>3. ASSUME NEW u \in Threads, NEW scan, NEW from, OpenScan(u, scan, from),
             \/ scan.op = "prefix" /\ from = Seek(scan.prefix)
             \/ scan.op = "range" /\ from = scan.from
      PROVE  ScanOK(call[t])'
  <2>1. PICK r : r = [op |-> scan.op, scan |-> scan, snap |-> db, at |-> NextKey(db, from), got |-> <<>>]
    OBVIOUS
  <2>2. call' = [call EXCEPT ![u] = r]
    BY <1>3, <2>1 DEF OpenScan
  <2>3. CASE u # t
    BY <1>1, <2>2, <2>3 DEF Typed
  <2>4. CASE u = t
    <3>1. call'[t] = r
      BY <2>2, <2>4 DEF Typed
    <3>2. r.got = <<>> /\ r.at = NextKey(r.snap, from) /\ From(r) = from
      BY <1>3, <2>1 DEF From
    <3>3. ScanOK(r)
      BY <1>0, <3>1, <3>2, OpenScanOK
    <3> QED
      BY <3>1, <3>3 DEF ScanOK, InScan, From, Seek
  <2> QED
    BY <2>3, <2>4
<1>4. ASSUME NEW u \in Threads, IterNext(u)
      PROVE  ScanOK(call[t])'
  <2>1. PICK c \in PrefixRecs \cup RangeRecs : c = call[u] /\ ScanOK(c) /\ Valid(c)
    BY <1>4, ScanFacts DEF IterNext
  <2>2. PICK r : r = [c EXCEPT !.got = Append(c.got, c.at), !.at = NextKey(c.snap, c.at + 1)]
    OBVIOUS
  <2>3. call' = [call EXCEPT ![u] = r]
    BY <1>4, <2>1, <2>2 DEF IterNext, Typed
  <2>4. CASE u # t
    BY <1>1, <2>3, <2>4 DEF Typed
  <2>5. CASE u = t
    <3>1. call'[t] = r
      BY <2>3, <2>5 DEF Typed
    <3>2. /\ r.op = c.op /\ r.scan = c.scan /\ r.snap = c.snap
          /\ r.got = Append(c.got, c.at) /\ r.at = NextKey(c.snap, c.at + 1)
      BY <2>1, <2>2 DEF PrefixRecs, RangeRecs
    <3>3. ScanOK(r)
      BY <1>0, <2>1, <3>1, <3>2, IterNextOK
    <3> QED
      BY <3>1, <3>3 DEF ScanOK, InScan, From, Seek
  <2> QED
    BY <2>4, <2>5
<1>5. ASSUME NEW u \in Threads, WriteFails(u) \/ WriteReturns(u) \/ ScanEnds(u)
      PROVE  ScanOK(call[t])'
  BY <1>2, <1>5, IdleFacts DEF WriteFails, WriteReturns, ScanEnds, Return
<1>6. ASSUME NEW u \in Threads, Write(u)
      PROVE  ScanOK(call[t])'
  <2>1. /\ Writing(u)' /\ \A w \in Threads : w # u /\ ~Writing(w) => call'[w] = call[w]
        /\ \A w \in Threads : w # u /\ Writing(w) => Writing(w)'
    BY <1>6, AppliedFacts DEF Write, Writing
  <2>2. ~Writing(t)'
    BY DEF Scans, Writing
  <2> QED
    BY <1>1, <2>1, <2>2
<1>7. ASSUME NEW u \in Threads, NEW K, NEW v, StartWrite(u, K, v)
      PROVE  ScanOK(call[t])'
  <2>1. PICK r : r = [op |-> "write", keys |-> K, value |-> v, done |-> FALSE, last |-> {}]
    OBVIOUS
  <2>2. r.op = "write" /\ call' = [call EXCEPT ![u] = r]
    BY <1>7, <2>1 DEF StartWrite
  <2> QED
    BY <1>2, <2>2
<1>8. ASSUME Stop
      PROVE  ScanOK(call[t])'
  BY <1>8, IdleFacts DEF Stop, Scans
<1>9. ASSUME UNCHANGED call
      PROVE  ScanOK(call[t])'
  BY <1>1, <1>9
<1>10. ASSUME NEW u \in Threads, NEW p, ScanPrefix(u, p)
       PROVE  ScanOK(call[t])'
  BY <1>3, <1>10 DEF ScanPrefix
<1>11. ASSUME NEW u \in Threads, NEW a, NEW b, ScanRange(u, a, b)
       PROVE  ScanOK(call[t])'
  BY <1>3, <1>11 DEF ScanRange
<1>12. CASE KvNext
  <2>1. CASE Stop \/ Open
    BY <1>8, <1>9, <2>1 DEF Open
  <2>2. ASSUME NEW u \in Threads,
               \/ Write(u) \/ WriteFails(u) \/ WriteReturns(u) \/ IterNext(u) \/ ScanEnds(u)
               \/ \E k \in Keys : Delete(u, k) \/ Get(u, k) \/ \E v \in Values : Put(u, k, v)
               \/ \E K \in Batches : MultiDelete(u, K) \/ \E v \in Values : MultiPut(u, K, v)
               \/ \E p \in {PrefixOf[k] : k \in Keys} : ScanPrefix(u, p)
               \/ \E a, b \in Keys : a < b /\ ScanRange(u, a, b)
               \/ \E a, b \in Keys : a < b /\ DeleteRange(u, a, b)
        PROVE  ScanOK(call[t])'
    BY <1>4, <1>5, <1>6, <1>7, <1>9, <1>10, <1>11, <2>2
       DEF Delete, Put, Get, MultiDelete, MultiPut, DeleteRange, kvVars
  <2> QED
    BY <1>12, <2>1, <2>2 DEF KvNext
<1> QED
  BY <1>9, <1>12 DEF kvVars

-----------------------------------------------------------------------------
(* The store starts empty.                                                 *)
LEMMA InitHolds ==
  ASSUME MaxStops \in Nat, BatchesApart, KvInit
  PROVE  WriteInv /\ ScanInv /\ BatchesWhole
<1>1. Empty \in Maps
  BY DEF Empty, Maps, Stored
<1>2. call \in [Threads -> Recs] /\ \A t \in Threads : call[t].op = "idle"
  BY IdleFacts DEF KvInit
<1>3. Typed
  BY <1>1, <1>2 DEF KvInit, Typed, KvTypeOK, Maps, Stored
<1>4. WritersOK /\ KeptOK /\ Synced
  BY <1>2 DEF KvInit, WritersOK, KeptOK, Synced, Writing
<1>5. Scans = {}
  BY <1>2 DEF Scans
<1>6. \A K \in Batches : \A k \in K : Empty[k] = NoValue
  BY DEF BatchesApart, Empty
<1>7. BatchesWhole
  BY <1>6 DEF KvInit, BatchesWhole
<1> QED
  BY <1>3, <1>4, <1>5, <1>7 DEF WriteInv, ScanInv

(* Every step keeps what is promised.                                      *)
LEMMA WritesKept ==
  ASSUME KeysOrdered, MaxStops \in Nat, BatchesApart, WriteInv, [KvNext]_kvVars
  PROVE  WriteInv'
<1>1. ASSUME NEW t \in Threads, WriteFails(t)
      PROVE  WriteInv'
  BY <1>1, QuietKeeps, IdleFacts DEF WriteFails, Return
<1>2. ASSUME NEW t \in Threads, ScanEnds(t)
      PROVE  WriteInv'
  BY <1>2, QuietKeeps, IdleFacts DEF ScanEnds, Return, Scans, Writing
<1>3. ASSUME NEW t \in Threads, IterNext(t)
      PROVE  WriteInv'
  <2>1. PICK c \in PrefixRecs \cup RangeRecs :
          /\ c = call[t] /\ c.snap \in Maps /\ c.at \in Keys \cup {0} /\ c.got \in Seq(Keys) /\ c.at # 0
    BY <1>3, ScanFacts DEF IterNext, WriteInv, Valid
  <2>2. PICK r : r = [c EXCEPT !.got = Append(c.got, c.at), !.at = NextKey(c.snap, c.at + 1)]
    OBVIOUS
  <2>3. call' = [call EXCEPT ![t] = r]
    BY <1>3, <2>1, <2>2 DEF IterNext, WriteInv, Typed
  <2>4. NextKey(c.snap, c.at + 1) \in Keys \cup {0}
    <3>1. PICK x \in Nat : x = c.at
      BY <2>1 DEF KeysOrdered
    <3>2. PICK n \in Nat : n = x + 1
      OBVIOUS
    <3>3. NextKey(c.snap, n) \in Keys \cup {0}
      BY <2>1, NextKeyFacts
    <3> QED
      BY <3>1, <3>2, <3>3
  <2>5. Append(c.got, c.at) \in Seq(Keys)
    BY <2>1
  <2>6. r \in Recs /\ r.op # "write"
    BY <2>1, <2>2, <2>4, <2>5 DEF Recs, PrefixRecs, RangeRecs
  <2>7. ~Writing(t)
    BY <1>3 DEF IterNext, Scans, Writing
  <2> QED
    BY <1>3, <2>3, <2>6, <2>7, QuietKeeps DEF IterNext
<1>4. ASSUME NEW t \in Threads, NEW r \in Recs, r.op # "write", call[t] = Idle,
             call' = [call EXCEPT ![t] = r], UNCHANGED <<db, durable, open, promised, hurt, loose, stops>>
      PROVE  WriteInv'
  BY <1>4, QuietKeeps, IdleFacts DEF Writing
<1>5. ASSUME NEW t \in Threads, NEW p \in {PrefixOf[k] : k \in Keys}, ScanPrefix(t, p)
      PROVE  WriteInv'
  <2>1. PICK r : r = [op |-> "prefix", scan |-> [op |-> "prefix", prefix |-> p], snap |-> db,
                      at |-> NextKey(db, Seek(p)), got |-> <<>>]
    OBVIOUS
  <2>2. db \in Maps
    BY DEF WriteInv, Typed, KvTypeOK, Maps, Stored
  <2>3. NextKey(db, Seek(p)) \in Keys \cup {0}
    BY <2>2, SeekFacts, NextKeyFacts DEF KeysOrdered
  <2>4. r \in Recs /\ r.op # "write"
    BY <2>1, <2>2, <2>3 DEF Recs, PrefixRecs
  <2> QED
    BY <1>4, <1>5, <2>1, <2>4 DEF ScanPrefix, OpenScan
<1>6. ASSUME NEW t \in Threads, NEW a \in Keys, NEW b \in Keys, ScanRange(t, a, b)
      PROVE  WriteInv'
  <2>1. PICK r : r = [op |-> "range", scan |-> [op |-> "range", from |-> a, end |-> b], snap |-> db,
                      at |-> NextKey(db, a), got |-> <<>>]
    OBVIOUS
  <2>2. db \in Maps
    BY DEF WriteInv, Typed, KvTypeOK, Maps, Stored
  <2>3. NextKey(db, a) \in Keys \cup {0}
    BY <2>2, NextKeyFacts DEF KeysOrdered
  <2>4. r \in Recs /\ r.op # "write"
    BY <2>1, <2>2, <2>3 DEF Recs, RangeRecs
  <2> QED
    BY <1>4, <1>6, <2>1, <2>4 DEF ScanRange, OpenScan
<1>7. CASE UNCHANGED kvVars
  BY <1>7 DEF kvVars, WriteInv, Typed, KvTypeOK, Synced, WritersOK, KeptOK, Pending, Writing
<1>8. /\ NoValue \in Stored /\ Values \subseteq Stored /\ Batches \subseteq SUBSET Keys
      /\ \A k \in Keys : {k} \in SUBSET Keys
      /\ \A a, b \in Keys : {k \in Keys : a <= k /\ k < b} \in SUBSET Keys
  BY DEF Stored, BatchesApart
<1>9. CASE KvNext
  BY <1>1, <1>2, <1>3, <1>5, <1>6, <1>7, <1>8, <1>9, StartKeeps, WriteKeeps, ReturnKeeps, StopKeeps, OpenKeeps
     DEF KvNext, Delete, Put, Get, MultiDelete, MultiPut, DeleteRange
<1> QED
  BY <1>7, <1>9

-----------------------------------------------------------------------------
(* The invariant of the writes, and that batches stand together.           *)
THEOREM StoreInvariance ==
  ASSUME KeysOrdered, MaxStops \in Nat, BatchesApart
  PROVE  KvSpec => [](WriteInv /\ ScanInv /\ BatchesWhole)
<1>1. KvInit => WriteInv /\ ScanInv /\ BatchesWhole
  BY InitHolds
<1>2. (WriteInv /\ ScanInv /\ BatchesWhole) /\ [KvNext]_kvVars => (WriteInv /\ ScanInv /\ BatchesWhole)'
  <2> SUFFICES ASSUME WriteInv, ScanInv, BatchesWhole, [KvNext]_kvVars
               PROVE  WriteInv' /\ ScanInv' /\ BatchesWhole'
    OBVIOUS
  <2>1. WriteInv'
    BY WritesKept
  <2>2. ScanInv'
    BY <2>1, ScansKept DEF WriteInv
  <2>3. BatchesWhole'
    BY WholeKept DEF WriteInv
  <2> QED
    BY <2>1, <2>2, <2>3
<1> QED
  BY <1>1, <1>2, PTL DEF KvSpec

(* A write that RocksStore answered OK is found at any later moment, after *)
(* any number of stops, until another write of the key is under way or a   *)
(* repair changes the key; of overlapping writes the one applied last is   *)
(* kept; the keys of a batch change together, also across a stop, but for  *)
(* keys written alone since or changed by a repair; and a finished         *)
(* ScanPrefix or ScanRange has read every key that was in the store when   *)
(* it began, in order and once, and none beside.                           *)
THEOREM AnswersSurvive ==
  ASSUME KeysOrdered, PrefixesTogether, MaxStops \in Nat, BatchesApart
  PROVE  KvSpec => []AnsweredSurvives
<1>1. WriteInv => KvTypeOK /\ AnsweredKept
  BY DEF WriteInv, Typed, KeptOK, WritersOK, Pending, Writing, AnsweredKept, Unanswered
<1>2. ScanInv => ScansExact
  <2> SUFFICES ASSUME ScanInv, NEW t \in Scans
               PROVE  LET c == call[t]
                      IN  /\ \A i \in 1..Len(c.got) : c.got[i] \in InScan(c)
                          /\ \A i, j \in 1..Len(c.got) : i < j => c.got[i] < c.got[j]
                          /\ ~Valid(c) => {c.got[i] : i \in 1..Len(c.got)} = InScan(c)
    BY DEF ScansExact
  <2>1. PICK c \in PrefixRecs \cup RangeRecs : c = call[t] /\ ScanOK(c)
    BY ScanFacts DEF ScanInv
  <2>2. ~Valid(c) => {c.got[i] : i \in 1..Len(c.got)} = InScan(c)
    BY <2>1, EndOK
  <2> QED
    BY <2>1, <2>2 DEF ScanOK
<1>3. WriteInv /\ ScanInv /\ BatchesWhole => AnsweredSurvives
  BY <1>1, <1>2 DEF AnsweredSurvives
<1> QED
  BY <1>3, StoreInvariance, PTL

-----------------------------------------------------------------------------
(* The cache of routers and the pool of connections. *)
Places == {"ask", "insert", "check", "send"}
WorkRecs == {NoWork} \cup [at : Places, extent : Extents]
            \cup [at : {"connect"}, extent : Extents, peer : Peers]

(* CacheTypes, what a thread carries from step to step, and what the       *)
(* collector keeps to: it reclaims what was deleted, with the blob or with *)
(* the user.                                                               *)
CacheTyped ==
  /\ CacheTypes /\ work \in [Bthreads -> WorkRecs]
  /\ \A e \in reclaimed : Collected(e)

(* A router that is about to be inserted into the cache, although its      *)
(* extent has been reclaimed, was answered before the reclaim, or after it *)
(* for a blob whose user was deleted.                                      *)
InsertsOK ==
  /\ \A t \in Bthreads : work[t].at = "insert" /\ work[t].extent \in reclaimed =>
       work[t].extent \in overtaken \cup handedOut
  /\ HandedOutOnlyUserless

(* A thread sends on the connection of the pool.                           *)
PooledOK == \A t \in Bthreads, p \in Peers : taken[t][p] # 0 => taken[t][p] = conns[p]

(* The inductive invariant.                                                *)
CacheInv == CacheTyped /\ PooledOK

(* The same with what keeps a shared cache free of reclaimed extents.      *)
SharedInv == CacheTyped /\ InsertsOK /\ ForgottenOnReclaim

-----------------------------------------------------------------------------
(* A record of a thread after the usual changes.                           *)
LEMMA WorkFacts ==
  ASSUME NEW w \in WorkRecs
  PROVE  /\ w.extent \in Extents \cup {NoExtent}
         /\ w.at # "idle" => w.extent \in Extents
         /\ w.at = "connect" => w.peer \in Peers
         /\ \A a \in Places : w.at \in Places => [w EXCEPT !.at = a] \in WorkRecs
         /\ \A a \in Places : w.at # "idle" => [at |-> a, extent |-> w.extent] \in WorkRecs
         /\ \A p \in Peers : w.at # "idle" => [at |-> "connect", extent |-> w.extent, peer |-> p] \in WorkRecs
BY DEF WorkRecs, Places, NoWork

(* NoWork is one of them.                                                    *)
LEMMA IdleWork == NoWork \in WorkRecs /\ NoWork.at = "idle" /\ NoWork.extent = NoExtent
BY DEF NoWork, WorkRecs

(* A request ends.                                                         *)
LEMMA FinishTyped ==
  ASSUME MaxConns \in Nat, CacheTyped, NEW t \in Bthreads, Finish(t)
  PROVE  /\ work' \in [Bthreads -> WorkRecs] /\ taken' \in [Bthreads -> [Peers -> 0..MaxConns]]
         /\ work'[t].at = "idle" /\ \A s \in Bthreads : s # t => work'[s] = work[s]
         /\ \A s \in Bthreads, p \in Peers : taken'[s][p] = 0 \/ taken'[s][p] = taken[s][p]
<1>1. NoConns \in [Peers -> 0..MaxConns] /\ \A p \in Peers : NoConns[p] = 0
  BY DEF NoConns
<1>2. work' = [work EXCEPT ![t] = NoWork] /\ taken' = [taken EXCEPT ![t] = NoConns]
  BY DEF Finish
<1> QED
  BY <1>1, <1>2, IdleWork DEF CacheTyped, CacheTypes

(* A thread goes on to the next step of its request.                       *)
LEMMA GotoTyped ==
  ASSUME CacheTyped, NEW t \in Bthreads, NEW a \in Places, work[t].at \in Places, Goto(t, a)
  PROVE  /\ work' \in [Bthreads -> WorkRecs]
         /\ work'[t].at = a /\ work'[t].extent = work[t].extent
         /\ \A s \in Bthreads : s # t => work'[s] = work[s]
<1>1. work' = [work EXCEPT ![t] = [work[t] EXCEPT !.at = a]] /\ work[t] \in WorkRecs
  BY DEF Goto, CacheTyped
<1>2. [work[t] EXCEPT !.at = a] \in WorkRecs
  BY <1>1, WorkFacts
<1>3. [work[t] EXCEPT !.at = a].at = a /\ [work[t] EXCEPT !.at = a].extent = work[t].extent
  BY <1>1 DEF WorkRecs, NoWork
<1> QED
  BY <1>1, <1>2, <1>3 DEF CacheTyped

(* A thread takes the record w.                                            *)
LEMMA WorkTyped ==
  ASSUME CacheTyped, NEW t \in Bthreads, NEW w \in WorkRecs, work' = [work EXCEPT ![t] = w]
  PROVE  /\ work' \in [Bthreads -> WorkRecs] /\ work'[t] = w
         /\ \A s \in Bthreads : s # t => work'[s] = work[s]
BY DEF CacheTyped

-----------------------------------------------------------------------------
(* What a step does to the threads' places and connections: enough for     *)
(* both invariants.  A thread comes to "insert" with an extent whose blob  *)
(* is not soft-deleted, and is written down if it was reclaimed; a         *)
(* connection is made once; a thread takes the pool's.                     *)
Effect(t) ==
  /\ work' \in [Bthreads -> WorkRecs] /\ taken' \in [Bthreads -> [Peers -> 0..MaxConns]]
  /\ \A s \in Bthreads : s # t => work'[s] = work[s]
  /\ conns' \in [Peers -> 0..MaxConns] /\ made' \in 0..MaxConns
  /\ work'[t].at = "insert" /\ work'[t].extent \in reclaimed => work'[t].extent \in handedOut'
  /\ handedOut \subseteq handedOut'
  /\ \A e \in handedOut' \ handedOut : e \in reclaimed /\ em[e] = "created"
  /\ \A p \in Peers : conns[p] # 0 => conns'[p] = conns[p]
  /\ \A s \in Bthreads, p \in Peers :
       taken'[s][p] = 0 \/ taken'[s][p] = conns'[p] \/ taken'[s][p] = taken[s][p]
  /\ UNCHANGED <<em, userless, reclaimed, overtaken>>

(* QueryRouter and the steps after it change nothing else of them.         *)
LEMMA Requests ==
  ASSUME MaxConns \in Nat, CacheTyped, NEW t \in Bthreads,
         \/ queryFromRemote(t) \/ InsertRouter(t) \/ checkOwnership(t) \/ MakeConnection(t) \/ Sent(t)
         \/ \E e \in Extents : QueryRouter(t, e)
         \/ \E p \in Peers : FindConnection(t, p)
  PROVE  Effect(t)
<1> USE DEF CacheTyped, CacheTypes, manager, cacheHistory
<1>0. work[t] \in WorkRecs /\ work[t].extent \in Extents \cup {NoExtent}
  BY WorkFacts
<1>1. CASE queryFromRemote(t)
  <2>1. CASE /\ em[work[t].extent] = "created"
             /\ handedOut' = handedOut \cup ({work[t].extent} \cap reclaimed)
             /\ Goto(t, "insert") /\ UNCHANGED taken
    BY <1>1, <2>1, GotoTyped DEF queryFromRemote, Effect, Places
  <2>2. CASE Finish(t) /\ UNCHANGED handedOut
    BY <1>1, <2>2, FinishTyped DEF queryFromRemote, Effect
  <2> QED
    BY <1>1, <2>1, <2>2 DEF queryFromRemote
<1>2. CASE InsertRouter(t)
  BY <1>2, GotoTyped DEF InsertRouter, Effect, Places
<1>3. CASE checkOwnership(t)
  <2>1. CASE Goto(t, "send") /\ UNCHANGED taken
    BY <1>3, <2>1, GotoTyped DEF checkOwnership, Effect, Places
  <2>2. CASE Finish(t)
    BY <1>3, <2>2, FinishTyped DEF checkOwnership, Effect
  <2> QED
    BY <1>3, <2>1, <2>2 DEF checkOwnership
<1>4. CASE MakeConnection(t)
  <2>0. PICK p \in Peers : p = work[t].peer
    BY <1>4, <1>0, WorkFacts DEF MakeConnection
  <2>1. ASSUME NEW c \in 0..MaxConns, Connect(t, p, c), conns[p] # 0 => c = conns[p], made' \in 0..MaxConns
        PROVE  Effect(t)
    <3>1. PICK w : w = [at |-> "send", extent |-> work[t].extent]
      OBVIOUS
    <3>2. w \in WorkRecs /\ w.at = "send"
      BY <1>0, <1>4, <3>1, WorkFacts DEF Places, MakeConnection
    <3>3. /\ work' = [work EXCEPT ![t] = w]
          /\ conns' = [conns EXCEPT ![p] = c] /\ taken' = [taken EXCEPT ![t][p] = c]
      BY <2>1, <3>1 DEF Connect
    <3>4. /\ work' \in [Bthreads -> WorkRecs] /\ work'[t].at = "send"
          /\ \A s \in Bthreads : s # t => work'[s] = work[s]
      BY <3>2, <3>3, WorkTyped
    <3>5. /\ taken' \in [Bthreads -> [Peers -> 0..MaxConns]]
          /\ taken'[t][p] = c
          /\ \A s \in Bthreads, q \in Peers : taken'[s][q] = taken[s][q] \/ (s = t /\ q = p)
      BY <3>3
    <3>6. conns' \in [Peers -> 0..MaxConns] /\ conns'[p] = c /\ \A q \in Peers : q # p => conns'[q] = conns[q]
      BY <3>3
    <3> QED
      BY <1>4, <2>1, <3>4, <3>5, <3>6 DEF MakeConnection, Effect
  <2>2. CASE conns[p] # 0
    BY <1>4, <2>0, <2>1, <2>2 DEF MakeConnection
  <2>3. CASE conns[p] = 0 /\ made < MaxConns /\ Connect(t, p, made + 1) /\ made' = made + 1
    <3>1. made + 1 \in 0..MaxConns
      BY <2>3
    <3> QED
      BY <2>1, <2>3, <3>1
  <2>4. CASE conns[p] = 0 /\ Finish(t) /\ UNCHANGED <<conns, made>>
    BY <1>4, <2>4, FinishTyped DEF MakeConnection, Effect
  <2> QED
    BY <1>4, <2>0, <2>2, <2>3, <2>4 DEF MakeConnection
<1>5. CASE Sent(t)
  BY <1>5, FinishTyped DEF Sent, Effect
<1>6. ASSUME NEW e \in Extents, QueryRouter(t, e)
      PROVE  Effect(t)
  <2>1. PICK w : w = [extent |-> e, at |-> IF e \in cache[CacheOf(t)] THEN "check" ELSE "ask"]
    OBVIOUS
  <2>2. w \in WorkRecs /\ w.at # "insert"
    BY <2>1 DEF WorkRecs, Places
  <2>3. work' = [work EXCEPT ![t] = w]
    BY <1>6, <2>1 DEF QueryRouter
  <2> QED
    BY <1>6, <2>2, <2>3, WorkTyped DEF QueryRouter, Effect
<1>7. ASSUME NEW p \in Peers, FindConnection(t, p)
      PROVE  Effect(t)
  <2>1. CASE conns[p] # 0
    <3>1. taken' = [taken EXCEPT ![t][p] = conns[p]] /\ work' = work
      BY <1>7, <2>1 DEF FindConnection
    <3>2. /\ taken' \in [Bthreads -> [Peers -> 0..MaxConns]]
          /\ taken'[t][p] = conns[p]
          /\ \A s \in Bthreads, q \in Peers : taken'[s][q] = taken[s][q] \/ (s = t /\ q = p)
      BY <3>1
    <3> QED
      BY <1>7, <3>1, <3>2 DEF FindConnection, Effect
  <2>2. CASE conns[p] = 0
    <3>1. PICK w : w = [at |-> "connect", extent |-> work[t].extent, peer |-> p]
      OBVIOUS
    <3>2. w \in WorkRecs /\ w.at = "connect"
      BY <1>0, <1>7, <3>1, WorkFacts DEF FindConnection
    <3>3. work' = [work EXCEPT ![t] = w] /\ taken' = taken
      BY <1>7, <2>2, <3>1 DEF FindConnection
    <3> QED
      BY <1>7, <3>2, <3>3, WorkTyped DEF FindConnection, Effect
  <2> QED
    BY <2>1, <2>2
<1> QED
  BY <1>1, <1>2, <1>3, <1>4, <1>5, <1>6, <1>7

-----------------------------------------------------------------------------
(* What the cache holds after a step: only an insert adds to it, and a     *)
(* shared cache is the one a reclaim removes from.                         *)
CacheEffect(t) ==
  /\ cache' \in [Caches -> SUBSET Extents]
  /\ \A c \in Caches : \A e \in cache'[c] :
       e \in cache[c] \/ (work[t].at = "insert" /\ e = work[t].extent)

(* The steps of requests fill the cache with what they have been answered. *)
LEMMA CacheFilled ==
  ASSUME CacheTyped, NEW t \in Bthreads,
         \/ queryFromRemote(t) \/ InsertRouter(t) \/ checkOwnership(t) \/ MakeConnection(t) \/ Sent(t)
         \/ Clear(t)
         \/ \E e \in Extents : QueryRouter(t, e)
         \/ \E p \in Peers : FindConnection(t, p)
  PROVE  CacheEffect(t)
<1>0. CacheOf(t) \in Caches /\ cache \in [Caches -> SUBSET Extents] /\ work[t] \in WorkRecs
  BY DEF CacheOf, Caches, CacheTyped, CacheTypes
<1>1. CASE InsertRouter(t)
  <2>1. PICK x : x = work[t].extent
    OBVIOUS
  <2>2. x \in Extents
    BY <1>0, <1>1, <2>1, WorkFacts DEF InsertRouter
  <2>3. cache' = [cache EXCEPT ![CacheOf(t)] = @ \cup {x}]
    BY <1>1, <2>1 DEF InsertRouter
  <2>4. \A c \in Caches : cache'[c] \subseteq cache[c] \cup {x}
    BY <1>0, <2>3
  <2>5. cache' \in [Caches -> SUBSET Extents]
    BY <1>0, <2>2, <2>3
  <2> QED
    BY <1>1, <2>1, <2>4, <2>5 DEF InsertRouter, CacheEffect
<1>2. CASE Clear(t)
  <2>1. cache' = [cache EXCEPT ![CacheOf(t)] = {}]
    BY <1>2 DEF Clear
  <2> QED
    BY <1>0, <2>1 DEF CacheEffect
<1>3. CASE UNCHANGED cache
  BY <1>0, <1>3 DEF CacheEffect
<1> QED
  BY <1>1, <1>2, <1>3 DEF queryFromRemote, checkOwnership, MakeConnection, Sent, QueryRouter, FindConnection

(* Both invariants hold at the start.                                      *)
LEMMA CacheStarts ==
  ASSUME MaxConns \in Nat, CacheInit
  PROVE  CacheInv /\ InsertsOK /\ ForgottenOnReclaim
<1>1. /\ work \in [Bthreads -> WorkRecs]
      /\ \A t \in Bthreads : work[t].at = "idle" /\ work[t].extent \in Extents \cup {NoExtent}
  BY IdleWork DEF CacheInit
<1>2. NoConns \in [Peers -> 0..MaxConns] /\ \A p \in Peers : NoConns[p] = 0
  BY DEF NoConns
<1>3. cache \in [Caches -> SUBSET Extents] /\ reclaimed = {} /\ overtaken = {} /\ handedOut = {}
  BY DEF CacheInit
<1>4. CacheTypes
  BY <1>1, <1>2, <1>3 DEF CacheInit, CacheTypes
<1>5. PooledOK
  BY <1>2 DEF CacheInit, PooledOK
<1> QED
  BY <1>1, <1>3, <1>4, <1>5 DEF CacheInv, CacheTyped, InsertsOK, ForgottenOnReclaim, HandedOutOnlyUserless

(* The extent manager answers for a reclaimed extent only if its blob is   *)
(* not soft-deleted, so that its user must be.                             *)
LEMMA RequestsKeep ==
  ASSUME MaxConns \in Nat, CacheTyped, NEW t \in Bthreads, Effect(t), CacheEffect(t)
  PROVE  /\ CacheTyped'
         /\ PooledOK => PooledOK'
         /\ InsertsOK => InsertsOK'
         /\ InsertsOK /\ ForgottenOnReclaim => ForgottenOnReclaim'
<1>1. \A s \in Bthreads : work'[s].extent \in Extents \cup {NoExtent}
  <2> TAKE s \in Bthreads
  <2> work'[s] \in WorkRecs
    BY DEF Effect
  <2> QED
    BY WorkFacts
<1>2. CacheTyped'
  <2>1. handedOut' \subseteq reclaimed
    BY DEF Effect, CacheTyped, CacheTypes
  <2> QED
    BY <1>1, <2>1 DEF Effect, CacheEffect, CacheTyped, CacheTypes, Caches, Collected
<1>3. ASSUME PooledOK
      PROVE  PooledOK'
  <2> SUFFICES ASSUME NEW s \in Bthreads, NEW p \in Peers, taken'[s][p] # 0
               PROVE  taken'[s][p] = conns'[p]
    BY DEF PooledOK
  <2>1. taken'[s][p] = conns'[p] \/ taken'[s][p] = taken[s][p]
    BY DEF Effect
  <2>2. ASSUME taken'[s][p] = taken[s][p]
        PROVE  taken'[s][p] = conns'[p]
    BY <1>3, <2>2 DEF PooledOK, Effect
  <2> QED
    BY <2>1, <2>2
<1>4. ASSUME InsertsOK
      PROVE  InsertsOK'
  <2>1. ASSUME NEW s \in Bthreads, work'[s].at = "insert", work'[s].extent \in reclaimed
        PROVE  work'[s].extent \in overtaken \cup handedOut'
    <3>1. CASE s = t
      BY <2>1, <3>1 DEF Effect
    <3>2. CASE s # t
      BY <1>4, <2>1, <3>2 DEF InsertsOK, Effect
    <3> QED
      BY <3>1, <3>2
  <2>2. handedOut' \subseteq userless
    BY <1>4 DEF InsertsOK, HandedOutOnlyUserless, Effect, CacheTyped, Collected
  <2> QED
    BY <2>1, <2>2 DEF InsertsOK, HandedOutOnlyUserless, Effect
<1>5. ASSUME InsertsOK, ForgottenOnReclaim
      PROVE  ForgottenOnReclaim'
  <2> SUFFICES ASSUME NEW c \in Caches, NEW e \in cache'[c], e \in reclaimed
               PROVE  e \in overtaken \cup handedOut'
    BY DEF ForgottenOnReclaim, Effect, Caches
  <2>1. e \in cache[c] \/ (work[t].at = "insert" /\ e = work[t].extent)
    BY DEF CacheEffect
  <2> QED
    BY <1>5, <2>1 DEF InsertsOK, ForgottenOnReclaim, Effect
<1> QED
  BY <1>2, <1>3, <1>4, <1>5

(* Clearing a cache drops routers and nothing else.                        *)
LEMMA ClearKeeps ==
  ASSUME MaxConns \in Nat, CacheTyped, NEW t \in Bthreads, Clear(t)
  PROVE  /\ CacheTyped'
         /\ PooledOK => PooledOK'
         /\ InsertsOK => InsertsOK'
         /\ InsertsOK /\ ForgottenOnReclaim => ForgottenOnReclaim'
<1>1. CacheEffect(t)
  BY CacheFilled
<1>2. work[t].at = "idle"
  BY IdleWork DEF Clear
<1> QED
  BY <1>1, <1>2 DEF Clear, CacheEffect, CacheTyped, CacheTypes, Caches, PooledOK, InsertsOK, ForgottenOnReclaim,
     HandedOutOnlyUserless, Collected, manager, cacheHistory

(* The extent manager soft-deletes a blob or a user, or deletes a router:  *)
(* a blob that is deleted stays so.                                        *)
LEMMA ManagerKeeps ==
  ASSUME CacheTyped, NEW e \in Extents, soft_delete_blob(e) \/ soft_delete_user(e) \/ delete_router(e)
  PROVE  /\ CacheTyped'
         /\ PooledOK => PooledOK'
         /\ InsertsOK => InsertsOK'
         /\ InsertsOK /\ ForgottenOnReclaim => ForgottenOnReclaim'
<1>1. UNCHANGED <<cache, conns, made, work, taken, reclaimed, overtaken, handedOut>>
  BY DEF soft_delete_blob, soft_delete_user, delete_router, cacheHistory
<1>2. em' \in [Extents -> {"created", "deleted", "gone"}] /\ userless \subseteq userless' /\ userless' \subseteq Extents
  BY DEF soft_delete_blob, soft_delete_user, delete_router, CacheTyped, CacheTypes
<1>3. \A f \in Extents : em[f] # "created" => em'[f] # "created"
  BY DEF soft_delete_blob, soft_delete_user, delete_router, CacheTyped, CacheTypes
<1>4. CacheTyped'
  BY <1>1, <1>2, <1>3 DEF CacheTyped, CacheTypes, Caches, Collected
<1> QED
  BY <1>1, <1>2, <1>4 DEF PooledOK, InsertsOK, ForgottenOnReclaim, HandedOutOnlyUserless, Caches

(* A reclaim: every other thread that is about to insert the router counts *)
(* as overtaken, and a cache that all share loses it.                      *)
LEMMA DeleteKeeps ==
  ASSUME CacheTyped, NEW t \in Bthreads, NEW e \in Extents, DeleteRouter(t, e)
  PROVE  /\ CacheTyped'
         /\ PooledOK => PooledOK'
         /\ InsertsOK => InsertsOK'
         /\ ThreadLocal = FALSE /\ ForgottenOnReclaim => ForgottenOnReclaim'
<1>0. CacheOf(t) \in Caches /\ cache \in [Caches -> SUBSET Extents]
  BY DEF CacheOf, Caches, CacheTyped, CacheTypes
<1>1. /\ cache' = [cache EXCEPT ![CacheOf(t)] = @ \ {e}]
      /\ reclaimed' = reclaimed \cup {e} /\ Collected(e)
      /\ UNCHANGED <<em, userless, conns, made, work, taken, handedOut>>
  BY DEF DeleteRouter, manager
<1>2. overtaken \subseteq overtaken' /\ overtaken' \subseteq overtaken \cup {e}
      /\ (Overtaken(e) => e \in overtaken')
  BY DEF DeleteRouter
<1>3. cache' \in [Caches -> SUBSET Extents] /\ \A c \in Caches : cache'[c] \subseteq cache[c]
  BY <1>0, <1>1
<1>4. CacheTyped'
  BY <1>1, <1>2, <1>3 DEF CacheTyped, CacheTypes, Caches, Collected
<1>5. PooledOK => PooledOK'
  BY <1>1 DEF PooledOK
<1>6. InsertsOK => InsertsOK'
  BY <1>1, <1>2 DEF InsertsOK, Overtaken, HandedOutOnlyUserless
<1>7. ASSUME ThreadLocal = FALSE, ForgottenOnReclaim
      PROVE  ForgottenOnReclaim'
  <2>1. \A c \in Caches : cache'[c] = cache[c] \ {e}
    BY <1>0, <1>1, <1>7 DEF Caches, CacheOf
  <2> QED
    BY <1>1, <1>2, <1>7, <2>1 DEF ForgottenOnReclaim, Caches
<1> QED
  BY <1>4, <1>5, <1>6, <1>7

(* Every step keeps the invariants; ForgottenOnReclaim is kept only by a *)
(* shared cache.                                                           *)
LEMMA NextKeeps ==
  ASSUME MaxConns \in Nat, CacheTyped, [CacheNext]_cacheVars
  PROVE  /\ CacheTyped'
         /\ PooledOK => PooledOK'
         /\ InsertsOK => InsertsOK'
         /\ ThreadLocal = FALSE /\ InsertsOK /\ ForgottenOnReclaim => ForgottenOnReclaim'
<1>1. ASSUME NEW t \in Bthreads,
             \/ queryFromRemote(t) \/ InsertRouter(t) \/ checkOwnership(t) \/ MakeConnection(t) \/ Sent(t)
             \/ \E e \in Extents : QueryRouter(t, e)
             \/ \E p \in Peers : FindConnection(t, p)
      PROVE  /\ CacheTyped'
             /\ PooledOK => PooledOK'
             /\ InsertsOK => InsertsOK'
             /\ InsertsOK /\ ForgottenOnReclaim => ForgottenOnReclaim'
  <2>1. Effect(t)
    BY <1>1, Requests
  <2>2. CacheEffect(t)
    BY <1>1, CacheFilled
  <2> QED
    BY <2>1, <2>2, RequestsKeep
<1>2. CASE UNCHANGED cacheVars
  BY <1>2 DEF cacheVars, manager, cacheHistory, CacheTyped, CacheTypes, Caches, Collected, PooledOK, InsertsOK,
     ForgottenOnReclaim, HandedOutOnlyUserless
<1> QED
  BY <1>1, <1>2, ClearKeeps, ManagerKeeps, DeleteKeeps DEF CacheNext

-----------------------------------------------------------------------------
(* The types hold and a thread that sends holds the pool's connection,     *)
(* whether the caches are shared or not.                                   *)
THEOREM CacheInvariance ==
  ASSUME MaxConns \in Nat
  PROVE  CacheSpec => []CacheInv
<1>1. CacheInit => CacheInv
  BY CacheStarts
<1>2. CacheInv /\ [CacheNext]_cacheVars => CacheInv'
  BY NextKeeps DEF CacheInv
<1> QED
  BY <1>1, <1>2, PTL DEF CacheSpec

(* Two threads that replicate to the same extent server send on the same   *)
(* connection: ConnectionPool looks again under its write lock, so that    *)
(* nobody replaces a connection another thread has taken.                  *)
THEOREM ConnectionsShared ==
  ASSUME MaxConns \in Nat
  PROVE  CacheSpec => []OneConnection
<1>1. CacheInv => OneConnection
  BY DEF CacheInv, PooledOK, OneConnection
<1> QED
  BY <1>1, CacheInvariance, PTL

(* With the one cache the server shares among its threads, the router of a *)
(* reclaimed extent is gone from it unless a query that was answered       *)
(* before the reclaim inserts it afterwards, or the blob was deleted with  *)
(* its user and a query was answered between the reclaim and the deletion  *)
(* of the manager's router; and threads that send to one server share its  *)
(* connection.                                                             *)
THEOREM ReclaimedForgotten ==
  ASSUME MaxConns \in Nat, ThreadLocal = FALSE
  PROVE  CacheSpec => []StaleOnlyIfAnswered
<1>1. CacheInit => SharedInv
  BY CacheStarts DEF CacheInv, SharedInv
<1>2. SharedInv /\ [CacheNext]_cacheVars => SharedInv'
  BY NextKeeps DEF SharedInv
<1>3. SharedInv => CacheTypes /\ ForgottenOnReclaim /\ HandedOutOnlyUserless
  BY DEF SharedInv, CacheTyped, InsertsOK
<1>4. CacheSpec => [](CacheTypes /\ ForgottenOnReclaim /\ HandedOutOnlyUserless)
  BY <1>1, <1>2, <1>3, PTL DEF CacheSpec
<1>5. CacheTypes /\ ForgottenOnReclaim /\ HandedOutOnlyUserless /\ OneConnection => StaleOnlyIfAnswered
  BY DEF StaleOnlyIfAnswered
<1> QED
  BY <1>4, <1>5, ConnectionsShared, PTL
=============================================================================
