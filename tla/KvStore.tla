------------------------------ MODULE KvStore ------------------------------
(***************************************************************************)
(* RocksStore, the wrapper through which the extent manager and the extent *)
(* server keep their metadata: synchronous writes of one key or a batch,   *)
(* range deletes, and the two iterators recoveries and listings read with. *)
(* RocksDB itself is external: an ordered map whose writes are atomic and, *)
(* when synchronous, durable once they return; an iterator sees the map as *)
(* it was when it was opened.  The process may stop at any step, and the   *)
(* next Open may find the database corrupt and repair it, which may lose   *)
(* any keys, one of a batch included, or bring back what was deleted.      *)
(***************************************************************************)
EXTENDS Naturals, Sequences, FiniteSets

CONSTANTS
  Threads,
  Keys,      \* an interval of numbers: the order of the keys
  PrefixOf,  \* per key: the prefix it starts with
  Batches,   \* sets of keys that are written together (the routers of a blob)
  Values, NoValue,
  MaxStops   \* bound: stops of the process

VARIABLES
  db,       \* what RocksDB answers
  durable,  \* what of it is durable
  open,     \* whether the store is open
  call,     \* per thread: the call it is in
  promised, \* per key: what the writes that returned OK left (a stop settles the others)
  hurt,     \* keys a repair changed, until a write of them is answered
  loose,    \* keys written alone, or changed by a repair, after their batch
  stops

kvVars == <<db, durable, open, call, promised, hurt, loose, stops>>

Idle == [op |-> "idle"]
Empty == [k \in Keys |-> NoValue]

KvInit ==
  /\ db = Empty /\ durable = Empty /\ open = TRUE
  /\ call = [t \in Threads |-> Idle]
  /\ promised = Empty /\ hurt = {} /\ loose = {}
  /\ stops = 0

Set(f, K, v) == [k \in Keys |-> IF k \in K THEN v ELSE f[k]]
Return(t) == call' = [call EXCEPT ![t] = Idle]

(***************************************************************************)
(* Put and Delete are batches of one key, MultiPut, MultiDelete and        *)
(* DeleteRange of several; Write takes them mixed.  A write may fail.      *)
(* Nothing keeps two calls from writing the same key: managers that hold   *)
(* their lock shared do.  The last to be applied wins; `last` has the keys *)
(* of a call that no later write has overwritten.                          *)
(***************************************************************************)
StartWrite(t, K, v) ==
  /\ open /\ call[t] = Idle
  /\ call' = [call EXCEPT ![t] = [op |-> "write", keys |-> K, value |-> v, done |-> FALSE, last |-> {}]]
  /\ UNCHANGED <<db, durable, open, promised, hurt, loose, stops>>

Put(t, k, v) == StartWrite(t, {k}, v)
MultiPut(t, K, v) == StartWrite(t, K, v)
Delete(t, k) == StartWrite(t, {k}, NoValue)
MultiDelete(t, K) == StartWrite(t, K, NoValue)
DeleteRange(t, a, b) == StartWrite(t, {k \in Keys : a <= k /\ k < b}, NoValue)

\* The call of t is the last to have written its keys.
Applied(t) ==
  [u \in Threads |->
     IF u = t THEN [call[u] EXCEPT !.done = TRUE, !.last = call[t].keys]
     ELSE IF call[u].op = "write" THEN [call[u] EXCEPT !.last = @ \ call[t].keys] ELSE call[u]]

Together(K) == UNION {B \in Batches : B \subseteq K}

WriteUnsynced(t) ==
  /\ call[t].op = "write" /\ ~call[t].done
  /\ db' = Set(db, call[t].keys, call[t].value)
  /\ call' = Applied(t)
  /\ loose' = (loose \cup call[t].keys) \ Together(call[t].keys)
  /\ UNCHANGED <<durable, open, promised, hurt, stops>>

\* sync = true: the batch is in the map and on disk in one step.
Write(t) ==
  /\ call[t].op = "write" /\ ~call[t].done
  /\ db' = Set(db, call[t].keys, call[t].value)
  /\ durable' = Set(durable, call[t].keys, call[t].value)
  /\ call' = Applied(t)
  /\ loose' = (loose \cup call[t].keys) \ Together(call[t].keys)
  /\ UNCHANGED <<open, promised, hurt, stops>>

WriteFails(t) ==
  /\ call[t].op = "write" /\ ~call[t].done
  /\ Return(t)
  /\ UNCHANGED <<db, durable, open, promised, hurt, loose, stops>>

WriteReturns(t) ==
  /\ call[t].op = "write" /\ call[t].done
  /\ promised' = Set(promised, call[t].last, call[t].value)
  /\ hurt' = hurt \ call[t].last
  /\ Return(t)
  /\ UNCHANGED <<db, durable, open, loose, stops>>
-----------------------------------------------------------------------------
(***************************************************************************)
(* ScanPrefix and ScanRange: Seek to the first key, then Valid / value /   *)
(* Next until the key is no longer in the prefix or below the end.         *)
(***************************************************************************)
NextKey(snap, from) ==
  LET later == {k \in Keys : from <= k /\ snap[k] # NoValue}
  IN  IF later = {} THEN 0 ELSE CHOOSE k \in later : \A j \in later : k <= j

OpenScan(t, scan, from) ==
  /\ open /\ call[t] = Idle
  /\ call' = [call EXCEPT ![t] = [op |-> scan.op, scan |-> scan, snap |-> db,
                                  at |-> NextKey(db, from), got |-> <<>>]]
  /\ UNCHANGED <<db, durable, open, promised, hurt, loose, stops>>

\* The first key of a prefix.
Seek(p) == CHOOSE k \in Keys : PrefixOf[k] = p /\ \A j \in Keys : PrefixOf[j] = p => k <= j

ScanPrefix(t, p) == OpenScan(t, [op |-> "prefix", prefix |-> p], Seek(p))
ScanRange(t, a, b) == OpenScan(t, [op |-> "range", from |-> a, end |-> b], a)

Valid(c) ==
  /\ c.at # 0
  /\ IF c.op = "prefix" THEN PrefixOf[c.at] = c.scan.prefix ELSE c.at < c.scan.end

Scans == {t \in Threads : call[t].op \in {"prefix", "range"}}

IterNext(t) ==
  /\ t \in Scans /\ Valid(call[t])
  /\ call' = [call EXCEPT ![t].got = Append(@, call[t].at),
                          ![t].at = NextKey(call[t].snap, call[t].at + 1)]
  /\ UNCHANGED <<db, durable, open, promised, hurt, loose, stops>>

ScanEnds(t) ==
  /\ t \in Scans /\ ~Valid(call[t])
  /\ Return(t)
  /\ UNCHANGED <<db, durable, open, promised, hurt, loose, stops>>

\* Get and KeyExists read one key; KeyMayExist may say yes of a key that is not there.
Get(t, k) == open /\ call[t] = Idle /\ UNCHANGED kvVars
-----------------------------------------------------------------------------
Unanswered(k) == \E t \in Threads : call[t].op = "write" /\ k \in call[t].keys

\* The process stops, or closes the store; what is not on disk is gone.
Stop ==
  /\ open /\ stops < MaxStops
  /\ open' = FALSE /\ stops' = stops + 1
  /\ call' = [t \in Threads |-> Idle]
  /\ db' = durable
  /\ promised' = [k \in Keys |-> IF Unanswered(k) THEN durable[k] ELSE promised[k]]
  /\ UNCHANGED <<durable, hurt, loose>>

\* Open, or Open after a repair that left something else, or no success.
Open ==
  /\ ~open
  /\ open' = TRUE
  /\ \E found \in [Keys -> Values \cup {NoValue}] :
       /\ db' = found /\ durable' = found
       /\ hurt' = hurt \cup {k \in Keys : found[k] # durable[k]}
       /\ loose' = loose \cup {k \in Keys : found[k] # durable[k]}
  /\ UNCHANGED <<call, promised, stops>>

KvNext ==
  \/ \E t \in Threads :
       \/ Write(t) \/ WriteFails(t) \/ WriteReturns(t) \/ IterNext(t) \/ ScanEnds(t)
       \/ \E k \in Keys : Delete(t, k) \/ Get(t, k) \/ \E v \in Values : Put(t, k, v)
       \/ \E K \in Batches : MultiDelete(t, K) \/ \E v \in Values : MultiPut(t, K, v)
       \/ \E p \in {PrefixOf[k] : k \in Keys} : ScanPrefix(t, p)
       \/ \E a, b \in Keys : a < b /\ ScanRange(t, a, b)
       \/ \E a, b \in Keys : a < b /\ DeleteRange(t, a, b)
  \/ Stop \/ Open

KvSpec == KvInit /\ [][KvNext]_kvVars
-----------------------------------------------------------------------------
KvTypeOK ==
  /\ db \in [Keys -> Values \cup {NoValue}] /\ durable \in [Keys -> Values \cup {NoValue}]
  /\ promised \in [Keys -> Values \cup {NoValue}] /\ hurt \subseteq Keys /\ loose \subseteq Keys
  /\ open \in BOOLEAN /\ stops \in 0..MaxStops
  /\ \A t \in Threads : call[t].op \in {"idle", "write", "prefix", "range"}

(* A write that was answered OK survives a stop at any later moment; until *)
(* it is answered the old or the new value may be found, and of writes     *)
(* that overlap the one applied last is kept.  Only a repair may change a  *)
(* key.                                                                    *)
AnsweredKept ==
  \A k \in Keys \ hurt : open /\ ~Unanswered(k) => db[k] = promised[k]

(* The keys of a batch (the routers of a blob, the groups of a pool) change*)
(* together, also across a stop and under overlapping writes.  A key that  *)
(* was later written alone, or that a repair changed, is set apart: a      *)
(* repair may leave a part of a batch.                                     *)
BatchesWhole ==
  \A K \in Batches : \A j, k \in K \ loose : db[j] = db[k] /\ durable[j] = durable[k]

(* A scan that has come to its end has read every key of its prefix or     *)
(* range that was in the store when it began, in order and once each, and  *)
(* none beside it, whatever was written meanwhile.                         *)
InScan(c) == {k \in Keys : /\ c.snap[k] # NoValue
                           /\ IF c.op = "prefix" THEN PrefixOf[k] = c.scan.prefix
                                                 ELSE c.scan.from <= k /\ k < c.scan.end}
ScansExact ==
  \A t \in Scans :
    LET c == call[t]
    IN  /\ \A i \in 1..Len(c.got) : c.got[i] \in InScan(c)
        /\ \A i, j \in 1..Len(c.got) : i < j => c.got[i] < c.got[j]
        /\ ~Valid(c) => {c.got[i] : i \in 1..Len(c.got)} = InScan(c)

(* What RocksStore promises its callers: answered writes survive a stop,   *)
(* batches change as one, also across a stop, but for keys that a repair   *)
(* has changed, and scans read what was there.                             *)
AnsweredSurvives == KvTypeOK /\ AnsweredKept /\ BatchesWhole /\ ScansExact
=============================================================================
