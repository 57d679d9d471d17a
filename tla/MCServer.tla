------------------------------ MODULE MCServer ------------------------------
(***************************************************************************)
(* An extent server's writes, what it keeps and what it remembers, checked *)
(* together: the path of an I/O, the key-value store, and the cache of     *)
(* routers with its connections.  They share no state here; a behaviour is *)
(* one of the part chosen at the start, the other parts stand still.       *)
(***************************************************************************)
EXTENDS ExtentIO, KvStore, RouterCache, TLC

VARIABLE part

(* Of the store: three keys of two prefixes; the first two are written as  *)
(* one batch, and each of the three also alone.                            *)
Prefixes == <<"a", "a", "b">>

(* Of the cache: two threads, two extents and two peers; this server is    *)
(* the primary of e1.                                                      *)
HomeRouters == [e \in {"e1", "e2"} |-> [primary |-> e = "e1", secondaries |-> {"p1", "p2"}]]

mcvars == <<part, vars, kvVars, cacheVars>>

MCInit == Init /\ KvInit /\ CacheInit /\ part \in {"io", "kv", "cache"}

MCNext ==
  \/ part = "io" /\ Next /\ UNCHANGED <<part, kvVars, cacheVars>>
  \/ part = "kv" /\ KvNext /\ UNCHANGED <<part, vars, cacheVars>>
  \/ part = "cache" /\ CacheNext /\ UNCHANGED <<part, vars, kvVars>>

MCSpec == MCInit /\ [][MCNext]_mcvars

Symmetry == Permutations(Secondaries)
=============================================================================
