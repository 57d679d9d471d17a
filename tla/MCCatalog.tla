------------------------------ MODULE MCCatalog ------------------------------
(***************************************************************************)
(* The users of the extent manager and its catalog of pools and blobs,     *)
(* checked together.  They share no state here; a behaviour is one of the  *)
(* part chosen at the start, and the other stays as it began.              *)
(***************************************************************************)
EXTENDS UserManager, Catalog, TLC

CONSTANTS t1, t2, u1, u2, n1, n2

VARIABLE part

(* Of the catalog: two pools of different size.                            *)
Capacities == <<1, 2>>

MCInit ==
  /\ part \in {"users", "catalog"}
  /\ Init /\ CatalogInit

MCNext ==
  \/ part = "users" /\ Next /\ UNCHANGED <<part, catalogVars>>
  \/ part = "catalog" /\ CatalogNext /\ UNCHANGED <<part, vars>>

MCSpec == MCInit /\ [][MCNext]_<<part, vars, catalogVars>>

Symmetry == Permutations({t1, t2}) \cup Permutations({n1, n2}) \cup Permutations({u1, u2})
=============================================================================
