--------------------------- MODULE MCBlobLifecycle ---------------------------
(***************************************************************************)
(* The life of a blob under all faults but lost calls, and the access      *)
(* layer that leads requests to the managers of the sets, checked together.*)
(* They share no state here; a behaviour is one of the part chosen at the  *)
(* start, the other part stands still.                                     *)
(***************************************************************************)
EXTENDS BlobLifecycle, Access

VARIABLE part

(* Of the access layer: two sets, a user and two requests at once.  The    *)
(* manager of the first set may move to the host of the second, and that   *)
(* of the second to another port of its host.                              *)
Places == {<<1, 1>>, <<2, 1>>, <<2, 2>>}
FirstPlaces == <<<<1, 1>>, <<2, 1>>>>
SetHosts == <<{1, 2}, {2}>>
SetOrder == <<1, 2>>

MCInit == part \in {"blobs", "access"} /\ Init /\ AccessInit

MCNext ==
  \/ part = "blobs" /\ Next /\ UNCHANGED <<part, accessVars>>
  \/ part = "access" /\ AccessNext /\ UNCHANGED <<part, vars>>

MCSpec == MCInit /\ [][MCNext]_<<part, vars, accessVars>>
=============================================================================
