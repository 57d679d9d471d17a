---------------------------- MODULE LocationTable ----------------------------
(***************************************************************************)
(* What the location manager of an extent server promises: a durable table *)
(* that gives every extent at most one byte range of the device.  A range  *)
(* is assigned once, avoids the ranges of all other extents, and stays     *)
(* until the extent is removed.  A crash loses nothing.                    *)
(***************************************************************************)
EXTENDS Integers

CONSTANTS
  Extents,   \* extent ids
  Ranges,    \* the byte ranges [offset, size] a location can be
  None       \* "no location"

VARIABLE table   \* [Extents -> byte range or None]

(* Two byte ranges have no byte in common.                                 *)
Apart(u, v) == \/ u.offset + u.size <= v.offset
               \/ v.offset + v.size <= u.offset

Init == table = [e \in Extents |-> None]

Assign(e) ==
  /\ table[e] = None
  /\ \E u \in Ranges :
       /\ \A f \in Extents : table[f] # None => Apart(u, table[f])
       /\ table' = [table EXCEPT ![e] = u]

Remove(e) ==
  /\ table[e] # None
  /\ table' = [table EXCEPT ![e] = None]

Next == \E e \in Extents : Assign(e) \/ Remove(e)

Spec == Init /\ [][Next]_table

=============================================================================
