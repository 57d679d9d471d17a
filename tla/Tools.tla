-------------------------------- MODULE Tools --------------------------------
(***************************************************************************)
(* The two tools that report on disks: cypretool's scrub, which compares   *)
(* the replicas of a blob, and the sanitizer, which wipes a device.  They  *)
(* are processes of their own and share no state.                          *)
(***************************************************************************)
EXTENDS Scrub, Sanitizer

ToolsSpec == ScrubSpec /\ WipeSpec

(* What the tools report is true.  Scrub::Verify finds no difference only  *)
(* if the blocks that stood still agree, finds one only if it is there or  *)
(* a block was changed, and returns before its calls have only if one has  *)
(* failed.  The sanitizer's "succeed" means that every unit of the range   *)
(* is zero and none beyond it was touched; it gives up only after four     *)
(* failures in a row at one place.                                         *)
ToolsTruthful == VerdictRight /\ NoneOutstanding /\ WipedExactly /\ FourInARow
=============================================================================
