----------------------------- MODULE MCExtentIO -----------------------------
(* A write, a read and a call of another kind at once (MCServer has the    *)
(* writes alone).                                                          *)
EXTENDS ExtentIO
=============================================================================
