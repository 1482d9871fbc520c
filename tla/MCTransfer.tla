----------------------------- MODULE MCTransfer ------------------------------
(***************************************************************************)
(* A small instance of Transfer: two messages under one name, of a piece   *)
(* and a half, and of two pieces, which is more than the far end takes.    *)
(***************************************************************************)
EXTENDS Transfer

MCTarget == [m \in Message |-> "a"]
MCBody == [m \in Message |-> IF m = "m" THEN <<1, 2, 3>> ELSE <<3, 3, 1, 2>>]
=============================================================================
