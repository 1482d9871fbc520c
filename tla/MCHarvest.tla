------------------------------ MODULE MCHarvest ------------------------------
(***************************************************************************)
(* A small instance of Harvest: a file long enough for the thread to wait  *)
(* on a full place, and a file of one read.                                *)
(***************************************************************************)
EXTENDS Harvest, TLC

MCChunks == "a" :> 3 @@ "b" :> 1
=============================================================================
