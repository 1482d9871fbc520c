----------------------------- MODULE MCLoopback ------------------------------
(***************************************************************************)
(* A small instance of Loopback: a Location whose secret is in the store.  *)
(***************************************************************************)
EXTENDS Loopback, TLC

MCUserOf == "l" :> "u"
MCBuilt == "l" :> NoCredential
=============================================================================
