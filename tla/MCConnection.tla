---------------------------- MODULE MCConnection -----------------------------
(***************************************************************************)
(* Small instances of Connection.                                          *)
(***************************************************************************)
EXTENDS Connection, TLC

MCSymmetry == Permutations(Caller) \cup Permutations(Conn)
=============================================================================
