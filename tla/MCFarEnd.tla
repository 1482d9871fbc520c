------------------------------ MODULE MCFarEnd -------------------------------
(***************************************************************************)
(* Small instances of FarEnd.                                              *)
(***************************************************************************)
EXTENDS FarEnd, TLC

\* One byte and nothing: enough for a write to leave a hole before it, to
\* overwrite, and to touch without changing.
MCData == {<<>>, <<1>>}
MCOffset == {0, 1, WordMax}

MCSymmetry == Permutations(Name) \cup Permutations(Channel)
=============================================================================
