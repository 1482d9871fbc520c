------------------------------ MODULE MCListing ------------------------------
(***************************************************************************)
(* Small instances of Listing.  Of the names "." is <<0>>; <<9>> is not    *)
(* UTF-8; a length takes both words of a u64.                              *)
(***************************************************************************)
EXTENDS Listing

MCName == {<<0>>, <<1, 2>>, <<9>>}
MCText == {<<0>>, <<1, 2>>}
MCDots == {<<0>>}
MCExtension == {<<1, 2>>}
=============================================================================
