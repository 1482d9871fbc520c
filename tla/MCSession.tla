------------------------------ MODULE MCSession ------------------------------
(***************************************************************************)
(* Small instances of Session: a Location with a secret of the store, and  *)
(* one that presents what it was built with.                               *)
(***************************************************************************)
EXTENDS Session, TLC

MCUserOf == "l" :> "u" @@ "m" :> "v"
MCBuilt == "l" :> NoCredential @@ "m" :> "q"
MCAdmits == {<<"u", "p">>, <<"v", "q">>}
=============================================================================
