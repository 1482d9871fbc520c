------------------------------ MODULE Loopback -------------------------------
(***************************************************************************)
(* A Location's probe of itself (src/src/loopback.rs): a far end in the    *)
(* process that serves one client with its own check, and the near end     *)
(* that connects to it as the Location does and puts one file.  The        *)
(* connection between the two is Session's, with Self its one Location and *)
(* FarEndCheck for what admits.                                            *)
(***************************************************************************)
EXTENDS Session

CONSTANT Self  \* the Location probed

\* far_end's check: what Self was built with admits its user; where it was
\* built with nothing, nobody is.
FarEndCheck == {<<UserOf[Self], Built[Self]>>} \cap (User \X Credential)

-----------------------------------------------------------------------------
\* "admitting its near end's user with the one password or key it presents,
\* if it presents one" (far_end): no credential the near end presents is
\* turned down.
PresenterAdmitted == \A t \in turned : t[2] = NoCredential
=============================================================================
