----------------------------- MODULE MCOAuthStates -----------------------------
(* Instances of OAuthStates for TLC.                                       *)
EXTENDS OAuthStates

NoFaults == {}
AllFaults == {"database", "crypto", "restart"}
Sometimes == BOOLEAN
Always == {TRUE}
=============================================================================
