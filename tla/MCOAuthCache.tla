----------------------------- MODULE MCOAuthCache ------------------------------
(***************************************************************************)
(* An instance of OAuthCache for TLC: two threads of one account and one   *)
(* of another.                                                             *)
(***************************************************************************)
EXTENDS OAuthCache, TLC

CONSTANTS c1, c2, c3, qa, prod

MixedConfigs == c1 :> qa @@ c2 :> qa @@ c3 :> prod
=============================================================================
