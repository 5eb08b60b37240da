------------------------- MODULE MCConfirmationEmail --------------------------
(***************************************************************************)
(* An instance of ConfirmationEmail for TLC: the secret is changed while   *)
(* requests of the old and the new process run.                            *)
(***************************************************************************)
EXTENDS ConfirmationEmail, TLC

CONSTANTS w1, w2, w3, old, new

RotatedSecret == [w \in {w1, w2} |-> old] @@ w3 :> new
=============================================================================
