------------------------- MODULE MCPaymentCompletion --------------------------
(***************************************************************************)
(* Instances of PaymentCompletion for TLC.                                 *)
(***************************************************************************)
EXTENDS PaymentCompletion, TLC

CONSTANTS s1, w1, w2, w3, w4, k1, k2, k3

\* All requests present the token of one session: a double click, a second
\* tab, a retry.
OneSession == [w \in Worker |-> s1]

\* All requests present one token, so they are interchangeable, as keys are.
WorkerSymmetry == Permutations(Worker) \cup Permutations(Key)
=============================================================================
