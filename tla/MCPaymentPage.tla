----------------------------- MODULE MCPaymentPage -----------------------------
(***************************************************************************)
(* An instance of PaymentPage for TLC: one guest, who submits the booking  *)
(* twice and cards several times.                                          *)
(***************************************************************************)
EXTENDS PaymentPage, TLC

CONSTANTS s1, w1, w2, w3, k1, k2, k3, c1, c2

OneSession == [w \in Worker |-> s1]
OneBooking == [c \in Create |-> s1]

\* Requests, keys and creates of one guest are interchangeable.
PageSymmetry == Permutations(Worker) \cup Permutations(Key) \cup Permutations(Create)
=============================================================================
