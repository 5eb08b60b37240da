---------------------------- MODULE CardGuarantee ----------------------------
(***************************************************************************)
(* What the payment service promises, without sessions, requests, a        *)
(* registrar or a processor: a stay waits for a card; once one is stored   *)
(* the stay can only be confirmed, before that it can only be cancelled,   *)
(* and both are final.  No card is stored of a stay that is cancelled, and *)
(* none is ever lost.                                                      *)
(***************************************************************************)
CONSTANT Stay

VARIABLES
  standing,   \* standing[s]: pending_payment, confirmed or cancelled
  guaranteed  \* guaranteed[s]: the processor has a card of the guest of s

Init ==
  /\ standing = [s \in Stay |-> "pending_payment"]
  /\ guaranteed = [s \in Stay |-> FALSE]

StoreCard(s) ==
  /\ standing[s] = "pending_payment" /\ ~guaranteed[s]
  /\ guaranteed' = [guaranteed EXCEPT ![s] = TRUE]
  /\ UNCHANGED standing

Confirm(s) ==
  /\ standing[s] = "pending_payment" /\ guaranteed[s]
  /\ standing' = [standing EXCEPT ![s] = "confirmed"]
  /\ UNCHANGED guaranteed

Cancel(s) ==
  /\ standing[s] = "pending_payment" /\ ~guaranteed[s]
  /\ standing' = [standing EXCEPT ![s] = "cancelled"]
  /\ UNCHANGED guaranteed

Next == \E s \in Stay : StoreCard(s) \/ Confirm(s) \/ Cancel(s)

Spec == Init /\ [][Next]_<<standing, guaranteed>>
=============================================================================
