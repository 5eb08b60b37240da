----------------------------- MODULE LinkDelivery -----------------------------
(***************************************************************************)
(* What the confirmation email promises, without leases, workers, hashes   *)
(* or a mail server: one link is chosen once and for good, the guest gets  *)
(* no other, however often the mail is sent; only after that may the       *)
(* system say that it was sent, and what was said stands; only a link that *)
(* was mailed cancels, once.                                               *)
(***************************************************************************)
CONSTANT Link

VARIABLES
  works,     \* the links that the reservation accepts
  inbox,     \* the links the guest was sent
  reported,  \* the system says that the mail was sent
  followed   \* the guest has cancelled by a link

Init == works = {} /\ inbox = {} /\ reported = FALSE /\ followed = FALSE

Choose(l) ==
  /\ works = {} /\ ~followed
  /\ works' = {l}
  /\ UNCHANGED <<inbox, reported, followed>>

Mail(l) ==
  /\ l \in works
  /\ inbox' = inbox \cup {l}
  /\ UNCHANGED <<works, reported, followed>>

Report ==
  /\ inbox # {}
  /\ reported' = TRUE
  /\ UNCHANGED <<works, inbox, followed>>

Follow(l) ==
  /\ l \in inbox /\ l \in works /\ ~followed
  /\ followed' = TRUE
  /\ UNCHANGED <<works, inbox, reported>>

Next == Report \/ \E l \in Link : Choose(l) \/ Mail(l) \/ Follow(l)

Spec == Init /\ [][Next]_<<works, inbox, reported, followed>>
=============================================================================
