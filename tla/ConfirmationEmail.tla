-------------------------- MODULE ConfirmationEmail ---------------------------
(***************************************************************************)
(* The confirmation email of one confirmed reservation under pending_v7:   *)
(* payment_completion._attempt_confirmation_email with                     *)
(* cancellation_capability.persist_cancellation_capability_hash.           *)
(*                                                                         *)
(* Every request that finds the reservation confirmed tries to send it.    *)
(* The delivery row is leased with a claim id for two minutes, no          *)
(* transaction is open while SMTP runs, and the emailed cancellation link  *)
(* works only if the hash of its token is in the cancellation row.  The    *)
(* lease functions live in another repository and are modelled by what     *)
(* this one relies on.                                                     *)
(***************************************************************************)
EXTENDS Naturals, FiniteSets

CONSTANTS
  Worker,        \* requests that reach the email; a claim id is its worker
  Secret,        \* values CANCELLATION_TOKEN_SECRET has had
  SecretOf,      \* SecretOf[w]: the secret of the process that runs w
  CreateSecret,  \* the secret of the process that created the reservation
  None

ASSUME SecretAssumption ==
  SecretOf \in [Worker -> Secret] /\ CreateSecret \in Secret

ASSUME NoneAssumption == None \notin Worker

VARIABLES
  delivery,  \* delivery_status of the email row
  lease,     \* its claim id
  fresh,     \* the lease is younger than two minutes
  hash,      \* cancellation_token_hash: a placeholder's or a token's
  used,      \* token_usage: the guest has cancelled
  late,      \* workers whose UPDATE is on its way and not waited for
  pc,        \* pc[w]: where worker w is
  seen,      \* seen[w]: the hash w read
  flag,      \* flag[w]: the email_sent w answered with
  mailed     \* the workers whose email the provider accepted

leaseVars  == <<delivery, lease, fresh>>
rowVars    == <<hash, used, late>>
workerVars == <<pc, seen, flag>>
vars == <<leaseVars, rowVars, workerVars, mailed>>

Placeholder(x) == <<"placeholder", x>>
Token(x)       == <<"token", x>>
Hash           == {"placeholder", "token"} \X Secret

TypeOK ==
  /\ delivery \in {"PENDING", "SENDING", "SENT"}
  /\ lease \in Worker \cup {None}
  /\ fresh \in BOOLEAN
  /\ hash \in Hash
  /\ seen \in [Worker -> Hash \cup {None}]
  /\ used \in BOOLEAN
  /\ late \subseteq Worker
  /\ pc \in [Worker -> {"claim", "fetch", "read", "update", "verify", "smtp",
                        "mark", "release", "done"}]
  /\ flag \in [Worker -> {"none", "sent", "not_sent"}]
  /\ mailed \subseteq Worker

Init ==
  /\ delivery = "PENDING" /\ lease = None /\ fresh = FALSE
  /\ hash = Placeholder(CreateSecret) /\ used = FALSE /\ late = {}
  /\ pc = [w \in Worker |-> "claim"]
  /\ seen = [w \in Worker |-> None]
  /\ flag = [w \in Worker |-> "none"]
  /\ mailed = {}

-----------------------------------------------------------------------------
Goto(w, next) == pc' = [pc EXCEPT ![w] = next] /\ UNCHANGED flag

Answer(w, value) ==
  /\ pc' = [pc EXCEPT ![w] = "done"]
  /\ flag' = [flag EXCEPT ![w] = value]

\* claim_reservation_confirmation_email: already_sent, in_progress, or a lease
\* under a new claim id, whose reply may be lost.
Claim(w) ==
  /\ pc[w] = "claim"
  /\ \/ delivery = "SENT" /\ Answer(w, "sent") /\ UNCHANGED leaseVars
     \/ /\ delivery = "SENDING" /\ fresh
        /\ Answer(w, "not_sent")
        /\ UNCHANGED leaseVars
     \/ /\ delivery = "PENDING" \/ (delivery = "SENDING" /\ ~fresh)
        /\ delivery' = "SENDING" /\ lease' = w /\ fresh' = TRUE
        /\ (Goto(w, "fetch") \/ Answer(w, "not_sent"))
     \/ Answer(w, "not_sent") /\ UNCHANGED leaseVars
  /\ UNCHANGED <<seen, rowVars, mailed>>

\* fetch_confirmation and the secret; without either nothing is sent.
Fetch(w) ==
  /\ pc[w] = "fetch"
  /\ (Goto(w, "read") \/ Goto(w, "release"))
  /\ UNCHANGED <<seen, leaseVars, rowVars, mailed>>

\* Mutant: any hash that is not the current one is taken for the placeholder.
ClassifyLoosely(stored, x) ==
  IF stored = Token(x) THEN "match_current" ELSE "placeholder"

\* classify_stored_hash, in a process whose secret is x.
Classify(stored, x) ==
  CASE stored = Token(x)       -> "match_current"
    [] stored = Placeholder(x) -> "placeholder"
    [] OTHER                   -> "incompatible"

\* persist_cancellation_capability_hash reads the cancellation row; a used or
\* incompatible row, or a failed query, sends nothing.
ReadRow(w) ==
  LET decision == Classify(hash, SecretOf[w]) IN
  /\ pc[w] = "read"
  /\ \/ /\ ~used /\ decision = "match_current"
        /\ Goto(w, "smtp")
        /\ UNCHANGED seen
     \/ /\ ~used /\ decision = "placeholder"
        /\ seen' = [seen EXCEPT ![w] = hash]
        /\ Goto(w, "update")
     \/ Goto(w, "release") /\ UNCHANGED seen
  /\ UNCHANGED <<leaseVars, rowVars, mailed>>

\* The UPDATE on condition that the row is as it was read: no row back is
\* verified, no reply sends nothing.
UpdateRow(w) ==
  /\ pc[w] = "update"
  /\ \/ /\ ~used /\ hash = seen[w]
        /\ hash' = Token(SecretOf[w])
        /\ (Goto(w, "smtp") \/ Goto(w, "release"))
        /\ UNCHANGED late
     \/ /\ used \/ hash # seen[w]
        /\ Goto(w, "verify")
        /\ UNCHANGED <<hash, late>>
     \/ /\ late' = late \cup {w}
        /\ Goto(w, "release")
        /\ UNCHANGED hash
  /\ UNCHANGED <<leaseVars, seen, used, mailed>>

VerifyRow(w) ==
  /\ pc[w] = "verify"
  /\ \/ ~used /\ hash = Token(SecretOf[w]) /\ Goto(w, "smtp")
     \/ Goto(w, "release")
  /\ UNCHANGED <<seen, leaseVars, rowVars, mailed>>

\* Mutant: the error that send_email returns is overlooked.
SendIgnoringError(w) ==
  /\ pc[w] = "smtp"
  /\ \/ mailed' = mailed \cup {w}
     \/ UNCHANGED mailed
  /\ Goto(w, "mark")
  /\ UNCHANGED <<seen, leaseVars, rowVars>>

\* send_email: the provider accepts, or refuses, or accepts and the
\* connection breaks.
Send(w) ==
  /\ pc[w] = "smtp"
  /\ \/ mailed' = mailed \cup {w} /\ (Goto(w, "mark") \/ Goto(w, "release"))
     \/ UNCHANGED mailed /\ Goto(w, "release")
  /\ UNCHANGED <<seen, leaseVars, rowVars>>

\* Mutant: the claim id is not compared.
HoldsAnyLease(w) == delivery = "SENDING"

\* mark and release need the claim id of the lease (stale_email_claim).
HoldsLease(w) == delivery = "SENDING" /\ lease = w

\* Mutant: a status claim does not know.
MarkMisspelt(w) ==
  /\ pc[w] = "mark" /\ HoldsLease(w)
  /\ delivery' = "DELIVERED" /\ lease' = None /\ fresh' = FALSE
  /\ Answer(w, "sent")
  /\ UNCHANGED <<seen, rowVars, mailed>>

\* mark_reservation_confirmation_email_sent; whatever it answers the provider
\* has the mail.
Mark(w) ==
  /\ pc[w] = "mark"
  /\ \/ HoldsLease(w) /\ delivery' = "SENT" /\ lease' = None /\ fresh' = FALSE
     \/ UNCHANGED leaseVars
  /\ Answer(w, "sent")
  /\ UNCHANGED <<seen, rowVars, mailed>>

\* release_reservation_confirmation_email_claim, or its failure.
Release(w) ==
  /\ pc[w] = "release"
  /\ \/ HoldsLease(w) /\ delivery' = "PENDING" /\ lease' = None /\ fresh' = FALSE
     \/ UNCHANGED leaseVars
  /\ Answer(w, "not_sent")
  /\ UNCHANGED <<seen, rowVars, mailed>>

-----------------------------------------------------------------------------
Die(w) ==
  /\ pc[w] # "done"
  /\ pc' = [pc EXCEPT ![w] = "done"]
  /\ UNCHANGED <<seen, flag, leaseVars, rowVars, mailed>>

\* Two minutes pass.
GoStale ==
  /\ delivery = "SENDING" /\ fresh
  /\ fresh' = FALSE
  /\ UNCHANGED <<delivery, lease, rowVars, workerVars, mailed>>

\* An UPDATE that nobody waits for is applied, or finds the row changed.
DeliverUpdate(w) ==
  /\ w \in late
  /\ late' = late \ {w}
  /\ hash' = IF ~used /\ hash = seen[w] THEN Token(SecretOf[w]) ELSE hash
  /\ UNCHANGED <<used, leaseVars, workerVars, mailed>>

\* A guest follows the link of an email (cancel_public_booking).
GuestCancels(w) ==
  /\ w \in mailed /\ hash = Token(SecretOf[w]) /\ ~used
  /\ used' = TRUE
  /\ UNCHANGED <<hash, late, leaseVars, workerVars, mailed>>

Finished == (\A w \in Worker : pc[w] = "done") /\ UNCHANGED vars

Next ==
  \/ \E w \in Worker :
       \/ Claim(w) \/ Fetch(w) \/ ReadRow(w) \/ UpdateRow(w) \/ VerifyRow(w)
       \/ Send(w) \/ Mark(w) \/ Release(w) \/ Die(w)
       \/ DeliverUpdate(w) \/ GuestCancels(w)
  \/ GoStale
  \/ Finished

Spec == Init /\ [][Next]_vars

-----------------------------------------------------------------------------
(* Safety.                                                                 *)

\* "Prefer duplicate over silent loss": neither the row nor an answer says that
\* the email was sent unless the provider accepted one (the two ends of
\* _attempt_confirmation_email).
NoSilentLoss ==
  (delivery = "SENT" \/ \E w \in Worker : flag[w] = "sent") => mailed # {}

\* Every email ever sent carries a link that works: the hash of its token is
\* the one stored, although workers race to store it and may run with
\* different secrets (persist before send, and the conditional UPDATE).
EveryLinkWorks == \A w \in mailed : hash = Token(SecretOf[w])

\* Why EveryLinkWorks and NoSilentLoss hold: whoever is at the provider has its
\* own hash in the row, and whoever may still write one has read the placeholder.
EmailInv ==
  /\ TypeOK /\ NoSilentLoss /\ EveryLinkWorks
  /\ \A w \in Worker :
       /\ pc[w] = "smtp" => hash = Token(SecretOf[w])
       /\ pc[w] = "update" \/ w \in late => seen[w] = Placeholder(SecretOf[w])
       /\ w \in late => pc[w] \in {"release", "done"}
       /\ pc[w] = "mark" => mailed # {}

\* A lease ends by its holder's own mark or release, or is taken over when it
\* is stale: a late worker never ends the lease of a newer one.
LeaseIsOwn ==
  [][lease' # lease =>
       \/ lease = None
       \/ lease' \in Worker /\ ~fresh
       \/ pc[lease] \in {"mark", "release"} /\ pc'[lease] = "done"]_vars

\* "sent" stands in the delivery row or in an answer to the browser.
SaidSent == delivery = "SENT" \/ \E w \in Worker : flag[w] = "sent"

Delivery == INSTANCE LinkDelivery WITH
  Link     <- Secret,
  works    <- {x \in Secret : hash = Token(x)},
  inbox    <- {SecretOf[w] : w \in mailed},
  reported <- SaidSent,
  followed <- used

\* Workers, leases, late updates and changed secrets together deliver one link:
\* repeated mails carry the same one, and "sent" is never said early or taken back.
ImplementsDelivery == Delivery!Spec
=============================================================================
