-------------------------- MODULE PaymentCompletion ---------------------------
(***************************************************************************)
(* POST /api/complete-payment under the pending_v7 contract                *)
(* (payment_completion.complete_pending_payment) composed with the         *)
(* credential registrar, the expiry sweeper (payment_expiry) and the       *)
(* operator's recovery calls (payment_reconciliation).                     *)
(*                                                                         *)
(* The SQL functions the handlers call live in another repository; they    *)
(* are modelled by what this one relies on: one transaction each, with the *)
(* guards named by the error identifiers the handlers map.  Any call may   *)
(* fail, or commit and lose its reply.                                     *)
(*                                                                         *)
(* A session is identified with its reservation and its canonical booking. *)
(***************************************************************************)
EXTENDS Naturals, FiniteSets

CONSTANTS
  Worker,     \* requests to /api/complete-payment
  Session,    \* payment sessions
  SessionOf,  \* SessionOf[w]: the session whose token request w presents
  Key,        \* registration idempotency keys the database may mint
  None

ASSUME SessionAssumption == SessionOf \in [Worker -> Session]

ASSUME NoneAssumption == None \notin Key /\ None \notin Session

VARIABLES
  session,      \* session[s]: status of payment session s
  overdue,      \* overdue[s]: SESSION_TTL has passed
  attempt,      \* attempt[s]: current_registration_idempotency_key
  reservation,  \* reservation[s]: booking_status of its rows
  minted,       \* the keys handed out so far
  pc,           \* pc[w]: where request w is
  reply,        \* reply[w]: what its browser was told
  status, owner, late, posted, moneris,   \* the credential table and the processor
  step, key, booking, result      \* the registrar's calls, one per request

Registrar == INSTANCE CredentialRegistration WITH Call <- Worker, Booking <- Session

sessionVars   == <<session, overdue, attempt, reservation, minted>>
workerVars    == <<pc, reply>>
registrarVars == <<status, owner, late, posted, moneris, step, key, booking, result>>
vars == <<sessionVars, workerVars, registrarVars>>

Reply == {"none", "success", "in_progress", "expired", "retry", "refused",
          "reconcile", "error", "dead"}

TypeOK ==
  /\ session \in [Session -> {"OPEN", "PROCESSING", "CONSUMED", "EXPIRED"}]
  /\ overdue \in [Session -> BOOLEAN]
  /\ attempt \in [Session -> Key \cup {None}]
  /\ reservation \in [Session -> {"pending_payment", "confirmed", "cancelled"}]
  /\ minted \subseteq Key
  /\ pc \in [Worker -> {"claim", "register", "reopen", "finalize", "load", "done"}]
  /\ reply \in [Worker -> Reply]
  /\ Registrar!TypeOK

Init ==
  /\ session = [s \in Session |-> "OPEN"]
  /\ overdue = [s \in Session |-> FALSE]
  /\ attempt = [s \in Session |-> None]
  /\ reservation = [s \in Session |-> "pending_payment"]
  /\ minted = {}
  /\ pc = [w \in Worker |-> "claim"]
  /\ reply = [w \in Worker |-> "none"]
  /\ Registrar!Init

-----------------------------------------------------------------------------
Goto(w, next) == pc' = [pc EXCEPT ![w] = next] /\ UNCHANGED reply

End(w, answer) ==
  /\ pc' = [pc EXCEPT ![w] = "done"]
  /\ reply' = [reply EXCEPT ![w] = answer]

-----------------------------------------------------------------------------
(* claim_booking_payment_session.                                          *)

\* OPEN -> PROCESSING with a fresh attempt key; the registrar is called with
\* the key of the reply, and not at all when the reply is lost or the
\* payments API is not configured.
ClaimOpen(w) ==
  LET s == SessionOf[w] IN
  /\ pc[w] = "claim" /\ session[s] = "OPEN" /\ ~overdue[s]
  /\ \E k \in Key \ minted :
       /\ minted' = minted \cup {k}
       /\ attempt' = [attempt EXCEPT ![s] = k]
       /\ \/ Goto(w, "register") /\ Registrar!Start(w, k, s)
          \/ End(w, "error") /\ UNCHANGED registrarVars
  /\ session' = [session EXCEPT ![s] = "PROCESSING"]
  /\ UNCHANGED <<overdue, reservation>>

\* Mutant: a session that is being processed is taken for a finalized one.
ClaimRefusedUnlessProcessing(w) ==
  LET s == SessionOf[w] IN
  /\ pc[w] = "claim"
  /\ \/ session[s] = "PROCESSING" /\ Goto(w, "load")
     \/ session[s] = "OPEN" /\ overdue[s] /\ End(w, "expired")
     \/ session[s] = "EXPIRED" /\ End(w, "expired")
  /\ UNCHANGED <<sessionVars, registrarVars>>

\* already_claimed, payment_session_stale_processing, payment_session_expired:
\* the request ends before the registrar.
ClaimRefused(w) ==
  LET s == SessionOf[w] IN
  /\ pc[w] = "claim"
  /\ \/ session[s] = "PROCESSING" /\ End(w, "in_progress")
     \/ session[s] = "OPEN" /\ overdue[s] /\ End(w, "expired")
     \/ session[s] = "EXPIRED" /\ End(w, "expired")
  /\ UNCHANGED <<sessionVars, registrarVars>>

\* already_finalized: go on to the confirmation and its email.
ClaimConsumed(w) ==
  /\ pc[w] = "claim" /\ session[SessionOf[w]] = "CONSUMED"
  /\ Goto(w, "load")
  /\ UNCHANGED <<sessionVars, registrarVars>>

\* payment_session_not_found: the token presented is not the one stored, for a
\* repeated create has replaced it (module PaymentPage).
ClaimUnknown(w) ==
  /\ pc[w] = "claim"
  /\ End(w, "refused")
  /\ UNCHANGED <<sessionVars, registrarVars>>

-----------------------------------------------------------------------------
(* After the claim.                                                        *)

\* One HTTP request of the registrar.
Register(w) ==
  /\ pc[w] = "register"
  /\ Registrar!Work(w)
  /\ UNCHANGED <<sessionVars, workerVars>>

\* The registrar returned or raised: the held and ambiguous outcomes are
\* answered with 502 and leave the session PROCESSING.
Registered(w) ==
  /\ pc[w] = "register" /\ step[w] = "done"
  /\ \/ result[w] = "SUCCEEDED" /\ Goto(w, "finalize")
     \/ result[w] \in {"rejected", "conflict"} /\ Goto(w, "reopen")
     \/ result[w] \in {"persistence", "held", "auth"} /\ End(w, "reconcile")
     \/ result[w] = "dead" /\ End(w, "dead")
  /\ UNCHANGED <<sessionVars, registrarVars>>

\* The guards of reopen_payment_session_after_failed_registration.
Reopenable(s, k) ==
  /\ session[s] = "PROCESSING" /\ attempt[s] = k /\ ~overdue[s]
  /\ reservation[s] = "pending_payment"
  /\ status[k] = "FAILED"

\* Mutant: the browser is invited to retry whatever the reopen answered.
ReopenAlwaysRetries(w) ==
  LET s == SessionOf[w] IN
  /\ pc[w] = "reopen"
  /\ \/ /\ Reopenable(s, key[w])
        /\ session' = [session EXCEPT ![s] = "OPEN"]
        /\ attempt' = [attempt EXCEPT ![s] = None]
     \/ UNCHANGED <<session, attempt>>
  /\ End(w, "retry")
  /\ UNCHANGED <<overdue, reservation, minted, registrarVars>>

\* _reopen_after_failed_registration: the browser may tokenize another card
\* only when the database said that it reopened the session.
Reopen(w) ==
  LET s == SessionOf[w] IN
  /\ pc[w] = "reopen"
  /\ \/ /\ Reopenable(s, key[w])
        /\ session' = [session EXCEPT ![s] = "OPEN"]
        /\ attempt' = [attempt EXCEPT ![s] = None]
        /\ (End(w, "retry") \/ End(w, "refused"))
     \/ End(w, "refused") /\ UNCHANGED <<session, attempt>>
  /\ UNCHANGED <<overdue, reservation, minted, registrarVars>>

\* The reopen of a request that gave up on it, or died, reaches the database
\* late.
LateReopen(w) ==
  LET s == SessionOf[w] IN
  /\ pc[w] = "done" /\ reply[w] \in {"refused", "dead"}
  /\ result[w] \in {"rejected", "conflict"}
  /\ Reopenable(s, key[w])
  /\ session' = [session EXCEPT ![s] = "OPEN"]
  /\ attempt' = [attempt EXCEPT ![s] = None]
  /\ UNCHANGED <<overdue, reservation, minted, workerVars, registrarVars>>

\* Mutant: the status of the credential is not looked at.
FinalizableUnchecked(s) ==
  /\ session[s] = "PROCESSING" /\ reservation[s] = "pending_payment"
  /\ attempt[s] # None

\* The guards of finalize_booking_after_credential.
Finalizable(s) ==
  /\ session[s] = "PROCESSING" /\ reservation[s] = "pending_payment"
  /\ attempt[s] # None /\ status[attempt[s]] = "SUCCEEDED"

Confirm(s) ==
  /\ session' = [session EXCEPT ![s] = "CONSUMED"]
  /\ reservation' = [reservation EXCEPT ![s] = "confirmed"]
  /\ UNCHANGED <<overdue, attempt, minted>>

\* finalize_booking_after_credential, idempotent on a CONSUMED session; an
\* error or a lost reply ends the request.
Finalize(w) ==
  LET s == SessionOf[w] IN
  /\ pc[w] = "finalize"
  /\ \/ Finalizable(s) /\ Confirm(s) /\ (Goto(w, "load") \/ End(w, "error"))
     \/ session[s] = "CONSUMED" /\ Goto(w, "load") /\ UNCHANGED sessionVars
     \/ End(w, "error") /\ UNCHANGED sessionVars
  /\ UNCHANGED registrarVars

\* _load_confirmation_access and the email, which never changes the booking
\* (module ConfirmationEmail), then the redirect.
Load(w) ==
  /\ pc[w] = "load"
  /\ (End(w, "success") \/ End(w, "error"))
  /\ UNCHANGED <<sessionVars, registrarVars>>

\* The worker dies between two calls; within the registrar it is Registrar!Die.
Die(w) ==
  /\ pc[w] \in {"claim", "reopen", "finalize", "load"}
  /\ End(w, "dead")
  /\ UNCHANGED <<sessionVars, registrarVars>>

-----------------------------------------------------------------------------
(* Time, the sweeper, the operator and the network.                        *)

PassTTL(s) ==
  /\ ~overdue[s]
  /\ overdue' = [overdue EXCEPT ![s] = TRUE]
  /\ UNCHANGED <<session, attempt, reservation, minted, workerVars, registrarVars>>

\* Mutant: a status no reader of the session knows.
SweepMisspelt(s) ==
  /\ session[s] = "OPEN" /\ overdue[s]
  /\ session' = [session EXCEPT ![s] = "ABANDONED"]
  /\ reservation' = [reservation EXCEPT ![s] = "cancelled"]
  /\ UNCHANGED <<overdue, attempt, minted, workerVars, registrarVars>>

\* expire_abandoned_payment_sessions: sessions that are PROCESSING are counted
\* as held, never expired.
Sweep(s) ==
  /\ session[s] = "OPEN" /\ overdue[s]
  /\ session' = [session EXCEPT ![s] = "EXPIRED"]
  /\ reservation' = [reservation EXCEPT ![s] = "cancelled"]
  /\ UNCHANGED <<overdue, attempt, minted, workerVars, registrarVars>>

\* operator_finalize_held_payment.
OperatorFinalize(s) ==
  /\ Finalizable(s) /\ Confirm(s)
  /\ UNCHANGED <<workerVars, registrarVars>>

\* Mutant: a stored card does not stop the release
\* (credential_succeeded_not_releasable).
OperatorReleaseStored(s, k) ==
  /\ session[s] = "PROCESSING" /\ attempt[s] = k
  /\ status[k] # "absent"
  /\ status' = [status EXCEPT ![k] = "FAILED"]
  /\ session' = [session EXCEPT ![s] = "EXPIRED"]
  /\ reservation' = [reservation EXCEPT ![s] = "cancelled"]
  /\ UNCHANGED <<owner, late, posted, moneris, step, key, booking, result>>
  /\ UNCHANGED <<overdue, attempt, minted, workerVars>>

\* release_held_payment_after_confirmed_failure with the key the operator saw,
\* which must still be the current one.
OperatorRelease(s, k) ==
  /\ session[s] = "PROCESSING" /\ attempt[s] = k
  /\ reservation[s] = "pending_payment"
  /\ Registrar!Release(k)
  /\ session' = [session EXCEPT ![s] = "EXPIRED"]
  /\ reservation' = [reservation EXCEPT ![s] = "cancelled"]
  /\ UNCHANGED <<overdue, attempt, minted, workerVars>>

Network ==
  /\ \E k \in Key : \/ Registrar!Settle(k)
                    \/ \E new \in Registrar!Status : Registrar!Deliver(k, new)
                    \/ \E s \in Session : Registrar!DeliverInsert(k, s)
  /\ UNCHANGED <<sessionVars, workerVars>>

-----------------------------------------------------------------------------
Claim(w) == ClaimOpen(w) \/ ClaimRefused(w) \/ ClaimConsumed(w)

Proceed(w) ==
  Register(w) \/ Registered(w) \/ Reopen(w) \/ Finalize(w) \/ Load(w)

Work(w) == Claim(w) \/ ClaimUnknown(w) \/ Proceed(w)

Environment ==
  \/ \E s \in Session :
       \/ PassTTL(s) \/ Sweep(s) \/ OperatorFinalize(s)
       \/ \E k \in Key : OperatorRelease(s, k)
  \/ \E w \in Worker : LateReopen(w)
  \/ Network

Finished == (\A w \in Worker : pc[w] = "done") /\ UNCHANGED vars

Next == (\E w \in Worker : Work(w) \/ Die(w)) \/ Environment \/ Finished

Spec == Init /\ [][Next]_vars

\* Requests that run go on and the sweeper is called every five minutes; the
\* operator is a person.
FairSpec ==
  /\ Spec
  /\ \A w \in Worker : WF_vars(Work(w))
  /\ \A s \in Session : WF_vars(PassTTL(s)) /\ WF_vars(Sweep(s))

-----------------------------------------------------------------------------
(* Safety.                                                                 *)

\* The browser is sent to the confirmation page only when the reservation is
\* confirmed, also by a replay and after a lost finalize (complete_pending_payment).
SuccessMeansConfirmed ==
  \A w \in Worker : reply[w] = "success" => reservation[SessionOf[w]] = "confirmed"

\* A confirmed reservation has a stored card: its current attempt succeeded in
\* the table and at the processor.
ConfirmedHasCard ==
  \A s \in Session :
    reservation[s] = "confirmed" =>
      /\ attempt[s] # None /\ owner[attempt[s]] = s
      /\ status[attempt[s]] = "SUCCEEDED" /\ moneris[attempt[s]] = "accepted"

\* A guest's card is stored at the processor once at most, whatever number of
\* attempts the session has seen: a second key is minted only after the first
\* was refused for certain.
OneCardPerReservation ==
  \A k, l \in Key :
    ( /\ moneris[k] = "accepted" /\ moneris[l] = "accepted"
      /\ owner[k] = owner[l]) => k = l

\* A reservation that was swept or released has no card at the processor and
\* none on its way there.
CancelledHasNoCard ==
  \A s \in Session :
    reservation[s] = "cancelled" =>
      \A k \in Key : owner[k] = s => moneris[k] \in {"unsent", "declined"}

\* "The browser may tokenize a new card" after a registration only if the
\* session is open again and no earlier attempt has stored a card.
RetryIsSafe ==
  [][\A w \in Worker :
       (reply[w] # "retry" /\ reply'[w] = "retry") =>
         /\ session'[SessionOf[w]] = "OPEN"
         /\ \A k \in Key : owner[k] = SessionOf[w] => moneris[k] = "declined"]_vars

\* The handlers, the sweeper and the operator use the registrar within its
\* specification: only a claim starts a call, only a release writes from outside.
UsesRegistrar == Registrar!Spec

\* The processor has stored a card for the reservation of session s.
HasCard(s) == \E k \in Key : owner[k] = s /\ moneris[k] = "accepted"

Guarantee == INSTANCE CardGuarantee WITH
  Stay       <- Session,
  standing   <- reservation,
  guaranteed <- [s \in Session |-> HasCard(s)]

\* Requests, crashes, late answers, sweeper and operator together keep the
\* promise of the guarantee: a reservation with a stored card is confirmed or
\* waits to be, one without is cancelled or waits.
ImplementsGuarantee == Guarantee!Spec

\* "Payment is still being processed. Please wait a moment and try again.":
\* a session whose request was told so, and whose registration is open, leaves
\* PROCESSING some time (SAFE_IN_PROGRESS).
InProgressEnds ==
  \A w \in Worker :
    LET s == SessionOf[w] IN
    (/\ reply[w] = "in_progress"
     /\ session[s] = "PROCESSING" /\ status[attempt[s]] \in Registrar!Writable)
      ~> session[s] # "PROCESSING"
=============================================================================
