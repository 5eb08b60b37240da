------------------------ MODULE CredentialRegistration ------------------------
(***************************************************************************)
(* register_booking_payment_credential: Moneris Card Validation and the    *)
(* booking_payment_credentials table, which are not one transaction.       *)
(*                                                                         *)
(* A call makes one HTTP request per step.  A request to PostgREST may     *)
(* fail, or commit while its reply is lost, or be applied after its caller *)
(* gave up; a request to Moneris may be lost, processed late, or answered  *)
(* ambiguously.  Several calls, with the same or different keys and        *)
(* bookings, run at once.  The idempotency key is unique in the table, so  *)
(* a row is identified by its key.                                         *)
(***************************************************************************)
EXTENDS Naturals, FiniteSets

CONSTANTS
  Call,     \* invocations of the registrar; a retry is another invocation
  Key,      \* registration idempotency keys
  Booking,
  None      \* no key, no booking

ASSUME NoneAssumption == None \notin Key /\ None \notin Booking

VARIABLES
  status,   \* status[k]: registration_status of the row with key k
  owner,    \* owner[k]: its booking_id
  late,     \* guarded PATCHes on their way whose caller no longer waits
  posted,   \* INSERTs on their way, likewise: pairs of key and booking
  moneris,  \* moneris[k]: what the processor made of idempotency key k
  step,     \* step[c]: the next HTTP request of call c
  key,      \* key[c], booking[c]: the arguments of call c
  booking,
  result    \* result[c]: what call c returned or raised

rowVars  == <<status, owner, late, posted>>
callVars == <<step, key, booking, result>>
vars == <<rowVars, moneris, callVars>>

Writable == {"PENDING", "RECONCILIATION_REQUIRED"}
Active   == Writable \cup {"SUCCEEDED"}
Status   == Active \cup {"absent", "FAILED"}

Reads  == {"get_by_key", "get_active", "begin", "resolve_by_key",
           "resolve_active", "raced", "reread", "recheck"}
Step   == Reads \cup {"idle", "validate", "mark_succeeded", "mark_failed",
                      "mark_held", "mark_unsure", "done"}
Result == {"none", "SUCCEEDED", "rejected", "conflict", "persistence",
           "held", "auth", "dead"}

TypeOK ==
  /\ status \in [Key -> Status]
  /\ owner \in [Key -> Booking \cup {None}]
  /\ late \subseteq Key \X Status
  /\ posted \subseteq Key \X Booking
  /\ moneris \in [Key -> {"unsent", "sent", "accepted", "declined"}]
  /\ step \in [Call -> Step]
  /\ key \in [Call -> Key \cup {None}]
  /\ booking \in [Call -> Booking \cup {None}]
  /\ result \in [Call -> Result]

Init ==
  /\ status = [k \in Key |-> "absent"]
  /\ owner = [k \in Key |-> None]
  /\ late = {}
  /\ posted = {}
  /\ moneris = [k \in Key |-> "unsent"]
  /\ step = [c \in Call |-> "idle"]
  /\ key = [c \in Call |-> None]
  /\ booking = [c \in Call |-> None]
  /\ result = [c \in Call |-> "none"]

-----------------------------------------------------------------------------
Goto(c, next) ==
  /\ step' = [step EXCEPT ![c] = next]
  /\ UNCHANGED <<key, booking, result>>

Return(c, value) ==
  /\ step' = [step EXCEPT ![c] = "done"]
  /\ result' = [result EXCEPT ![c] = value]
  /\ UNCHANGED <<key, booking>>

HasActive(b) == \E k \in Key : owner[k] = b /\ status[k] \in Active

\* register_booking_payment_credential is called.
Start(c, k, b) ==
  /\ step[c] = "idle"
  /\ step' = [step EXCEPT ![c] = "get_by_key"]
  /\ key' = [key EXCEPT ![c] = k]
  /\ booking' = [booking EXCEPT ![c] = b]
  /\ UNCHANGED <<result, rowVars, moneris>>

\* _resume_existing.
Resume(c) ==
  LET k == key[c] IN
  \/ owner[k] # booking[c] /\ Return(c, "conflict")
  \/ owner[k] = booking[c] /\ status[k] = "SUCCEEDED" /\ Return(c, "SUCCEEDED")
  \/ owner[k] = booking[c] /\ status[k] = "FAILED" /\ Return(c, "rejected")
  \/ owner[k] = booking[c] /\ status[k] \in Writable /\ Goto(c, "validate")

GetByKey(c) ==
  /\ step[c] = "get_by_key"
  /\ \/ status[key[c]] # "absent" /\ Resume(c)
     \/ status[key[c]] = "absent" /\ Goto(c, "get_active")
  /\ UNCHANGED <<rowVars, moneris>>

GetActive(c) ==
  /\ step[c] = "get_active"
  /\ \/ HasActive(booking[c]) /\ Return(c, "conflict")
     \/ ~HasActive(booking[c]) /\ Goto(c, "begin")
  /\ UNCHANGED <<rowVars, moneris>>

Insert(k, b) ==
  /\ status[k] = "absent" /\ ~HasActive(b)
  /\ status' = [status EXCEPT ![k] = "PENDING"]
  /\ owner' = [owner EXCEPT ![k] = b]

\* begin_registration: the INSERT, under the unique indexes on the key and on
\* the active row of a booking.  Its reply may be lost, or the INSERT be applied
\* after the call ended.
Begin(c) ==
  LET k == key[c] IN
  /\ step[c] = "begin"
  /\ \/ /\ status[k] # "absent" \/ HasActive(booking[c])
        /\ Goto(c, "resolve_by_key")
        /\ UNCHANGED <<status, owner, posted>>
     \/ /\ Insert(k, booking[c])
        /\ (Goto(c, "validate") \/ Return(c, "persistence"))
        /\ UNCHANGED posted
     \/ /\ posted' = posted \cup {<<k, booking[c]>>}
        /\ Return(c, "persistence")
        /\ UNCHANGED <<status, owner>>
  /\ UNCHANGED <<late, moneris>>

DeliverInsert(k, b) ==
  /\ <<k, b>> \in posted
  /\ posted' = posted \ {<<k, b>>}
  /\ \/ Insert(k, b)
     \/ (status[k] # "absent" \/ HasActive(b)) /\ UNCHANGED <<status, owner>>
  /\ UNCHANGED <<late, moneris, callVars>>

\* _resolve_insert_conflict: whatever status the row of the key has, it is
\* taken for the pending one.
ResolveByKey(c) ==
  /\ step[c] = "resolve_by_key"
  /\ \/ status[key[c]] = "absent" /\ Goto(c, "resolve_active")
     \/ status[key[c]] # "absent" /\ owner[key[c]] # booking[c] /\ Goto(c, "raced")
     \/ status[key[c]] # "absent" /\ owner[key[c]] = booking[c] /\ Goto(c, "validate")
  /\ UNCHANGED <<rowVars, moneris>>

ResolveActive(c) ==
  /\ step[c] = "resolve_active"
  /\ \/ HasActive(booking[c]) /\ Goto(c, "raced")
     \/ ~HasActive(booking[c]) /\ Return(c, "persistence")
  /\ UNCHANGED <<rowVars, moneris>>

\* The registrar's own handler of the conflict reads the key once more.
Raced(c) ==
  /\ step[c] = "raced"
  /\ \/ status[key[c]] # "absent" /\ Resume(c)
     \/ status[key[c]] = "absent" /\ Return(c, "conflict")
  /\ UNCHANGED <<rowVars, moneris>>

-----------------------------------------------------------------------------
(* validate_card.                                                          *)

\* Moneris answers a key once; a repeated request gets the first answer.
MonerisAnswers(k, verdict) ==
  /\ moneris[k] \in {"unsent", "sent", verdict}
  /\ moneris' = [moneris EXCEPT ![k] = verdict]

ValidateAccepted(c) ==
  /\ step[c] = "validate"
  /\ MonerisAnswers(key[c], "accepted")
  /\ Goto(c, "mark_succeeded")
  /\ UNCHANGED rowVars

ValidateDeclined(c) ==
  /\ step[c] = "validate"
  /\ MonerisAnswers(key[c], "declined")
  /\ Goto(c, "mark_failed")
  /\ UNCHANGED rowVars

\* Mutant: an unavailable processor is taken for a decline.
ValidateAmbiguousDeclines(c) ==
  /\ step[c] = "validate"
  /\ moneris' = [moneris EXCEPT ![key[c]] = IF @ = "unsent" THEN "sent" ELSE @]
  /\ Goto(c, "mark_failed")
  /\ UNCHANGED rowVars

\* PROCESSOR_UNAVAILABLE, INVALID_RESPONSE: a timeout, a 5xx, an unknown 4xx
\* or an unreadable answer; Moneris may have the request or get it later.
ValidateAmbiguous(c) ==
  /\ step[c] = "validate"
  /\ moneris' = [moneris EXCEPT ![key[c]] = IF @ = "unsent" THEN "sent" ELSE @]
  /\ Goto(c, "mark_held")
  /\ UNCHANGED rowVars

\* INVALID_REQUEST: the request never reaches the card, and the row is left
\* as it is.
ValidateInvalid(c) ==
  /\ step[c] = "validate"
  /\ Return(c, "rejected")
  /\ UNCHANGED <<rowVars, moneris>>

\* No OAuth token: nothing was sent, and mark_processor_unresolved leaves the
\* status as it is.
ValidateNoToken(c) ==
  /\ step[c] = "validate"
  /\ Return(c, "auth")
  /\ UNCHANGED <<rowVars, moneris>>

\* Moneris processes a request nobody waits for.
Settle(k) ==
  /\ moneris[k] = "sent"
  /\ \E verdict \in {"accepted", "declined"} :
       moneris' = [moneris EXCEPT ![k] = verdict]
  /\ UNCHANGED <<rowVars, callVars>>

-----------------------------------------------------------------------------
(* The guarded updates.                                                    *)

\* Mutant: the status filter is missing from the PATCH.
PatchUnguarded(k, new) ==
  status' = [status EXCEPT ![k] = new]

\* _guarded_patch as the database applies it: rows outside the status filter
\* are not touched.
Patch(k, new) ==
  status' = [status EXCEPT ![k] = IF @ \in Writable THEN new ELSE @]

\* The PATCH does not reach the database before its caller gives up.
Delay(k, new) ==
  /\ late' = late \cup {<<k, new>>}
  /\ UNCHANGED status

Deliver(k, new) ==
  /\ <<k, new>> \in late
  /\ late' = late \ {<<k, new>>}
  /\ Patch(k, new)
  /\ UNCHANGED <<owner, posted, moneris, callVars>>

\* mark_registration_succeeded; no row back is a conflict, no reply leaves
\* the outcome open.
MarkSucceeded(c) ==
  LET k == key[c] IN
  /\ step[c] = "mark_succeeded"
  /\ \/ /\ status[k] \in Writable
        /\ Patch(k, "SUCCEEDED")
        /\ (Return(c, "SUCCEEDED") \/ Goto(c, "mark_unsure"))
        /\ UNCHANGED late
     \/ /\ status[k] \notin Writable
        /\ Goto(c, "reread")
        /\ UNCHANGED <<status, late>>
     \/ /\ Delay(k, "SUCCEEDED")
        /\ Goto(c, "mark_unsure")
  /\ UNCHANGED <<owner, posted, moneris>>

\* After the conflict: another call may have stored the same card.
Reread(c) ==
  /\ step[c] = "reread"
  /\ Return(c, IF status[key[c]] = "SUCCEEDED" THEN "SUCCEEDED" ELSE "conflict")
  /\ UNCHANGED <<rowVars, moneris>>

\* mark_reconciliation_required after the lost reply; its own failure is
\* swallowed.
MarkUnsure(c) ==
  /\ step[c] = "mark_unsure"
  /\ \/ Patch(key[c], "RECONCILIATION_REQUIRED") /\ UNCHANGED late
     \/ Delay(key[c], "RECONCILIATION_REQUIRED")
  /\ Goto(c, "recheck")
  /\ UNCHANGED <<owner, posted, moneris>>

\* Mutant: a lost reply is taken for a stored credential.
RecheckAssumesStored(c) ==
  /\ step[c] = "recheck"
  /\ Return(c, "SUCCEEDED")
  /\ UNCHANGED <<rowVars, moneris>>

Recheck(c) ==
  /\ step[c] = "recheck"
  /\ \/ status[key[c]] = "SUCCEEDED" /\ Return(c, "SUCCEEDED")
     \/ status[key[c]] # "SUCCEEDED" /\ Return(c, "persistence")
  /\ UNCHANGED <<rowVars, moneris>>

\* mark_registration_failed after a confirmed decline.
MarkFailed(c) ==
  LET k == key[c] IN
  /\ step[c] = "mark_failed"
  /\ \/ /\ status[k] \in Writable
        /\ Patch(k, "FAILED")
        /\ (Return(c, "rejected") \/ Return(c, "persistence"))
        /\ UNCHANGED late
     \/ /\ status[k] \notin Writable
        /\ Return(c, "conflict")
        /\ UNCHANGED <<status, late>>
     \/ /\ Delay(k, "FAILED")
        /\ Return(c, "persistence")
  /\ UNCHANGED <<owner, posted, moneris>>

\* Mutant: a status literal no filter knows.
MarkHeldMisspelt(c) ==
  /\ step[c] = "mark_held"
  /\ Patch(key[c], "RECONCILIATION")
  /\ Return(c, "held")
  /\ UNCHANGED <<owner, late, posted, moneris>>

\* mark_reconciliation_required after an ambiguous answer; its own failure is
\* swallowed.
MarkHeld(c) ==
  /\ step[c] = "mark_held"
  /\ \/ Patch(key[c], "RECONCILIATION_REQUIRED") /\ UNCHANGED late
     \/ Delay(key[c], "RECONCILIATION_REQUIRED")
  /\ Return(c, "held")
  /\ UNCHANGED <<owner, posted, moneris>>

-----------------------------------------------------------------------------
\* A SELECT or the INSERT fails without effect: CredentialPersistenceError.
LoseDatabase(c) ==
  /\ step[c] \in Reads
  /\ Return(c, "persistence")
  /\ UNCHANGED <<rowVars, moneris>>

\* The worker dies.
Die(c) ==
  /\ step[c] \notin {"idle", "done"}
  /\ Return(c, "dead")
  /\ UNCHANGED <<rowVars, moneris>>

\* Mutant: a row is released for its age, an answer of Moneris not being known.
FailureByAge(k) == moneris[k] # "accepted"

\* The operator has confirmed that key k has no card: Moneris declined it, or
\* never got it and no call is left to send it.
ConfirmedFailure(k) ==
  \/ moneris[k] = "declined"
  \/ /\ moneris[k] = "unsent"
     /\ \A c \in Call : key[c] = k => step[c] = "done"

\* release_held_payment_after_confirmed_failure, as far as the row goes.
Release(k) ==
  /\ status[k] \in Writable /\ ConfirmedFailure(k)
  /\ status' = [status EXCEPT ![k] = "FAILED"]
  /\ UNCHANGED <<owner, late, posted, moneris, callVars>>

Work(c) ==
  \/ GetByKey(c) \/ GetActive(c) \/ Begin(c)
  \/ ResolveByKey(c) \/ ResolveActive(c) \/ Raced(c)
  \/ ValidateAccepted(c) \/ ValidateDeclined(c) \/ ValidateAmbiguous(c)
  \/ ValidateInvalid(c) \/ ValidateNoToken(c)
  \/ MarkSucceeded(c) \/ Reread(c) \/ MarkUnsure(c) \/ Recheck(c)
  \/ MarkFailed(c) \/ MarkHeld(c)
  \/ LoseDatabase(c) \/ Die(c)

Environment ==
  \E k \in Key :
    \/ Settle(k) \/ Release(k)
    \/ \E new \in Status : Deliver(k, new)
    \/ \E b \in Booking : DeliverInsert(k, b)

Finished == (\A c \in Call : step[c] = "done") /\ UNCHANGED vars

Next ==
  \/ \E c \in Call : Work(c) \/ \E k \in Key, b \in Booking : Start(c, k, b)
  \/ Environment
  \/ Finished

Spec == Init /\ [][Next]_vars

-----------------------------------------------------------------------------
(* Safety.                                                                 *)

\* A booking never has two active registrations, however calls race and
\* delayed PATCHes arrive (the partial unique index and the status filter of
\* _guarded_patch, which never revives a FAILED row).
OneActivePerBooking ==
  \A k, l \in Key :
    (status[k] \in Active /\ status[l] \in Active /\ owner[k] = owner[l]) => k = l

\* A card the processor stored is never forgotten: its row still blocks its
\* booking, so no second card can be asked for, be the answer lost, late or
\* unreadable (_handle_validation_error fails a row only on CONFIRMED_DECLINE).
CardNeverForgotten ==
  \A k \in Key : moneris[k] = "accepted" => status[k] \in Active

\* A call that reports SUCCEEDED has a stored card and a row that says so.
SuccessIsTrue ==
  \A c \in Call :
    result[c] = "SUCCEEDED" =>
      /\ status[key[c]] = "SUCCEEDED" /\ owner[key[c]] = booking[c]
      /\ moneris[key[c]] = "accepted"

-----------------------------------------------------------------------------
(* Why these hold: the inductive invariant of CredentialRegistrationProofs *)
(* follows the verdict of Moneris through the calls and the PATCHes.       *)

AtCard      == {"validate", "mark_succeeded", "reread", "mark_unsure",
                "recheck", "mark_failed", "mark_held"}
AfterAccept == {"mark_succeeded", "reread", "mark_unsure", "recheck"}

\* A call at Moneris or after it has its row, and knows the verdict it acts on.
CallInv ==
  \A c \in Call :
    /\ step[c] # "idle" => key[c] \in Key /\ booking[c] \in Booking
    /\ result[c] = "SUCCEEDED" => step[c] = "done"
    /\ step[c] \in AtCard => status[key[c]] # "absent" /\ owner[key[c]] = booking[c]
    /\ step[c] \in AfterAccept => moneris[key[c]] = "accepted"
    /\ step[c] = "mark_failed" => moneris[key[c]] = "declined"

\* A row says what Moneris said; a row that failed unasked has no call that
\* could still ask.
RowInv ==
  \A k \in Key :
    /\ status[k] = "absent" => moneris[k] = "unsent"
    /\ status[k] = "SUCCEEDED" => moneris[k] = "accepted"
    /\ status[k] = "FAILED" =>
         \/ moneris[k] = "declined"
         \/ /\ moneris[k] = "unsent"
            /\ \A c \in Call : key[c] = k => step[c] \in {"get_by_key", "done"}

\* A delayed PATCH carries a verdict that was given.
LateInv ==
  \A k \in Key :
    /\ <<k, "absent">> \notin late /\ <<k, "PENDING">> \notin late
    /\ <<k, "SUCCEEDED">> \in late => moneris[k] = "accepted"
    /\ <<k, "FAILED">> \in late => moneris[k] = "declined"

RegistrarInv ==
  TypeOK /\ CallInv /\ RowInv /\ LateInv /\ OneActivePerBooking /\ SuccessIsTrue

-----------------------------------------------------------------------------
\* The table implements the ledger: one open registration per booking, and
\* verdicts are final.
Ledger == INSTANCE CardLedger WITH
  Nothing <- None,
  open <- [b \in Booking |->
             IF HasActive(b)
             THEN CHOOSE k \in Key : owner[k] = b /\ status[k] \in Active
             ELSE None],
  verdict <- [k \in Key |-> CASE status[k] = "SUCCEEDED" -> "stored"
                              [] status[k] = "FAILED" -> "refused"
                              [] OTHER -> "none"]

\* Calls, lost replies and delayed PATCHes behave as the ledger does.
ImplementsLedger == Ledger!Spec
=============================================================================
