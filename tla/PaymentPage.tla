------------------------------ MODULE PaymentPage ------------------------------
(***************************************************************************)
(* The browser of one guest in front of PaymentCompletion: the submit      *)
(* button of templates/final_details.html, the payment-session token it    *)
(* puts in sessionStorage (payment_session.py), and the form of            *)
(* templates/complete_payment.html.                                        *)
(*                                                                         *)
(* A create is one POST of the details page; all of a page have one        *)
(* idempotency key, so the first makes the session and the others replay   *)
(* it, each with a token of its own.  A request of PaymentCompletion is    *)
(* one POST of the payment page.  Either page may give up on a request     *)
(* that goes on at the server, and the guest may reload the payment page.  *)
(***************************************************************************)
EXTENDS PaymentCompletion

CONSTANTS
  Create,    \* POSTs of the details page, each naming the token it drew
  CreateOf   \* CreateOf[c]: the session of the booking c submits

ASSUME CreateAssumption == CreateOf \in [Create -> Session]

ASSUME CreateNoneAssumption == None \notin Create \cup Worker

VARIABLES
  create,     \* create[c]: where that POST is
  current,    \* current[s]: the token whose hash session s has, None before it exists
  held,       \* held[s]: the token in the browser's sessionStorage
  view,       \* view[s]: the page it shows
  submit,     \* submit[s]: isSubmitting of the details, submitState of the form
  waiting,    \* waiting[s]: the POST whose answer that page waits for
  sent,       \* the POSTs of payment pages so far
  presented,  \* presented[w]: the token of request w
  load        \* load[s]: those sent by the payment page as it was last loaded

createVars == <<create, current>>
browserVars == <<held, view, submit, waiting, sent, presented, load>>
pageVars == <<vars, createVars, browserVars>>

PageTypeOK ==
  /\ create \in [Create -> {"unsent", "sent", "rotated", "reused", "failed"}]
  /\ current \in [Session -> Create \cup {None}]
  /\ held \in [Session -> Create \cup {None}]
  /\ view \in [Session -> {"details", "payment", "confirmation"}]
  /\ submit \in [Session -> {"idle", "submitting", "locked"}]
  /\ waiting \in [Session -> Create \cup Worker \cup {None}]
  /\ sent \subseteq Worker
  /\ presented \in [Worker -> Create \cup {None}]
  /\ load \in [Session -> SUBSET Worker]

PageInit ==
  /\ Init
  /\ create = [c \in Create |-> "unsent"]
  /\ current = [s \in Session |-> None]
  /\ held = [s \in Session |-> None]
  /\ view = [s \in Session |-> "details"]
  /\ submit = [s \in Session |-> "idle"]
  /\ waiting = [s \in Session |-> None]
  /\ sent = {}
  /\ presented = [w \in Worker |-> None]
  /\ load = [s \in Session |-> {}]

-----------------------------------------------------------------------------
(* The details page and create_public_booking under pending_v7.            *)

\* The click on confirm: isSubmitting lets one POST through at a time.
SubmitBooking(s, c) ==
  /\ view[s] = "details" /\ submit[s] = "idle"
  /\ create[c] = "unsent" /\ CreateOf[c] = s
  /\ create' = [create EXCEPT ![c] = "sent"]
  /\ submit' = [submit EXCEPT ![s] = "submitting"]
  /\ waiting' = [waiting EXCEPT ![s] = c]
  /\ UNCHANGED <<vars, current, held, view, sent, presented, load>>

\* Mutant: a replay gives the session a new token whatever its state.
RotatesAlways(s) == TRUE

\* The first create stores its token's hash; a replay replaces it as long as
\* the session is OPEN, and leaves it alone once a card is being processed.
Rotates(s) == current[s] = None \/ (session[s] = "OPEN" /\ ~overdue[s])

\* The RPC of c commits, perhaps after its page gave up on it.
ApplyCreate(c) ==
  LET s == CreateOf[c] IN
  /\ create[c] = "sent"
  /\ \/ /\ Rotates(s)
        /\ current' = [current EXCEPT ![s] = c]
        /\ create' = [create EXCEPT ![c] = "rotated"]
     \/ /\ ~Rotates(s) /\ session[s] = "PROCESSING"
        /\ create' = [create EXCEPT ![c] = "reused"]
        /\ UNCHANGED current
     \/ /\ create' = [create EXCEPT ![c] = "failed"]
        /\ UNCHANGED current
  /\ UNCHANGED <<vars, browserVars>>

Show(s, page, state) ==
  /\ view' = [view EXCEPT ![s] = page]
  /\ submit' = [submit EXCEPT ![s] = state]
  /\ waiting' = [waiting EXCEPT ![s] = None]

\* The answer of a create: the token is in it only if the RPC rotated to it.
Created(s) ==
  LET c == waiting[s] IN
  /\ view[s] = "details" /\ c # None /\ create[c] \in {"rotated", "reused"}
  /\ held' = IF create[c] = "rotated" THEN [held EXCEPT ![s] = c] ELSE held
  /\ Show(s, "payment", "idle")
  /\ UNCHANGED <<vars, createVars, sent, presented, load>>

\* An error, or no answer: the button is enabled again.
CreateFails(s) ==
  /\ view[s] = "details" /\ submit[s] = "submitting"
  /\ Show(s, "details", "idle")
  /\ UNCHANGED <<vars, createVars, held, sent, presented, load>>

-----------------------------------------------------------------------------
(* The payment page.                                                       *)

\* Mutant: two data keys of the card frame make two submissions.
DataKeyAnyTime(s, w) ==
  /\ view[s] = "payment" /\ held[s] # None /\ submit[s] # "locked"
  /\ w \notin sent /\ SessionOf[w] = s
  /\ sent' = sent \cup {w}
  /\ presented' = [presented EXCEPT ![w] = held[s]]
  /\ load' = [load EXCEPT ![s] = @ \cup {w}]
  /\ submit' = [submit EXCEPT ![s] = "submitting"]
  /\ waiting' = [waiting EXCEPT ![s] = w]
  /\ UNCHANGED <<vars, createVars, held, view>>

\* onMessage, beginSubmission: a data key from the card frame is submitted with
\* the token, unless a submission is under way or the form is locked.
DataKey(s, w) ==
  /\ view[s] = "payment" /\ held[s] # None /\ submit[s] = "idle"
  /\ w \notin sent /\ SessionOf[w] = s
  /\ sent' = sent \cup {w}
  /\ presented' = [presented EXCEPT ![w] = held[s]]
  /\ load' = [load EXCEPT ![s] = @ \cup {w}]
  /\ submit' = [submit EXCEPT ![s] = "submitting"]
  /\ waiting' = [waiting EXCEPT ![s] = w]
  /\ UNCHANGED <<vars, createVars, held, view>>

\* Mutant: an answer that is not final is taken for a refused card.
NextStateEager(answer) == IF answer \in {"expired", "refused"} THEN "locked" ELSE "idle"

\* Mutant: a state no handler of the page knows.
NextStateMisspelt(answer) == IF answer = "retry" THEN "ready" ELSE "locked"

\* What the form becomes: another card is asked for on retry_payment only.
NextState(answer) == IF answer = "retry" THEN "idle" ELSE "locked"

\* submitMonerisDataKey gets an answer: success drops the token and goes to
\* the confirmation page, whether the email was sent or not.
Answered(s) ==
  LET w == waiting[s] IN
  /\ view[s] = "payment" /\ w # None
  /\ pc[w] = "done" /\ reply[w] # "dead"
  /\ IF reply[w] = "success"
     THEN held' = [held EXCEPT ![s] = None] /\ Show(s, "confirmation", "idle")
     ELSE UNCHANGED held /\ Show(s, "payment", NextState(reply[w]))
  /\ UNCHANGED <<vars, createVars, sent, presented, load>>

\* The fetch fails, whatever becomes of the request: "Do not enter your card
\* again."
NoAnswer(s) ==
  /\ view[s] = "payment" /\ submit[s] = "submitting"
  /\ Show(s, "payment", "locked")
  /\ UNCHANGED <<vars, createVars, held, sent, presented, load>>

\* A reload makes the form anew from the token in sessionStorage.
Reload(s) ==
  /\ view[s] = "payment"
  /\ load' = [load EXCEPT ![s] = {}]
  /\ Show(s, "payment", "idle")
  /\ UNCHANGED <<vars, createVars, held, sent, presented>>

-----------------------------------------------------------------------------
\* A request is claimed under the token it presents, or is unknown.
Serve(w) ==
  /\ w \in sent
  /\ \/ presented[w] = current[SessionOf[w]] /\ Claim(w)
     \/ presented[w] # current[SessionOf[w]] /\ ClaimUnknown(w)
     \/ Proceed(w) \/ Die(w)
  /\ UNCHANGED <<createVars, browserVars>>

\* Time, sweeper and operator act on sessions that exist.
Outside ==
  /\ Environment
  /\ \A s \in Session :
       current[s] = None => session'[s] = session[s] /\ overdue'[s] = overdue[s]
  /\ UNCHANGED <<createVars, browserVars>>

Browse(s) ==
  \/ \E c \in Create : SubmitBooking(s, c)
  \/ Created(s) \/ CreateFails(s)
  \/ \E w \in Worker : DataKey(s, w)
  \/ Answered(s) \/ NoAnswer(s) \/ Reload(s)

AtRest ==
  /\ \A s \in Session : submit[s] # "submitting"
  /\ \A w \in sent : pc[w] = "done"
  /\ UNCHANGED pageVars

PageNext ==
  \/ \E s \in Session : Browse(s)
  \/ \E c \in Create : ApplyCreate(c)
  \/ \E w \in Worker : Serve(w)
  \/ Outside
  \/ AtRest

PageSpec == PageInit /\ [][PageNext]_pageVars

-----------------------------------------------------------------------------
(* Safety.                                                                 *)

\* A payment page has one request under way, although clicks and messages of
\* the card frame may come twice (complete_payment.html:229, :286).
OneRequestPerLoad ==
  \A s \in Session : \A w \in load[s] :
    pc[w] # "done" /\ submit[s] # "locked" => waiting[s] = w

\* While the form is open, no card it has sent before is stored or may still
\* become so: every answer that leaves this in doubt locks it
\* (complete_payment.html:267-277).
InviteIsSafe ==
  \A s \in Session :
    view[s] = "payment" /\ submit[s] = "idle" =>
      \A w \in load[s] :
        reply[w] = "retry" /\ key[w] # None /\ moneris[key[w]] = "declined"

\* A late replay of the create may take the browser's token from it, but not
\* once a card is stored: whoever has paid can still ask again for the
\* confirmation (payment_session.py:151).
StrandedHasNoCard ==
  \A s \in Session :
    held[s] # None /\ held[s] # current[s] =>
      \A k \in Key : owner[k] = s => moneris[k] \in {"unsent", "declined"}
=============================================================================
