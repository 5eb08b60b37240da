# A formal model of the Grande Mountain Lodge booking site

The site is a Flask application (`src/main.py` and the modules beside it) in
front of a Supabase Postgres database, an SMTP relay and the Moneris card
processor. It keeps almost no state of its own: what makes it correct is how
independent HTTP requests, SQL functions, a sweeper, an operator, and two outside
services interleave and fail. That is what the modules here describe.

## 1. The system

| Component | Source | State | Operations |
|---|---|---|---|
| Booking creation (live_v6) | `main.py` `handle_booking`, `_validate_itinerary`, `_assign_physical_rooms`, `_persist_booking`; SQL `create_public_booking` | `guests`, `bookings`, `cancellation` rows; advisory locks | validate, draw a reference, assign rooms, one transaction, confirmation email, reply |
| Public cancellation | `main.py` `cancel_reservation`, `_preview_public_cancellation`; SQL `cancel_public_booking` | `bookings.booking_status`, `cancellation.token_usage` | preview, cancel |
| Card credential registrar | `payment_api/credential_registration.py`, `credential_repository.py`, `validation.py` | `booking_payment_credentials.registration_status`; Moneris's memory of an idempotency key | register: two lookups, INSERT, card validation, guarded PATCH |
| Payment completion (pending_v7) | `payment_completion.py`, `main.py` `handle_complete_payment` | payment session, attempt key, reservation status | claim, register, reopen, finalize, redirect |
| Session expiry | `payment_expiry.py` | the same | sweep overdue OPEN sessions |
| Operator reconciliation | `payment_reconciliation.py` | the same, and the credential row | finalize or release a held payment |
| Confirmation email | `payment_completion._attempt_confirmation_email`, `cancellation_capability.py` | email delivery row with a lease; the cancellation hash | claim, persist hash, send, mark or release |
| OAuth token cache | `payment_api/auth.py` | one cached token, one lock | peek, recheck under the lock, fetch, store |
| Catalog caches | `main.py` | room types and inventory, per process | fill once |
| Stay validation and pricing | `main.py`, `confirmation.py` | quote, rows' totals | window, rates, taxes, totals |
| Browser pages | `templates/final_details.html`, `complete_payment.html` | submit flag, idempotency key, session token | submit, retry, give up |
| Production card test | `payment_prod_validation_test.py` | a signed cookie | mint, check, clear |

How they interact. `handle_booking` talks to the database through PostgREST, one
query per HTTP call, and only `create_public_booking` is a transaction. Under
the live_v6 contract the booking is confirmed at once and its email is sent by
the same request. Under pending_v7 the booking waits as `pending_payment` and a
session token travels through the browser to `/api/complete-payment`, which
claims the session, calls the registrar, and asks the database to finalize. The
registrar writes its row around a call to Moneris, which is in no transaction
with it. The sweeper and the operator change sessions and rows from outside. A
confirmed booking gets its email through a lease. A cancellation link works
through the hash the email step stored. The pages of the guest's browser submit,
give up, reload and submit again on top of this. Every call of Moneris needs an
OAuth token from a cache that all threads of a process share, and every quote a
rate from another one.

What is hard, component by component, and the properties that say it is right:

* **Booking.** Rooms are chosen from reads that are stale by the time the RPC
  runs; the SQL function repeats the overlap check under a lock per room, and
  locks of several rooms can deadlock. Replies get lost and requests are
  repeated under the same key. No double booking, one reservation per key, whole
  reservations, truthful answers, one email, and every request ends.
* **Cancellation.** The preview is stale when the RPC runs: the desk may have
  checked the guest in, another visit may have used the link.
* **Registrar.** Any answer can be lost, be ambiguous, or arrive late. One
  active registration per booking, no stored card forgotten, no success reported
  falsely, no finished row revived by a delayed PATCH.
* **Completion, sweeper, operator.** Workers die between any two calls. Success
  only with a confirmed reservation, confirmation only with a stored card, no
  cancelled reservation with a card, a second card only after a sure refusal.
* **Pages.** A page may give up on a request that goes on, a replayed create may
  replace the token the browser pays with, a reload forgets what was sent. No
  second card asked for while one may be stored.
* **Token cache.** The clock is read long before what is decided on it. The right
  account's token, with life left, no needless fetch, every call ends.
* **Quote.** Rates change and caches go wrong between a quote, the booking that
  prices the stay again, a retry that prices it once more, the rows, and the
  confirmation, which rounds differently. The confirmed total is that of the request
  that made the reservation; a catalog rate needs a gap in what Supabase could give.
* **Email.** A lease may go stale while its holder is still sending, and two
  processes may run with different secrets. No silent loss, every link sent
  works, nobody ends another worker's lease.

`PROJECT.json` lists the hazards one by one, at their source lines.

## 2. Modules

| Module | What it is |
|---|---|
| `PublicBooking` | booking creation and cancellation under live_v6 |
| `RoomCalendar` | abstract: a calendar of rooms and nights that keys book once and give back |
| `PublicBookingProofs` | its theorems: rows, answers, cancellation, locks |
| `UniqueReferenceProofs` | its theorems about behaviours in which references stay unique |
| `CredentialRegistration` | the registrar, its table and Moneris |
| `CardLedger` | abstract: one open registration per booking, final verdicts |
| `CredentialRegistrationProofs` | its theorems |
| `PaymentCompletion` | completion, expiry and reconciliation around an instance of `CredentialRegistration` |
| `CardGuarantee` | abstract: a stay waits for a card and is confirmed with one or cancelled without |
| `PaymentCompletionProofs` | the theorems of `PaymentCompletion` |
| `PaymentPage` | the guest's browser and the pending_v7 create, in front of `PaymentCompletion` |
| `PaymentPageProofs` | its theorems |
| `ConfirmationEmail` | the email lease and the cancellation capability |
| `LinkDelivery` | abstract: one link, chosen once, mailed any number of times, then reported |
| `ConfirmationEmailProofs` | its theorems |
| `OAuthCache`, `OAuthCacheProofs` | the token cache, and its theorems |
| `StayQuote`, `StayQuoteProofs` | the room-type cache, validation and prices of a stay, and the theorems |
| `MC...` | constants, small instances and symmetry for TLC |

### PublicBooking

Each POST is a member of `Request` and a thread of its own; `pc[r]` is the next
query of `handle_booking` or the place inside the SQL function. A row of
`bookings` is identified by the itinerary line it was made for, so `status[s]`
and `roomOf[s]` are its columns. Rows of an open transaction are `inserted`,
invisible to the queries of others until `CommitCreate`. Advisory locks are
`keyLock` and `roomLock`; `BreakDeadlock` is Postgres's detector, `Rollback`
what every failing exit does. `Fail` is an error or a dead worker at any step, with
an open transaction rolled back. `Abandon` is the other way a call is lost: its
caller gives up, the browser sees an error, and the transaction goes on, waits
for its locks and commits with nobody left to read its `Reply`. A `Visit` is a POST of the
cancellation page: preview, RPC, commit. `Desk` is the staff application and
`Expire` the token's expiry; neither is in this repository. `Desk` cancels no
confirmed stay (`DeskMoves`): who the staff may cancel is not decided by this code,
and `CancelledByOwnLinkOnly` is about the website's way to cancel.

Prices, guest fields, rate limiting and message texts are not in the model. Of
the validation only its inventory check is, because only that reads state. The
overlap query that fails open (it then counts no bookings) is the second way
`Validate` can pass.

### CredentialRegistration

A `Call` is one run of `register_booking_payment_credential`, `step[c]` its next
HTTP request. The row is identified by its unique idempotency key. `late` holds
PATCHes and `posted` INSERTs whose caller has given up on them and which the
database may still apply. `moneris[k]` is what the processor made of the key:
it answers a key once, and may process a request after its caller timed out
(`Settle`). The categories of `payment_api/validation.py` are the actions
`ValidateAccepted`, `-Declined`, `-Ambiguous`, `-Invalid`, `-NoToken`.
`Release` is the operator's release of a held row, under the assumption the
source states: a human has confirmed the failure (`ConfirmedFailure`).

### PaymentCompletion

`Registrar == INSTANCE CredentialRegistration WITH Call <- Worker, Booking <-
Session`: a request's registration is a call of the registrar, each of whose
steps is a step here. The SQL functions `claim_booking_payment_session`,
`reopen_...`, `finalize_...`, `operator_finalize_...`, `release_held_...` and
`expire_abandoned_...` belong to another repository. Their guards are the error
identifiers the handlers map (`credential_not_succeeded`,
`stale_registration_attempt`, ...) and the behaviour of the fakes in
`tests/test_payment_completion.py` and `tests/test_payment_reconciliation.py`;
these definitions are marked external, or mapped to the Python that calls them.
Two assumptions about them carry weight: the sweeper expires OPEN sessions only
(it counts PROCESSING ones as held), and an operator release needs the current
attempt key. A body that `parse_browser_payment_request` refuses
(`payment_completion.py:95-119`) ends its request before the claim, with no effect on
any state; such requests are left out.

### PaymentPage

`EXTENDS PaymentCompletion`. A `Create` is a POST of the details page: all creates
of a page carry one idempotency key, so the first makes the session and the others
replay it; `Rotates` says when a replay replaces the token whose hash the
session has. `held` is the browser's `sessionStorage`, `submit` the states of
`final_details.html`'s `isSubmitting` and `complete_payment.html`'s `submitState`,
`load` the requests the form has sent since it was last loaded. `Serve` lets a
request of `PaymentCompletion` run once the page has sent it, under the token it
presented. The page gives up on a request (`CreateFails`, `NoAnswer`) whatever
becomes of it. The create RPC of pending_v7 is SQL of the other repository: its
rotation is modelled from `payment_session.py` and the tests. A guest has one
tab; that the details page could meet a create answered without rotation
(`Created` on "reused") needs a second one.

### OAuthCache

A `Caller` is a thread in `get_access_token`. `now[c]` is the time it last read,
apart from `clock`: Python reads the clock before the cache and before the request,
and any time may pass between. A `Token` is who it was granted to, when, and for how
long. `ColdStart` is the serverless instance that is replaced with its threads.
Clock values are whole; lifetimes are even, so that half of one is whole, and 0
stands for one that vanishes in a float sum (`Worthless`).

### StayQuote

A `Request` is a run of `verify_cart` (`key[r] = None`) or of `handle_booking`
(`key[r]` is its idempotency key). Both price the stay for themselves, a room at a time;
`quote[r]` is the `grand_total` they answer. `Fetch` and `Fill` are apart, for two
threads can both find the cache empty. `cache` and `fetched` have rates of some of the
room types: none after a failed query or one of no rows, all that have rows, or, when
`LoopBreaks` because a row cannot be read, any of those (`Loads`: rows come in no
particular order). `PriceFrom` falls back on the catalog for each missing code alone,
and `AssignRoom` finds no `room_type_id` for it. `Store` is `create_public_booking` on
what the prices can tell: it stores `rows[k]` for the first request of a key, its
`maker[k]`, and leaves them to the later ones (`reused`); its reply may be lost after the
commit. `Confirm` adds the stored rows up. `lacked[r]` is a history variable: the room
types Supabase could not surely give at some time while `r` priced.

Amounts are cents; `Tax` rounds to the nearest one, and `TiesUp` names the half cents that
Python's binary floats round up. `ChangeRow` is the staff application: it changes a rate,
removes a row, leaves it unreadable (`Flaw`) or mends it. Rooms, nights, availability and
the reference are those of `PublicBooking`; here a booking is refused at any time. Not
modelled because the code does not do it: a comparison of the price of `handle_booking`
with the one `verify_cart` answered before, and of a replay's own new price, which it
answers, with the stored rows.

### ConfirmationEmail

One confirmed reservation, many requests that try to send its email. `fresh`
says that the lease is younger than two minutes; `hash` is a placeholder's or a
token's under one of the secrets; `late` are conditional UPDATEs still under
way. `SecretOf` may differ between workers, as across a deployment that changes
`CANCELLATION_TOKEN_SECRET`.

## 3. Runs

| Run | Bounds | What it shows |
|---|---|---|
| `booking_retry` | a request, its retry, a rival; overlapping nights; two rooms; one visit | types, no double booking, one reservation per key, truthful answers, one email |
| `booking_pair` | two requests of two rooms in opposite order; one visit; fair | whole reservations, spent links free rooms, stays in progress kept, every request is answered; implements `RoomCalendar` |
| `booking_cancel` | the same with two visits | one visit is told it cancelled; a link cancels its own reservation only |
| `booking_reference_race` | colliding references | **violated**: two reservations under one reference |
| `booking_repeat` | a retry and one room | **violated**: a retry is refused for want of the room its own reservation has |
| `registrar_race` | three calls, two keys, two bookings | one active row per booking, no card forgotten, no false success; implements `CardLedger` |
| `payment_race` | the pages of one guest: two creates, three payment requests, three keys, one session | what the guest is told, what is confirmed and which cards exist agree; the page sends one card at a time and asks for another only when none of that load can be stored; a replaced token strands no stored card; the registrar's specification is respected |
| `payment_stuck` | two requests, one key, fair | **violated**: a session reported as being processed may stay so for ever |
| `email_lease` | three workers, two secrets | no silent loss, every link works, leases end by their holders or by age |
| `oauth_cache` | two threads of one account and one of another; lifetimes 0, 2, 6, buffer 2, clock to 3; fair | tokens of the right account with life left, none replaced before it is due, every call ends |
| `stay_quote` | two requests, quotes or bookings under one key; two room types of two rates; four stays; one change of the table, to a rate, no row or an unreadable one | the confirmation asks for the price of the request that made the reservation; a catalog rate needs a gap |
| `quote_fallback` | the same, all rows readable | **violated**: a catalog rate while Supabase answers |

Why these bounds are enough to be of interest: a race on a room, a key, a link
or a lease needs two actors, and the third one is the retry that comes after
them or the rival between them. Two rooms of two types in opposite order is the
smallest deadlock; half-open stays are told apart by nights 1-2 and 2-3. A second
card needs a second key, and the third key is the attempt after a reopened
second one; the second create is the replay that replaces a token. A lifetime of
2 has half of itself as buffer and one of 6 the maximal 2, so both branches of
`Buffer` count; within the clock's three ticks the first is due and the second
must not be replaced. The four stays are at the ends of the rules: 540 days ahead and 28
nights without the levy, two rooms whose taxes are half cents, one refused for its third
guest in a standard room, one for its 541 days. The table has any flaws to begin with and
changes once (`MaxChanges`), so that a rate differs between a request and its retry, or
a room type is missing from a cache and there again in the table. Three to five rooms
are covered by the theorem only. Every mutant in `PROJECT.json`, each a bug one could make in the
mapped code, violates its property within these bounds.

`CHECK_DEADLOCK` is never turned off: the state in which every actor has
finished stutters by `Finished`, and any other state without a step would be
reported.

Fairness. `PublicBooking!FairSpec` is weak fairness of each worker's next step
(a running Flask worker goes on, and Postgres breaks deadlocks after
`deadlock_timeout`) and of a cancellation RPC under way; guests, desk, expiry
and failures owe nothing. `PaymentCompletion!FairSpec` adds time and the sweeper,
which is called every five minutes, and not the operator, who is a person.
`OAuthCache!FairSpec` is weak fairness of each call's next step: `with _cache_lock`
releases on every path and the request has a timeout.

## 4. Findings

* `UniqueReference` (`main.py:941`): the reference is checked for uniqueness
  before the transaction that stores it and never again; `main.py:937` promises
  to regenerate on a collision. A cancellation of one of the two reservations
  then cancels the other's rows too.
* `RepeatReturnsOriginal` (`main.py:1135`): a repeated submit is validated
  against availability that its own reservation uses up; `main.py:963` and
  `:1139` promise the original reservation.
* `InProgressEnds` (`payment_completion.py:565`): "Please wait a moment and try
  again" is also said of sessions nothing will ever process again.
* `FallbackOnlyWhileUnreachable` (`main.py:611`): one failed query leaves an empty
  room-type cache, which is not `None`, for the life of the process; stays are then
  priced from the source code while Supabase answers, against `main.py:279-280` and
  `:580-581`.

## 5. Proofs

Proved by TLAPS for all values of the constants, under the named assumptions of
the modules. They say that the constant functions have the types they are declared
with (`RequestAssumption`, `SessionAssumption`, `CallerAssumption`,
`CatalogAssumption`, ...), that null values are no rooms, keys, tokens or calls
(`NoneAssumption`, `CreateNoneAssumption`, `CacheAssumption`, the flaws of
`RateAssumption`), that a request has a
line (`ItineraryAssumption`) and a stay a night (`PublicBooking!StayAssumption`),
and that halves of lifetimes are whole (`TimeAssumption`).

* `PublicBookingProofs`: `TypeCorrect`, `RoomsNeverDoubleBooked`,
  `KeysBookOnce`, `ReservationsAreWhole`, `AnswersAreTrue`, `OneMailPerKey`, and of
  cancellation `GuestsInHouseStay`, `SpentLinksFreeRooms`, `LinksCancelOnce`.
  `NoDoubleBooking` is not inductive: a commit makes rows visible
  that were checked steps earlier. `BookingInv` adds what makes the check last:
  rows are inserted only under the lock of their room and of their key
  (`LockInv`), while a transaction is open its key has no reservation
  (`FreshKeyInv`), an inserted row collides with no committed one
  (`FreeRoomInv`), and rows and rooms exist only from the right step on
  (`ProgressInv`). The steps are grouped by their effect on rows and locks, so
  that each effect is proved once. `WholeReservation` is inductive with the types.
  Answers and emails follow from `AnswerInv`: what a request was answered with is
  stored under its key and what it mailed is its own; a replay keeps it only because
  a key has one reservation, so `KeysBookOnce` is part of the argument.
  `CancelledOnce` rests on `VisitInv`: a visit that holds the lock of its reference
  has an unspent credential and is alone with that reference, and a link that was
  mailed belongs to a request that can no longer change its reference. None of the
  three needs references to be unique.
  `LocksDieWithTransactions`: an advisory lock is held by a request inside
  `create_public_booking`, and a room's by one that has a row in it (`LockOwnersInv`);
  so no failing exit leaves a lock behind. `LocksNeverStall` is what liveness needs
  of safety: while some request is in or before its transaction, some request is not
  held up, or Postgres sees a cycle. Its core is `WaitersFormCycle`: in a finite set
  of requests that all wait for members of the set, a smallest subset with that
  property is a cycle in the sense of `Deadlocked`; that a smallest one exists is the
  well-foundedness of strict inclusion on finite sets. It assumes `Request` finite, as
  the requests of a server at one time are. `SingleRoomsNeverDeadlock`: if every
  itinerary has one line there is never such a cycle, for a waiter holds no room.
* `UniqueReferenceProofs`: `OwnLinkCancels` and `StoreImplementsCalendar`, both of
  the form `Spec /\ []UniqueReference => ...`: they are false without the hypothesis,
  and `booking_reference_race` shows that the code does not establish it.
  `ApartDrawsAreUnique` shows that it is no empty hypothesis: if requests of different
  keys never draw one reference (`DrawsApart`, what `secrets.token_hex` gives but for a
  collision), `Spec` implies it, and `ApartDrawsKeepCalendar` puts the two together.
  For the refinement a night's holder is well defined because `NoDoubleBooking` leaves
  one row per room and night (`OneRowPerNight`, `HolderMeaning`); a commit takes only
  free nights, of a key that had none; a cancellation or a no-show gives back nights of
  one key; and everything else leaves every cell as it was.
* `CredentialRegistrationProofs`: `TypeCorrect`, `OneActive`, `CardsKept`,
  `SuccessIsReal`. The invariant follows the verdict of Moneris through
  the steps: whoever is about to write FAILED, or has such a PATCH under way, has
  seen a decline; whoever is about to write SUCCEEDED has seen the card accepted;
  a call at Moneris has its row in the table. `TableImplementsLedger` is the
  refinement: a step leaves the rows alone, inserts one or patches one
  (`RowStep`), and since a booking has one active row at most, the one the
  mapping chooses is the one that was inserted or patched.
* `PaymentCompletionProofs`: `TypeCorrect`, `RegistrarRespected`,
  `SuccessIsConfirmed`, `ConfirmationsHaveCards`, `OneCardEach`,
  `CancelledWithoutCard`, `RetriesAreSafe`. Every step is a step of the registrar
  or leaves its variables alone, so the registrar's own proof, instantiated, keeps
  `RegistrarInv`; nothing of it is proved again. On top: a key belongs to the
  one session it was minted for and its row was written for that session
  (`Custody`); an attempt that is no longer current has FAILED, and Moneris refused
  it unless an operator ended the session (`PastFailed`), which is why a second
  card cannot meet a first one; session and reservation go together
  (`Lifecycle`); whoever shows the confirmation knows the session consumed (`Told`).
  `TableKeepsLedger` carries the registrar's refinement over: `Spec` implements
  `CardLedger`. `ServiceImplementsGuarantee` is the promise of the whole service,
  `CardGuarantee`: a stay waits; a card may be stored while it waits; it is confirmed
  only with a card and cancelled only without one; and nothing of this is taken back.
  A step changes the verdict of the processor on at most one key
  (`RegistrarMovesVerdicts`) or the standing of at most one reservation
  (`SessionsMoveReservations`), never both; `Standing` says which reservations have
  cards, so that each such step is one of the abstract ones.
* `PaymentPageProofs`: `PagesRespectRegistrar`, `PageTypeCorrect`,
  `OneRequestAtATime`, `InvitesAreSafe`, `StrandedWithoutCard`,
  `PagesImplementGuarantee`. The pages drive the
  service within its specification (`PagesUseTheService`, `PageSpec => Spec`), so all
  theorems above hold of them. `RetryInv`: who was told to retry was declined;
  `TabInv`: what the form shows agrees with what it waits for; `TokenInv`: all
  requests present the one token the browser has, and while a replaced
  token is held no card is being processed.
* `ConfirmationEmailProofs`: `TypeCorrect`, `LinksWork`, `NoMailLost`,
  `LeasesEndByHolder`, `EmailImplementsDelivery`. A worker at the provider has its own hash in the row, and the
  only writes of the hash replace the placeholder it was read as, which no token is;
  only an email that is being sent has a lease. The last theorem is a refinement:
  with leases, workers and hashes hidden, `LinkDelivery` is left, where one link is
  chosen for good, every repetition of the mail carries it, "sent" is said only
  after a mail and stands (a worker answers once, `AnswersAreLast`), and only a
  mailed link cancels. Each write of the hash is its `Choose`, because no worker has
  sent anything while the placeholder stands (`WriteChooses`). At most one mail is
  not promised: a lease may go stale under a sender.
* `OAuthCacheProofs`: `TypeCorrect`, `TokensStayHome`, `TokensAreFresh`,
  `NoNeedlessFetch`. The entry is its token's account's and leaves the buffer of
  its life (`CacheSound`), because a token is issued after its caller read the
  clock (`ReplySound`), and who fetches has found the entry due under the lock it
  still holds (`FoundDue`, `HolderOnly`). `LockFreedOnEveryPath`: the lock is held
  exactly by the one caller inside the `with` block, so no failure and no cold start
  leaves it behind.
* `StayQuoteProofs`: `TypeCorrect`, `CatalogNeedsGap`, `SaleIsConfirmed`. A room type
  that is missing from a query's data was noticed by the request that made the query
  (`Noticed`), and `MissingNeedsGap` follows it to the cache and from there into the
  prices of other requests; `InHand` says that who queries has a room to price. For the
  amounts the invariant says what each was made from (`Amounts`): a request's quote from
  its prices (`Made`), and the rows of a reservation from the prices of its maker, which
  prices no more (`Sold`), so that no retry and no later rate can reach them.
  `TaxRounds` bounds a rounded tax by half a cent whichever way ties go; `TaxOfSum`
  bounds the tax of a sum against the sum of up to five taxes, and `RowsAgreeWithQuote`
  is the comparison of the two totals. A stay has five rooms at most, so `SumOf` is
  written out as a sum of five terms: the provers cannot reason about a fold.

Only model-checked: `EveryRequestEnds` and `EveryCallEnds`, for liveness needs
fairness and ENABLED and is out of the prover's reach; of the first, what safety can
say is proved (`LocksNeverStall`), and of the second that the lock it waits for is
never left behind. The properties of the four runs that expect a violation are false
and have no theorem. The strengthening invariants, the lock invariants and the
guarantee are not properties of the runs: they were model-checked before they were
proved, and the runs check what they imply.

## 6. Not modelled

The inventory cache (it is a constant of `PublicBooking`: rooms and their status are
written by the staff application), the cart pages and the frame of the card form
(their messages are the data keys of `PaymentPage`), rendering, e-mail layout,
calendar files, static assets, rate limits, secrets, random tokens and their
hashes, bearer checks, the listings of the operator, hosted-tokenization configuration
(`payment_ht.py`, `payment_api/config.py`: environment variables compared at start),
the production card test (a signed gate without state, marked for removal) and the
availability indexes: no state that the properties could be about. The SQL of
pending_v7 is not in the repository: it is a set of assumptions here, listed
above. `scripts/verify_supabase_booking.py` is a manual smoke test.

Four hazards have no property, for the code promises nothing there: a live_v6
worker that dies between the commit and the mail, a browser that drops its token
although the mail failed, a room taken out of service by the staff application
between its assignment and the RPC, and a price that changes between the quote and
the booking. The fifth, a payments API found unconfigured after the claim, is a state
of the model whose end is up to SQL of the other repository.

## 7. Order of work, and what is left

1. Booking and cancellation with their abstraction; the registrar with its ledger;
   completion, sweeper and operator composed with it; the email lease.
2. The browser composed with completion; the token cache; the quote and its cache.
3. The proofs of all of these.

What could still be added: the email lease composed with completion, which here meet
only in what `email_sent` says, and the inventory cache.
