-------------------------- MODULE PaymentPageProofs ---------------------------
(***************************************************************************)
(* Theorems about PaymentPage, for any number of guests, creates and       *)
(* requests.  The pages drive the service within its specification, so     *)
(* that the theorems of PaymentCompletionProofs hold of them too.          *)
(***************************************************************************)
EXTENDS PaymentPage, PaymentCompletionProofs

-----------------------------------------------------------------------------
(* The inductive invariant.                                                *)

\* Whoever was told to retry had a card that Moneris refused.
RetryInv ==
  \A w \in Worker :
    reply[w] = "retry" =>
      pc[w] = "done" /\ key[w] # None /\ moneris[key[w]] = "declined"

\* What the browser of each guest shows and waits for.
TabInv ==
  \A s \in Session :
    /\ view[s] = "details" =>
         /\ load[s] = {} /\ held[s] = None
         /\ waiting[s] # None => waiting[s] \in Create /\ CreateOf[waiting[s]] = s
    /\ view[s] = "payment" =>
         /\ waiting[s] \in Worker \cup {None}
         /\ submit[s] = "submitting" <=> waiting[s] # None
         /\ submit[s] # "locked" => \A w \in load[s] : w = waiting[s] \/ reply[w] = "retry"
    /\ view[s] = "confirmation" => \A w \in load[s] : pc[w] = "done"

\* All requests of a guest present the one token its browser was given; when a
\* replay has replaced it, no card is being processed.
TokenInv ==
  /\ \A c \in Create : create[c] = "rotated" => current[CreateOf[c]] # None
  /\ \A w \in sent :
       LET s == SessionOf[w] IN
       view[s] # "details" /\ (held[s] # None => presented[w] = held[s])
  /\ \A s \in Session :
       /\ held[s] # None => create[held[s]] = "rotated" /\ CreateOf[held[s]] = s
       /\ view[s] = "details" \/ (held[s] # None /\ held[s] # current[s])
            => session[s] \in {"OPEN", "EXPIRED"}

PageInv == PageTypeOK /\ RetryInv /\ TabInv /\ TokenInv

-----------------------------------------------------------------------------
(* The service below the pages.                                            *)

\* Every step of the pages is a step of the service or leaves it alone.
LEMMA PagesStepTheService == [PageNext]_pageVars => [Next]_vars
<1> SUFFICES ASSUME [PageNext]_pageVars PROVE [Next]_vars
  OBVIOUS
<1>1. ASSUME NEW s \in Session, Browse(s) PROVE UNCHANGED vars
  BY <1>1 DEF Browse, SubmitBooking, Created, CreateFails, DataKey, Answered, NoAnswer, Reload
<1>2. ASSUME NEW w \in Worker, Serve(w) PROVE Next
  BY <1>2 DEF Serve, Next, Work
<1> QED
  BY <1>1, <1>2 DEF PageNext, ApplyCreate, Outside, AtRest, pageVars, Next

\* A request that has ended stays so, with its answer, its key and its refusal.
LEMMA DoneStays ==
  ASSUME IInv, [Next]_vars, NEW w \in Worker, pc[w] = "done"
  PROVE  /\ pc'[w] = "done" /\ reply'[w] = reply[w] /\ key'[w] = key[w]
         /\ key[w] # None /\ moneris[key[w]] = "declined" => moneris'[key[w]] = "declined"
<1> USE DEF IInv
<1>1. TypeOK /\ Registrar!TypeOK
  BY DEF TypeOK
<1>2. ASSUME RowsMove, UNCHANGED workerVars
      PROVE  /\ pc'[w] = "done" /\ reply'[w] = reply[w] /\ key'[w] = key[w]
             /\ key[w] # None /\ moneris[key[w]] = "declined" => moneris'[key[w]] = "declined"
  BY <1>1, <1>2 DEF RowsMove, workerVars, Registrar!TypeOK
<1>3. ASSUME NEW v \in Worker, Register(v) PROVE RowsMove /\ UNCHANGED workerVars
  BY <1>3, WorkMovesRows DEF Register
<1>4. ASSUME Network PROVE RowsMove /\ UNCHANGED workerVars
  BY <1>4, NetworkMovesRows DEF Network
<1>5. ASSUME NEW v \in Worker, ClaimOpen(v)
      PROVE  pc'[w] = "done" /\ reply'[w] = reply[w] /\ key'[w] = key[w] /\ UNCHANGED moneris
  BY <1>1, <1>5
  DEF ClaimOpen, Goto, End, TypeOK, registrarVars, Registrar!Start, Registrar!TypeOK
<1>6. ASSUME NEW v \in Worker,
             \/ ClaimRefused(v) \/ ClaimConsumed(v) \/ ClaimUnknown(v) \/ Registered(v)
             \/ Reopen(v) \/ Finalize(v) \/ Load(v) \/ Die(v) \/ LateReopen(v)
      PROVE  pc'[w] = "done" /\ reply'[w] = reply[w] /\ UNCHANGED <<key, moneris>>
  BY <1>1, <1>6 DEF ClaimRefused, ClaimConsumed, ClaimUnknown, Registered, Reopen, Finalize,
    Load, Die, LateReopen, Goto, End, TypeOK, registrarVars, workerVars
<1>7. ASSUME NEW s \in Session,
             \/ PassTTL(s) \/ Sweep(s) \/ OperatorFinalize(s)
             \/ \E k \in Key : OperatorRelease(s, k)
      PROVE  UNCHANGED <<pc, reply, key, moneris>>
  BY <1>7 DEF PassTTL, Sweep, OperatorFinalize, OperatorRelease, Registrar!Release,
    Registrar!callVars, registrarVars, workerVars
<1>8. CASE UNCHANGED vars
  BY <1>8 DEF vars, workerVars, registrarVars
<1> QED
  BY <1>2, <1>3, <1>4, <1>5, <1>6, <1>7, <1>8
  DEF Next, Work, Claim, Proceed, Environment, Finished

\* An answer to retry is given for a refused card, and stays true.
LEMMA RetryKept == IInv /\ RetryInv /\ [Next]_vars => RetryInv'
<1> SUFFICES ASSUME IInv, RetryInv, [Next]_vars, NEW w \in Worker, reply'[w] = "retry"
             PROVE  pc'[w] = "done" /\ key'[w] # None /\ moneris'[key'[w]] = "declined"
  BY DEF RetryInv
<1>1. CASE reply[w] = "retry"
  BY <1>1, DoneStays DEF RetryInv
<1>2. CASE reply[w] # "retry"
  <2>1. /\ Reopenable(SessionOf[w], key[w])
        /\ pc'[w] = "done" /\ UNCHANGED registrarVars
    BY <1>2, RetryMeansReopened DEF IInv, vars, workerVars
  <2>2. key[w] # None
    BY <2>1, SessionAssumption DEF IInv, Lifecycle, Reopenable
  <2>3. moneris[key[w]] = "declined"
    BY <2>1, <2>2 DEF IInv, PastFailed, Reopenable
  <2> QED
    BY <2>1, <2>2, <2>3 DEF registrarVars
<1> QED
  BY <1>1, <1>2

\* A session leaves OPEN or EXPIRED for a claim only.
LEMMA OnlyClaimsOpen ==
  ASSUME TypeOK, [Next]_vars, NEW s \in Session, session[s] \in {"OPEN", "EXPIRED"},
         session'[s] \notin {"OPEN", "EXPIRED"}
  PROVE  \E w \in Worker : SessionOf[w] = s /\ ClaimOpen(w)
<1> USE SessionAssumption DEF TypeOK
<1>1. UNCHANGED session => FALSE
  OBVIOUS
<1>2. ASSUME NEW w \in Worker, Reopen(w) \/ LateReopen(w) \/ Finalize(w) PROVE FALSE
  BY <1>1, <1>2 DEF Reopen, LateReopen, Finalize, Finalizable, Confirm, sessionVars
<1>3. ASSUME NEW q \in Session,
             \/ PassTTL(q) \/ Sweep(q) \/ OperatorFinalize(q)
             \/ \E k \in Key : OperatorRelease(q, k)
      PROVE  FALSE
  BY <1>1, <1>3 DEF PassTTL, Sweep, OperatorFinalize, OperatorRelease, Finalizable, Confirm
<1>4. ASSUME NEW w \in Worker,
             \/ ClaimRefused(w) \/ ClaimConsumed(w) \/ ClaimUnknown(w) \/ Register(w)
             \/ Registered(w) \/ Load(w) \/ Die(w)
      PROVE  FALSE
  BY <1>1, <1>4 DEF ClaimRefused, ClaimConsumed, ClaimUnknown, Register, Registered, Load,
    Die, sessionVars
<1>5. PICK w \in Worker : ClaimOpen(w)
  BY <1>1, <1>2, <1>3, <1>4
  DEF Next, Work, Claim, Proceed, Environment, Network, Finished, vars, sessionVars
<1> QED
  BY <1>5 DEF ClaimOpen

-----------------------------------------------------------------------------
(* The pages.  Each kind of step keeps their side of the invariant.        *)

\* A session is claimed by a request that presents the token it has.
LEMMA ClaimsPresentTheToken ==
  ASSUME TypeOK, NEW w \in Worker, ClaimOpen(w), (\E v \in Worker : Serve(v)) \/ Outside
  PROVE  w \in sent /\ presented[w] = current[SessionOf[w]]
<1> USE DEF TypeOK
<1>1. pc[w] = "claim" /\ pc'[w] # "claim" /\ session'[SessionOf[w]] # session[SessionOf[w]]
  BY SessionAssumption DEF ClaimOpen, Goto, End
<1>2. ASSUME Outside PROVE FALSE
  BY <1>1, <1>2 DEF Outside, Environment, Network, PassTTL, Sweep, OperatorFinalize,
    OperatorRelease, LateReopen, workerVars
<1>3. PICK v \in Worker : Serve(v)
  BY <1>2
<1>4. ASSUME ClaimUnknown(v) \/ Die(v) PROVE FALSE
  BY <1>1, <1>4 DEF ClaimUnknown, Die, sessionVars
<1>5. v = w
  <2>1. \A u \in Worker : u # v => pc'[u] = pc[u]
    <3>1. CASE Claim(v) \/ ClaimUnknown(v)
      <4>1. \/ \E next \in {"register", "load"} : Goto(v, next)
            \/ \E answer \in {"error", "in_progress", "expired", "refused"} : End(v, answer)
        BY <3>1 DEF Claim, ClaimOpen, ClaimRefused, ClaimConsumed, ClaimUnknown
      <4> QED
        BY <4>1 DEF Goto, End
    <3>2. CASE Proceed(v) \/ Die(v)
      BY <3>2 DEF Proceed, Register, Registered, Reopen, Finalize, Load, Die, Goto, End,
        workerVars
    <3> QED
      BY <1>3, <3>1, <3>2 DEF Serve
  <2> QED
    BY <1>1, <2>1
<1>6. ~Proceed(w)
  BY <1>1 DEF Proceed, Register, Registered, Reopen, Finalize, Load
<1> QED
  BY <1>3, <1>4, <1>5, <1>6 DEF Serve

\* The service goes on behind pages that wait.
LEMMA ServiceKeepsPages ==
  ASSUME IInv, PageInv, (\E w \in Worker : Serve(w)) \/ Outside
  PROVE  TabInv' /\ TokenInv'
<1> USE DEF PageInv, createVars, browserVars
<1>1. [Next]_vars /\ UNCHANGED <<createVars, browserVars>>
  BY PagesStepTheService DEF PageNext, Serve, Outside
<1>2. \A w \in Worker : /\ pc[w] = "done" => pc'[w] = "done"
                        /\ reply[w] = "retry" => reply'[w] = "retry"
  BY <1>1, DoneStays DEF RetryInv
<1>3. TabInv'
  BY <1>1, <1>2 DEF TabInv, PageTypeOK
<1>4. ASSUME NEW s \in Session, view[s] = "details" \/ (held[s] # None /\ held[s] # current[s])
      PROVE  session'[s] \in {"OPEN", "EXPIRED"}
  <2>1. SUFFICES ASSUME session'[s] \notin {"OPEN", "EXPIRED"} PROVE FALSE
    OBVIOUS
  <2>2. session[s] \in {"OPEN", "EXPIRED"}
    BY <1>4 DEF TokenInv
  <2>3. PICK w \in Worker : SessionOf[w] = s /\ ClaimOpen(w)
    BY <1>1, <2>1, <2>2, OnlyClaimsOpen DEF IInv
  <2>4. w \in sent /\ presented[w] = current[s]
    BY <2>3, ClaimsPresentTheToken DEF IInv
  <2> QED
    BY <1>4, <2>3, <2>4 DEF TokenInv
<1>5. TokenInv'
  BY <1>1, <1>4 DEF TokenInv
<1> QED
  BY <1>3, <1>5

\* A create that commits rotates the token of an OPEN session, or of none.
LEMMA CreateKeepsPages ==
  ASSUME PageInv, NEW c \in Create, ApplyCreate(c)
  PROVE  PageTypeOK' /\ TabInv' /\ TokenInv'
<1> USE CreateAssumption, CreateNoneAssumption DEF PageInv, PageTypeOK, ApplyCreate,
      browserVars, vars, sessionVars, workerVars, registrarVars
<1>1. PageTypeOK'
  OBVIOUS
<1>2. TabInv'
  BY DEF TabInv
<1>3. TokenInv'
  BY DEF TokenInv, Rotates
<1> QED
  BY <1>1, <1>2, <1>3

\* The guest acts, or an answer reaches the page.
LEMMA BrowseKeepsPages ==
  ASSUME PageInv, NEW s \in Session, Browse(s)
  PROVE  PageTypeOK' /\ TabInv' /\ TokenInv'
<1> USE CreateAssumption, CreateNoneAssumption, SessionAssumption DEF PageInv, PageTypeOK,
      createVars, vars, sessionVars, workerVars, registrarVars, Show
<1>1. ASSUME NEW c \in Create, SubmitBooking(s, c) PROVE PageTypeOK' /\ TabInv' /\ TokenInv'
  BY <1>1 DEF SubmitBooking, TabInv, TokenInv
<1>2. CASE Created(s)
  BY <1>2 DEF Created, TabInv, TokenInv
<1>3. CASE CreateFails(s)
  BY <1>3 DEF CreateFails, TabInv, TokenInv
<1>4. ASSUME NEW w \in Worker, DataKey(s, w) PROVE PageTypeOK' /\ TabInv' /\ TokenInv'
  BY <1>4 DEF DataKey, TabInv, TokenInv
<1>5. CASE Answered(s)
  <2>1. /\ view[s] = "payment" /\ waiting[s] # None /\ pc[waiting[s]] = "done"
        /\ UNCHANGED <<vars, createVars, sent, presented, load>>
        /\ waiting' = [waiting EXCEPT ![s] = None]
    BY <1>5 DEF Answered
  <2>2. \A w \in load[s] : w \in Worker /\ pc[w] = "done"
    BY <2>1 DEF TabInv, RetryInv
  <2>3. CASE held' = [held EXCEPT ![s] = None] /\ Show(s, "confirmation", "idle")
    <3>1. PageTypeOK'
      BY <2>1, <2>3
    <3>2. TabInv'
      BY <2>1, <2>2, <2>3 DEF TabInv
    <3>3. TokenInv'
      BY <2>1, <2>3 DEF TokenInv
    <3> QED
      BY <3>1, <3>2, <3>3
  <2>4. CASE UNCHANGED held /\ Show(s, "payment", NextState(reply[waiting[s]]))
    <3>1. PageTypeOK'
      BY <2>1, <2>4 DEF NextState
    <3>2. TabInv'
      BY <2>1, <2>4 DEF TabInv, NextState
    <3>3. TokenInv'
      BY <2>1, <2>4 DEF TokenInv
    <3> QED
      BY <3>1, <3>2, <3>3
  <2> QED
    BY <1>5, <2>3, <2>4 DEF Answered
<1>6. CASE NoAnswer(s)
  BY <1>6 DEF NoAnswer, TabInv, TokenInv
<1>7. CASE Reload(s)
  BY <1>7 DEF Reload, TabInv, TokenInv
<1> QED
  BY <1>1, <1>2, <1>3, <1>4, <1>5, <1>6, <1>7 DEF Browse

\* The pages use the service within its specification.
LEMMA PagesUseTheService == PageSpec => Spec
<1>1. PageInit => Init
  BY DEF PageInit
<1> QED
  BY <1>1, PagesStepTheService, PTL DEF PageSpec, Spec

\* The inductive invariant holds in every reachable state.
LEMMA PageInvHolds == PageSpec => []PageInv
<1>1. PageInit => PageInv
  BY DEF PageInit, Init, PageInv, PageTypeOK, RetryInv, TabInv, TokenInv
<1>2. ASSUME IInv, PageInv, [PageNext]_pageVars PROVE PageInv'
  <2>1. RetryInv'
    BY <1>2, RetryKept, PagesStepTheService DEF PageInv
  <2>2. ASSUME (\E w \in Worker : Serve(w)) \/ Outside PROVE PageInv'
    <3>1. PageTypeOK'
      BY <1>2, <2>2 DEF Serve, Outside, PageInv, PageTypeOK, createVars, browserVars
    <3> QED
      BY <1>2, <2>1, <2>2, <3>1, ServiceKeepsPages DEF PageInv
  <2>3. CASE UNCHANGED pageVars
    BY <1>2, <2>1, <2>3 DEF pageVars, createVars, browserVars, vars, sessionVars, workerVars,
      PageInv, PageTypeOK, TabInv, TokenInv
  <2> QED
    BY <1>2, <2>1, <2>2, <2>3, CreateKeepsPages, BrowseKeepsPages
    DEF PageNext, AtRest, PageInv
<1>3. IInv /\ PageInv /\ [PageNext]_pageVars => PageInv'
  BY <1>2
<1> QED
  BY <1>1, <1>3, PagesUseTheService, InvHolds, PTL DEF PageSpec

-----------------------------------------------------------------------------
\* The pages respect the registrar's specification as well, and with it all
\* that is proved of the service (complete_pending_payment).
THEOREM PagesRespectRegistrar == PageSpec => UsesRegistrar
BY PagesUseTheService, RegistrarRespected, PTL

\* Whatever guests do with the pages, reservations and cards keep the promise of
\* the guarantee (complete_payment.html, final_details.html).
THEOREM PagesImplementGuarantee == PageSpec => ImplementsGuarantee
BY PagesUseTheService, ServiceImplementsGuarantee, PTL

\* The variables of the browser always have their types.
THEOREM PageTypeCorrect == PageSpec => []PageTypeOK
<1>1. PageInv => PageTypeOK
  BY DEF PageInv
<1> QED
  BY <1>1, PageInvHolds, PTL

\* A payment page has one request under way, for any number of data keys and
\* clicks (complete_payment.html:229, :286).
THEOREM OneRequestAtATime == PageSpec => []OneRequestPerLoad
<1>1. PageInv => OneRequestPerLoad
  BY DEF PageInv, PageTypeOK, TabInv, RetryInv, OneRequestPerLoad
<1> QED
  BY <1>1, PageInvHolds, PTL

\* An open form has sent no card that is stored or may become so
\* (complete_payment.html:267-277).
THEOREM InvitesAreSafe == PageSpec => []InviteIsSafe
<1>1. PageInv => InviteIsSafe
  BY CreateNoneAssumption DEF PageInv, PageTypeOK, TabInv, RetryInv, InviteIsSafe
<1> QED
  BY <1>1, PageInvHolds, PTL

\* A browser whose token a replay has taken has no card stored
\* (payment_session.py:151).
THEOREM StrandedWithoutCard == PageSpec => []StrandedHasNoCard
<1>1. ASSUME IInv, PageInv, NEW s \in Session, held[s] # None, held[s] # current[s],
             NEW k \in Key, owner[k] = s
      PROVE  moneris[k] \in {"unsent", "declined"}
  <2>1. session[s] \in {"OPEN", "EXPIRED"}
    BY <1>1 DEF PageInv, TokenInv
  <2>2. PICK w \in Worker : key[w] = k /\ SessionOf[w] = s
    BY <1>1, NoneAssumption DEF IInv, Custody
  <2>3. status[k] = "FAILED"
    BY <1>1, <2>1, <2>2, NoneAssumption DEF IInv, Lifecycle, PastFailed
  <2> QED
    BY <1>1, <2>3 DEF IInv, Registrar!RegistrarInv, Registrar!RowInv
<1>2. IInv /\ PageInv => StrandedHasNoCard
  BY <1>1 DEF StrandedHasNoCard
<1> QED
  BY <1>2, PagesUseTheService, InvHolds, PageInvHolds, PTL
=============================================================================
