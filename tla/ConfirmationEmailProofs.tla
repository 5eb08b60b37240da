----------------------- MODULE ConfirmationEmailProofs ------------------------
(***************************************************************************)
(* Theorems about ConfirmationEmail, for any number of workers and of      *)
(* secrets.  The only writes of the hash replace the placeholder they read *)
(* (HashEffect); everything else leaves the row's hash alone.              *)
(***************************************************************************)
EXTENDS ConfirmationEmail, TLAPS

USE SecretAssumption, NoneAssumption

\* The initial state has the types.
LEMMA InitTypes == Init => TypeOK
<1>1. Init => hash \in Hash
  BY DEF Init, Hash, Placeholder
<1> QED
  BY <1>1 DEF Init, TypeOK

\* Every step keeps the types.
LEMMA StepTypes == TypeOK /\ [Next]_vars => TypeOK'
<1> SUFFICES ASSUME TypeOK, [Next]_vars PROVE TypeOK'
  OBVIOUS
<1> USE DEF TypeOK, Hash, Token, Placeholder, Goto, Answer, leaseVars, rowVars, workerVars
<1>1. ASSUME NEW w \in Worker, Claim(w) PROVE TypeOK'
  BY <1>1 DEF Claim
<1>2. ASSUME NEW w \in Worker, Fetch(w) PROVE TypeOK'
  BY <1>2 DEF Fetch
<1>3. ASSUME NEW w \in Worker, ReadRow(w) PROVE TypeOK'
  BY <1>3 DEF ReadRow
<1>4. ASSUME NEW w \in Worker, UpdateRow(w) PROVE TypeOK'
  BY <1>4 DEF UpdateRow
<1>5. ASSUME NEW w \in Worker, VerifyRow(w) PROVE TypeOK'
  BY <1>5 DEF VerifyRow
<1>6. ASSUME NEW w \in Worker, Send(w) PROVE TypeOK'
  BY <1>6 DEF Send
<1>7. ASSUME NEW w \in Worker, Mark(w) PROVE TypeOK'
  BY <1>7 DEF Mark
<1>8. ASSUME NEW w \in Worker, Release(w) PROVE TypeOK'
  BY <1>8 DEF Release
<1>9. ASSUME NEW w \in Worker, Die(w) PROVE TypeOK'
  BY <1>9 DEF Die
<1>10. ASSUME NEW w \in Worker, DeliverUpdate(w) PROVE TypeOK'
  BY <1>10 DEF DeliverUpdate
<1>11. ASSUME NEW w \in Worker, GuestCancels(w) PROVE TypeOK'
  BY <1>11 DEF GuestCancels
<1>12. CASE GoStale
  BY <1>12 DEF GoStale
<1>13. CASE UNCHANGED vars
  BY <1>13 DEF vars
<1> QED
  BY <1>1, <1>2, <1>3, <1>4, <1>5, <1>6, <1>7, <1>8, <1>9, <1>10, <1>11, <1>12, <1>13
  DEF Next, Finished

\* The variables of the email always have their types.
THEOREM TypeCorrect == Spec => []TypeOK
<1>1. Init => TypeOK
  BY InitTypes
<1> QED
  BY <1>1, StepTypes, PTL DEF Spec

-----------------------------------------------------------------------------
\* The hash is written over the placeholder it was read as, by one worker.
HashEffect(w) ==
  /\ hash = seen[w] /\ seen[w] = Placeholder(SecretOf[w])
  /\ hash' = Token(SecretOf[w])
  /\ \A v \in Worker : v # w => pc'[v] = pc[v]
  /\ UNCHANGED <<seen, mailed, delivery, flag>>
  /\ pc'[w] \in {"smtp", "release", "done"}
  /\ late' \subseteq late /\ w \notin late'

\* The placeholder is no token, so nobody is at the provider or has sent a mail
\* when the hash is written.
LEMMA WriteKeepsInv ==
  ASSUME EmailInv, TypeOK', NEW w \in Worker, HashEffect(w)
  PROVE  EmailInv'
<1>1. \A v \in Worker : hash # Token(SecretOf[v])
  BY DEF HashEffect, Placeholder, Token
<1>2. mailed = {} /\ \A v \in Worker : pc[v] # "smtp"
  BY <1>1 DEF EmailInv, EveryLinkWorks, TypeOK
<1>3. NoSilentLoss' /\ EveryLinkWorks'
  BY <1>2 DEF HashEffect, EmailInv, NoSilentLoss, EveryLinkWorks
<1>4. ASSUME NEW v \in Worker PROVE
        /\ pc'[v] = "smtp" => hash' = Token(SecretOf[v])
        /\ pc'[v] = "update" \/ v \in late' => seen'[v] = Placeholder(SecretOf[v])
        /\ v \in late' => pc'[v] \in {"release", "done"}
        /\ pc'[v] = "mark" => mailed' # {}
  BY <1>2 DEF HashEffect, EmailInv
<1> QED
  BY <1>3, <1>4 DEF EmailInv

-----------------------------------------------------------------------------
\* Every step of the system keeps the inductive invariant.
LEMMA StepsKeepInv == EmailInv /\ [Next]_vars => EmailInv'
<1> SUFFICES ASSUME EmailInv, [Next]_vars PROVE EmailInv'
  OBVIOUS
<1>1. TypeOK'
  BY StepTypes DEF EmailInv
<1> USE <1>1 DEF Goto, Answer, leaseVars, rowVars, workerVars
<1>2. ASSUME NEW w \in Worker, Claim(w) PROVE EmailInv'
  BY <1>2 DEF Claim, EmailInv, TypeOK, NoSilentLoss, EveryLinkWorks
<1>3. ASSUME NEW w \in Worker, Fetch(w) PROVE EmailInv'
  BY <1>3 DEF Fetch, EmailInv, TypeOK, NoSilentLoss, EveryLinkWorks
<1>4. ASSUME NEW w \in Worker, ReadRow(w) PROVE EmailInv'
  <2>1. pc'[w] = "smtp" => hash = Token(SecretOf[w])
    BY <1>4 DEF ReadRow, Classify, EmailInv, TypeOK
  <2>2. pc'[w] = "update" => seen'[w] = Placeholder(SecretOf[w])
    BY <1>4 DEF ReadRow, Classify, EmailInv, TypeOK
  <2> QED
    BY <1>4, <2>1, <2>2 DEF ReadRow, EmailInv, TypeOK, NoSilentLoss, EveryLinkWorks
<1>5. ASSUME NEW w \in Worker, UpdateRow(w) PROVE EmailInv'
  <2>1. CASE hash' # hash
    <3>1. HashEffect(w)
      BY <1>5, <2>1 DEF UpdateRow, HashEffect, EmailInv, TypeOK
    <3> QED
      BY <3>1, WriteKeepsInv
  <2>2. CASE hash' = hash
    BY <1>5, <2>2 DEF UpdateRow, EmailInv, TypeOK, NoSilentLoss, EveryLinkWorks
  <2> QED
    BY <2>1, <2>2
<1>6. ASSUME NEW w \in Worker, VerifyRow(w) PROVE EmailInv'
  BY <1>6 DEF VerifyRow, EmailInv, TypeOK, NoSilentLoss, EveryLinkWorks
<1>7. ASSUME NEW w \in Worker, Send(w) PROVE EmailInv'
  BY <1>7 DEF Send, EmailInv, TypeOK, NoSilentLoss, EveryLinkWorks
<1>8. ASSUME NEW w \in Worker, Mark(w) PROVE EmailInv'
  BY <1>8 DEF Mark, EmailInv, TypeOK, NoSilentLoss, EveryLinkWorks
<1>9. ASSUME NEW w \in Worker, Release(w) PROVE EmailInv'
  BY <1>9 DEF Release, HoldsLease, EmailInv, TypeOK, NoSilentLoss, EveryLinkWorks
<1>10. ASSUME NEW w \in Worker, Die(w) PROVE EmailInv'
  BY <1>10 DEF Die, EmailInv, TypeOK, NoSilentLoss, EveryLinkWorks
<1>11. ASSUME NEW w \in Worker, DeliverUpdate(w) PROVE EmailInv'
  <2>1. CASE hash' # hash
    <3>1. HashEffect(w)
      BY <1>11, <2>1 DEF DeliverUpdate, HashEffect, EmailInv, TypeOK
    <3> QED
      BY <3>1, WriteKeepsInv
  <2>2. CASE hash' = hash
    BY <1>11, <2>2 DEF DeliverUpdate, EmailInv, TypeOK, NoSilentLoss, EveryLinkWorks
  <2> QED
    BY <2>1, <2>2
<1>12. ASSUME NEW w \in Worker, GuestCancels(w) PROVE EmailInv'
  BY <1>12 DEF GuestCancels, EmailInv, TypeOK, NoSilentLoss, EveryLinkWorks
<1>13. CASE GoStale
  BY <1>13 DEF GoStale, EmailInv, TypeOK, NoSilentLoss, EveryLinkWorks
<1>14. CASE UNCHANGED vars
  BY <1>14 DEF vars, EmailInv, TypeOK, NoSilentLoss, EveryLinkWorks
<1> QED
  BY <1>2, <1>3, <1>4, <1>5, <1>6, <1>7, <1>8, <1>9, <1>10, <1>11, <1>12, <1>13, <1>14
  DEF Next, Finished

\* The inductive invariant holds in every reachable state.
LEMMA InvHolds == Spec => []EmailInv
<1>1. Init => EmailInv
  BY InitTypes DEF Init, EmailInv, NoSilentLoss, EveryLinkWorks
<1> QED
  BY <1>1, StepsKeepInv, PTL DEF Spec

\* Every cancellation link ever mailed is the one whose hash is stored, for any
\* number of racing workers and secrets (persist_cancellation_capability_hash).
THEOREM LinksWork == Spec => []EveryLinkWorks
<1>1. EmailInv => EveryLinkWorks
  BY DEF EmailInv
<1> QED
  BY <1>1, InvHolds, PTL

\* Nothing ever says that the email was sent before the provider accepted one
\* (_attempt_confirmation_email).
THEOREM NoMailLost == Spec => []NoSilentLoss
<1>1. EmailInv => NoSilentLoss
  BY DEF EmailInv
<1> QED
  BY <1>1, InvHolds, PTL

-----------------------------------------------------------------------------
\* Only an email that is being sent has a lease.
LeaseInv == delivery # "SENDING" => lease = None

\* Every step keeps LeaseInv.
LEMMA StepsKeepLease == TypeOK /\ LeaseInv /\ [Next]_vars => LeaseInv'
<1> SUFFICES ASSUME TypeOK, LeaseInv, [Next]_vars PROVE LeaseInv'
  OBVIOUS
<1>1. ASSUME UNCHANGED leaseVars PROVE LeaseInv'
  BY <1>1 DEF leaseVars, LeaseInv
<1>2. ASSUME NEW w \in Worker, Claim(w) \/ Mark(w) \/ Release(w) PROVE LeaseInv'
  BY <1>1, <1>2 DEF Claim, Mark, Release, LeaseInv
<1>3. ASSUME NEW w \in Worker, Fetch(w) \/ ReadRow(w) \/ UpdateRow(w) \/ VerifyRow(w)
                              \/ Send(w) \/ Die(w) \/ DeliverUpdate(w) \/ GuestCancels(w)
      PROVE  LeaseInv'
  BY <1>1, <1>3 DEF Fetch, ReadRow, UpdateRow, VerifyRow, Send, Die, DeliverUpdate, GuestCancels
<1>4. CASE GoStale
  BY <1>4 DEF GoStale, LeaseInv
<1>5. CASE UNCHANGED vars
  BY <1>1, <1>5 DEF vars
<1> QED
  BY <1>2, <1>3, <1>4, <1>5 DEF Next, Finished

\* A lease is ended by its holder or taken over when stale, for any number of
\* workers (the claim id that mark and release compare).
THEOREM LeasesEndByHolder == Spec => LeaseIsOwn
<1> DEFINE Ends == lease' # lease =>
                     \/ lease = None
                     \/ lease' \in Worker /\ ~fresh
                     \/ pc[lease] \in {"mark", "release"} /\ pc'[lease] = "done"
<1>1. Init => LeaseInv
  BY DEF Init, LeaseInv
<1>2. ASSUME TypeOK, LeaseInv, [Next]_vars PROVE Ends
  <2>1. ASSUME UNCHANGED leaseVars PROVE Ends
    BY <2>1 DEF leaseVars
  <2>2. ASSUME NEW w \in Worker, Claim(w) PROVE Ends
    BY <1>2, <2>1, <2>2 DEF Claim, LeaseInv
  <2>3. ASSUME NEW w \in Worker, Mark(w) \/ Release(w) PROVE Ends
    BY <1>2, <2>1, <2>3 DEF Mark, Release, HoldsLease, Answer, TypeOK
  <2>4. ASSUME NEW w \in Worker, Fetch(w) \/ ReadRow(w) \/ UpdateRow(w) \/ VerifyRow(w)
                                \/ Send(w) \/ Die(w) \/ DeliverUpdate(w) \/ GuestCancels(w)
        PROVE  Ends
    BY <2>1, <2>4
    DEF Fetch, ReadRow, UpdateRow, VerifyRow, Send, Die, DeliverUpdate, GuestCancels
  <2>5. CASE GoStale
    BY <2>5 DEF GoStale
  <2>6. CASE UNCHANGED vars
    BY <2>1, <2>6 DEF vars
  <2> QED
    BY <1>2, <2>2, <2>3, <2>4, <2>5, <2>6 DEF Next, Finished
<1>3. TypeOK /\ LeaseInv /\ [Next]_vars => [Ends]_vars
  BY <1>2
<1> QED
  BY <1>1, <1>3, StepsKeepLease, TypeCorrect, PTL DEF Spec, LeaseIsOwn

-----------------------------------------------------------------------------
\* A worker that has not answered has no answer.
AnswersAreLast == \A w \in Worker : pc[w] # "done" => flag[w] = "none"

\* Every step keeps AnswersAreLast.
LEMMA StepsKeepAnswers == TypeOK /\ AnswersAreLast /\ [Next]_vars => AnswersAreLast'
<1> SUFFICES ASSUME TypeOK, AnswersAreLast, [Next]_vars PROVE AnswersAreLast'
  OBVIOUS
<1> USE DEF TypeOK, AnswersAreLast, Goto, Answer, workerVars
<1>1. ASSUME NEW w \in Worker, Claim(w) \/ Fetch(w) \/ ReadRow(w) \/ Send(w)
      PROVE  AnswersAreLast'
  BY <1>1 DEF Claim, Fetch, ReadRow, Send
<1>2. ASSUME NEW w \in Worker, UpdateRow(w) \/ VerifyRow(w) \/ Mark(w) \/ Release(w)
      PROVE  AnswersAreLast'
  BY <1>2 DEF UpdateRow, VerifyRow, Mark, Release
<1>3. ASSUME NEW w \in Worker, Die(w) \/ DeliverUpdate(w) \/ GuestCancels(w)
      PROVE  AnswersAreLast'
  BY <1>3 DEF Die, DeliverUpdate, GuestCancels
<1>4. CASE GoStale \/ UNCHANGED vars
  BY <1>4 DEF GoStale, vars
<1> QED
  BY <1>1, <1>2, <1>3, <1>4 DEF Next, Finished

\* What the refinement takes from a state.
Works == {x \in Secret : hash = Token(x)}
Inbox == {SecretOf[w] : w \in mailed}

\* A step that leaves the hash, the mails, the use of the link and the reports
\* alone is no step of the delivery.
LEMMA NoDelivery ==
  ASSUME UNCHANGED <<hash, mailed, used>>, SaidSent' <=> SaidSent
  PROVE  UNCHANGED <<Works, Inbox, SaidSent, used>>
<1>1. SaidSent' = SaidSent
  BY DEF SaidSent
<1> QED
  BY <1>1 DEF Works, Inbox

\* The write of the hash chooses the link, the only one from then on.
LEMMA WriteChooses ==
  ASSUME EmailInv, NEW w \in Worker, HashEffect(w), ~used, UNCHANGED used
  PROVE  Delivery!Choose(SecretOf[w])
<1>1. SecretOf[w] \in Secret
  OBVIOUS
<1>2. Works = {}
  BY DEF Works, HashEffect, Token, Placeholder
<1>3. Works' = {SecretOf[w]}
  BY <1>1 DEF Works, HashEffect, Token
<1>4. Inbox' = Inbox
  BY DEF Inbox, HashEffect
<1>5. SaidSent' = SaidSent
  BY DEF SaidSent, HashEffect
<1> QED
  BY <1>2, <1>3, <1>4, <1>5 DEF Delivery!Choose, Works, Inbox

\* A mail that the provider accepts carries the link that was chosen.
LEMMA SendMails ==
  ASSUME EmailInv, NEW w \in Worker, Send(w)
  PROVE  Delivery!Mail(SecretOf[w]) \/ UNCHANGED <<Works, Inbox, SaidSent, used>>
<1>1. /\ UNCHANGED <<hash, used, delivery, flag>>
      /\ hash = Token(SecretOf[w])
  BY DEF Send, Goto, leaseVars, rowVars, EmailInv
<1>2. SaidSent' = SaidSent
  BY <1>1 DEF SaidSent
<1>3. CASE mailed' = mailed
  BY <1>1, <1>2, <1>3 DEF Works, Inbox
<1>4. CASE mailed' = mailed \cup {w}
  <2>1. SecretOf[w] \in Works /\ Works' = Works
    BY <1>1 DEF Works
  <2>2. Inbox' = Inbox \cup {SecretOf[w]}
    BY <1>4 DEF Inbox
  <2> QED
    BY <1>1, <1>2, <2>1, <2>2 DEF Delivery!Mail, Works, Inbox
<1> QED
  BY <1>3, <1>4 DEF Send

\* What is said of the mail changes only where the mark is set or the answer of
\* the marking worker says so.
LEMMA OthersSayNothing ==
  ASSUME TypeOK, AnswersAreLast, NEW w \in Worker,
         \/ Claim(w) \/ Fetch(w) \/ ReadRow(w) \/ UpdateRow(w) \/ VerifyRow(w)
         \/ Release(w) \/ Die(w) \/ DeliverUpdate(w) \/ GuestCancels(w)
  PROVE  SaidSent' <=> SaidSent
<1> USE DEF TypeOK, AnswersAreLast, SaidSent, Goto, Answer, leaseVars, workerVars
<1>1. CASE Claim(w)
  <2>1. CASE delivery = "SENT"
    BY <1>1, <2>1 DEF Claim
  <2>2. CASE delivery # "SENT"
    <3>1. /\ delivery' # "SENT"
          /\ \A v \in Worker : flag'[v] = "sent" <=> flag[v] = "sent"
      BY <1>1, <2>2 DEF Claim
    <3> QED
      BY <2>2, <3>1
  <2> QED
    BY <2>1, <2>2
<1>2. CASE Fetch(w) \/ ReadRow(w) \/ UpdateRow(w) \/ VerifyRow(w)
  BY <1>2 DEF Fetch, ReadRow, UpdateRow, VerifyRow
<1>3. CASE Release(w)
  <2>1. /\ delivery' = "SENT" <=> delivery = "SENT"
        /\ \A v \in Worker : flag'[v] = "sent" <=> flag[v] = "sent"
    BY <1>3 DEF Release, HoldsLease
  <2> QED
    BY <2>1
<1>4. CASE Die(w) \/ DeliverUpdate(w) \/ GuestCancels(w)
  BY <1>4 DEF Die, DeliverUpdate, GuestCancels
<1> QED
  BY <1>1, <1>2, <1>3, <1>4

\* A mark says that the mail was sent, and it was.
LEMMA MarkReports ==
  ASSUME EmailInv, NEW w \in Worker, Mark(w)
  PROVE  Delivery!Report
<1>1. mailed # {} /\ mailed \subseteq Worker
  BY DEF Mark, EmailInv, TypeOK
<1>2. Inbox # {}
  BY <1>1 DEF Inbox
<1>3. flag'[w] = "sent"
  BY DEF Mark, Answer, EmailInv, TypeOK
<1>4. SaidSent' = TRUE
  BY <1>3 DEF SaidSent
<1>5. UNCHANGED <<Works, Inbox, used>>
  BY DEF Mark, rowVars, Works, Inbox
<1> QED
  BY <1>2, <1>4, <1>5 DEF Delivery!Report, Works, Inbox

\* Every step is a step of the delivery, or none.
LEMMA StepsDeliver ==
  ASSUME EmailInv, AnswersAreLast, [Next]_vars
  PROVE  [Delivery!Next]_<<Works, Inbox, SaidSent, used>>
<1> DEFINE Step == [Delivery!Next]_<<Works, Inbox, SaidSent, used>>
<1>1. \A w \in Worker : SecretOf[w] \in Secret
  OBVIOUS
<1>2. ASSUME NEW w \in Worker,
             Claim(w) \/ Fetch(w) \/ ReadRow(w) \/ VerifyRow(w) \/ Release(w) \/ Die(w)
      PROVE  Step
  <2>1. UNCHANGED <<hash, mailed, used>>
    BY <1>2 DEF Claim, Fetch, ReadRow, VerifyRow, Release, Die, rowVars
  <2>2. SaidSent' <=> SaidSent
    BY <1>2, OthersSayNothing DEF EmailInv
  <2> QED
    BY <2>1, <2>2, NoDelivery
<1>3. ASSUME NEW w \in Worker, UpdateRow(w) \/ DeliverUpdate(w) PROVE Step
  <2>1. UNCHANGED <<mailed, used>> /\ (SaidSent' <=> SaidSent)
    BY <1>3, OthersSayNothing DEF UpdateRow, DeliverUpdate, EmailInv
  <2>2. CASE hash' # hash
    <3>1. HashEffect(w) /\ ~used
      BY <1>3, <2>2
      DEF UpdateRow, DeliverUpdate, HashEffect, EmailInv, TypeOK, Goto, leaseVars, workerVars
    <3>2. Delivery!Choose(SecretOf[w])
      BY <2>1, <3>1, WriteChooses
    <3> QED
      BY <1>1, <3>2 DEF Delivery!Next
  <2>3. CASE hash' = hash
    BY <2>1, <2>3, NoDelivery
  <2> QED
    BY <2>2, <2>3
<1>4. ASSUME NEW w \in Worker, Send(w) PROVE Step
  BY <1>1, <1>4, SendMails DEF Delivery!Next
<1>5. ASSUME NEW w \in Worker, Mark(w) PROVE Step
  BY <1>5, MarkReports DEF Delivery!Next
<1>6. ASSUME NEW w \in Worker, GuestCancels(w) PROVE Step
  <2>1. SaidSent' = SaidSent
    BY <1>6 DEF GuestCancels, SaidSent, leaseVars, workerVars
  <2>2. SecretOf[w] \in Inbox /\ SecretOf[w] \in Works
    BY <1>1, <1>6 DEF GuestCancels, Inbox, Works
  <2>3. UNCHANGED <<Works, Inbox>>
    BY <1>6 DEF GuestCancels, Inbox, Works
  <2>4. Delivery!Follow(SecretOf[w])
    BY <1>6, <2>1, <2>2, <2>3 DEF GuestCancels, Delivery!Follow, Works, Inbox
  <2> QED
    BY <1>1, <2>4 DEF Delivery!Next
<1>7. CASE GoStale \/ UNCHANGED vars
  BY <1>7, NoDelivery DEF GoStale, vars, leaseVars, rowVars, workerVars, SaidSent
<1> QED
  BY <1>2, <1>3, <1>4, <1>5, <1>6, <1>7 DEF Next, Finished

\* Any number of workers, leases, late updates and changed secrets together
\* deliver one link: repeated mails carry the same one, "sent" is neither said
\* before a mail nor taken back, and only a mailed link cancels
\* (_attempt_confirmation_email, persist_cancellation_capability_hash).
THEOREM EmailImplementsDelivery == Spec => ImplementsDelivery
<1>1. Init => Delivery!Init
  BY DEF Init, Delivery!Init, SaidSent, Placeholder, Token
<1>2. Init => AnswersAreLast
  BY DEF Init, AnswersAreLast
<1>3. EmailInv => TypeOK
  BY DEF EmailInv
<1>4. EmailInv /\ AnswersAreLast /\ [Next]_vars
        => [Delivery!Next]_<<Works, Inbox, SaidSent, used>>
  BY StepsDeliver
<1> QED
  BY <1>1, <1>2, <1>3, <1>4, StepsKeepAnswers, InvHolds, PTL
  DEF Spec, ImplementsDelivery, Delivery!Spec, Works, Inbox
=============================================================================
