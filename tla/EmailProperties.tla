-------------------------- MODULE EmailProperties --------------------------
(***************************************************************************)
(* What the delivery of customer e-mails guarantees, and what its design   *)
(* and its runbook say of it.                                              *)
(***************************************************************************)
EXTENDS EmailDelivery

\* Type correctness: every column and every task holds a value of its type.
TypeOK ==
  /\ source \in Sources /\ version \in Versions /\ addresses \in 0..MaxRecipients
  /\ status \in [Notifications -> NotificationStatuses \cup {"None"}]
  /\ snapshot \in [Notifications -> Versions]
  /\ reason \in [Notifications -> Reasons]
  /\ parent \in [Notifications -> Notifications]
  /\ \A n \in Notifications :
       /\ Len(deliveries[n]) <= MaxRecipients
       /\ \A i \in DOMAIN deliveries[n] : deliveries[n][i] \in Row
  /\ \A p \in Workers \cup Hooks : session[p] = Idle \/ session[p].key \in Delivered
  /\ sent \in [Keys -> Nat] /\ remembered \subseteq Keys
  /\ \A k \in Keys : /\ applied[k] \subseteq linked[k]
                     /\ linked[k] \subseteq DOMAIN reports[k]
  /\ confirmed \in [Keys -> Nat]

\* A delivery recorded as sent, or as anything that follows, was accepted by
\* the provider, whatever was lost, reclaimed or answered late
\* (finishAccepted, finishFailure, applyStoredWebhookEvent).
SuccessWasAccepted ==
  \A k \in Delivered : RowOf(k).status \in Successes => sent[k] > 0

\* No dispatch has died and no lease has ended under its holder.
Punctual == used.crashes = 0 /\ used.lapses = 0

\* Reports that an accepted e-mail failed after all, and that were applied.
FailuresReported(k) == Cardinality({e \in applied[k] : reports[k][e].kind = "FAILED"})

\* The provider accepts no more e-mails under a key than the first, those that an
\* administrator confirmed, and one for each it reported as failed, even after
\* it forgot the key: as long as no dispatch dies and no lease ends early
\* (retryEmailNotification repeats a FAILED delivery without a confirmation and
\* asks for one otherwise, finishFailure never repeats an uncertain attempt).
NoUnconfirmedDuplicate ==
  Punctual => \A k \in Keys : sent[k] <= 1 + confirmed[k] + FailuresReported(k)

\* A notification that is on its way or settled has the status that its
\* deliveries imply, whoever recorded the latest (claimDelivery, finishAccepted,
\* finishFailure, retry, cancel and the webhooks all write both).  It is checked
\* with one delivery per notification: with two, the record of one may overwrite
\* the QUEUED that a retry of the other has set (email_lost_retry.cfg).
StatusIsDerived ==
  \A n \in Notifications :
    status[n] \notin Overrides \cup Editable \cup {"None"} =>
      status[n] = Derived({deliveries[n][i].status : i \in DOMAIN deliveries[n]})

\* An e-mail whose content is not the projected content any more is marked
\* for correction, or cancelled, or not approved yet
\* (upsertCurrentNotification, refreshEmailNotificationAggregateInTransaction).
\* It is checked without retries, one of which loses the mark
\* (email_hidden_change.cfg), and with one delivery per notification.
ChangeIsNotHidden ==
  \A k \in Delivered :
    RowOf(k).content # snapshot[k[1]] => status[k[1]] \in Overrides \cup Editable

\* A queued delivery waits for a notification from which it can be claimed,
\* that was taken back, or that an administrator must decide on.
QueuedIsNotForgotten ==
  \A k \in Delivered : RowOf(k).status = "QUEUED" =>
    status[k[1]] \in Claimable \cup Overrides \cup Editable \cup {"DELIVERY_UNCERTAIN"}

\* A notification that waits for approval can be given its deliveries.
PendingCanBeApproved ==
  \A n \in Notifications : status[n] = "PENDING" => deliveries[n] = << >>
-----------------------------------------------------------------------------
\* A delivery recorded as accepted is not queued or claimed again, unless the
\* provider reports its failure first: retries and late outcomes of older
\* claims pass it by (finishFailure compares the claim token,
\* retryEmailNotification selects FAILED).  With reports of failures it is checked
\* with one webhook call at a time: of two at once, one overwrites what the
\* other recorded.
SuccessIsNotRepeated ==
  [][\A k \in Delivered :
       RowOf(k).status \in Successes => RowOf(k)'.status \notin Claimable]_vars

\* A cancelled delivery stays cancelled and is not sent afterwards, as long as
\* no dispatch dies and no lease ends early: a cancellation excludes claims,
\* retries select FAILED, and a report that comes late, of a failure too, is
\* not in order or ranks below CANCELLED (cancelEmailNotification,
\* retryEmailNotification, applyStoredWebhookEvent).  That needs webhook calls
\* that are handled one at a time: with reports of failures, a call that has read
\* the delivery before it failed and was cancelled revives it.
CancelledIsNotSent ==
  [][\A k \in Delivered : Punctual /\ RowOf(k).status = "CANCELLED" =>
       RowOf(k)'.status = "CANCELLED" /\ sent'[k] = sent[k]]_vars

\* An original is approved with the content the event has at that moment,
\* also when the latest write projected nothing (refreshNotificationSource).
ApprovedIsCurrent ==
  [][\A i \in 1..MaxRecipients :
       <<Original, i>> \in Delivered' \ Delivered =>
         deliveries'[Original][i].content = version]_vars

\* What the provider finally reported is not taken back by the webhooks:
\* "old events cannot move a completed delivery backward".  It is checked with
\* one webhook call at a time: two refute it (email_late_report.cfg).
Final == {"DELIVERED", "BOUNCED", "COMPLAINED", "SUPPRESSED"}

FinalIsNotTakenBack ==
  [][\A k \in Delivered :
       RowOf(k).status \in Final => Rank(RowOf(k)'.status) >= Rank(RowOf(k).status)]_vars

\* A queued delivery is settled, or its notification is taken back: no crash
\* and no answer leaves it queued or claimed for ever.
Unsettled(k) == k \in Delivered /\ RowOf(k).status \in Claimable

QueuedIsSettled ==
  \A k \in Keys :
    Unsettled(k) ~> ~Unsettled(k) \/ status[k[1]] \in Overrides \cup Editable
=============================================================================
