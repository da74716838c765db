--------------------------- MODULE EmailDelivery ---------------------------
(***************************************************************************)
(* The e-mails that tell a customer of one business event (a receipt, or   *)
(* the shipment or release date of an invoice): the notification that      *)
(* follows the event, the corrections an administrator adds to it, their   *)
(* deliveries, the dispatcher that hands deliveries to the provider, and   *)
(* the webhooks with which the provider reports on them.                   *)
(*                                                                         *)
(* Content is a version number of the event.  A delivery is the key        *)
(* <<notification, index>> under which it is sent.  Time is left out: a    *)
(* back-off may always have ended, a lease may end at any time (MaxLapses  *)
(* times), the provider forgets an idempotency key when KeysLapse says so. *)
(***************************************************************************)
EXTENDS EmailStatus, FiniteSets

CONSTANTS
  Original,       \* the notification of the event
  Corrections,    \* identifiers for its corrections
  Workers,        \* dispatches in flight
  Hooks,          \* webhook calls in flight
  Modes,          \* values the setting recipientMode takes
  MaxRecipients,  \* most addresses the customer has
  RetryLimit,     \* the setting retryLimit
  Removals,       \* ways in which the event ceases to concern the customer
  Reports,        \* kinds of events the provider reports
  KeysLapse,      \* whether the provider may forget an idempotency key
  MaxVersion, MaxCrashes, MaxLapses, MaxRetries, MaxReports  \* bounds

ASSUME ModesAssumption == Modes \subseteq {"PRIMARY_CC", "SEPARATE"}
ASSUME RemovalsAssumption == Removals \subseteq {"Cleared", "Moved", "Deleted"}
ASSUME ReportsAssumption ==
  Reports \subseteq Successes \cup {"FAILED"}
ASSUME NaturalsAssumption ==
  /\ MaxRecipients \in Nat /\ RetryLimit \in Nat /\ MaxVersion \in Nat
  /\ MaxCrashes \in Nat /\ MaxLapses \in Nat /\ MaxRetries \in Nat
  /\ MaxReports \in Nat /\ KeysLapse \in BOOLEAN
ASSUME OriginalAssumption == Original \notin Corrections

VARIABLES
  source,     \* "Absent", "Live", or the way in which it was removed
  version,    \* the content of the event
  addresses,  \* how many notification addresses the customer has
  status,     \* EmailNotification.status, "None" for no row
  snapshot,   \* EmailNotification.currentSnapshot
  reason,     \* EmailNotification.correctionReason
  parent,     \* EmailNotification.parentNotificationId
  deliveries, \* the EmailDelivery rows of each notification
  session,    \* what each dispatch and each webhook call works on
  sent,       \* external: e-mails the provider accepted under each key
  remembered, \* external: keys the provider would recognise
  reports,    \* external: what the provider reports of each delivery
  linked,     \* EmailWebhookEvent rows with a deliveryId, by key
  applied,    \* EmailWebhookEvent rows with an appliedAt, by key
  confirmed,  \* retries of uncertain deliveries confirmed in the audit log
  used        \* how much of each bound is used up

event    == <<source, version, addresses>>
notes    == <<status, snapshot, reason, parent>>
provider == <<sent, remembered, reports>>
hooked   == <<linked, applied>>
vars     == <<event, notes, deliveries, session, provider, hooked, confirmed,
              used>>
-----------------------------------------------------------------------------
Notifications == {Original} \cup Corrections
Keys          == Notifications \X (1..MaxRecipients)
Versions      == 0..MaxVersion
Sources       == {"Absent", "Live", "Cleared", "Moved", "Deleted"}
Reasons       == {"None", "SOURCE_CHANGED", "SOURCE_DATE_CLEARED",
                  "SOURCE_CUSTOMER_MEMBERSHIP_CHANGED", "SOURCE_DELETED",
                  "ADMIN_CANCELLED"}
NoClaim       == 0
NoMessage     == 0

Row == [status : DeliveryStatuses, claim : Nat, attempts : Nat, message : Nat,
        content : Versions]

Idle == [op |-> "idle"]

Notified  == {n \in Notifications : status[n] # "None"}
Delivered == {k \in Keys : k[2] \in DOMAIN deliveries[k[1]]}
RowOf(k)  == deliveries[k[1]][k[2]]
StatusesOf(n) == [i \in DOMAIN deliveries[n] |-> deliveries[n][i].status]

SetRow(k, row) == deliveries' = [deliveries EXCEPT ![k[1]][k[2]] = row]
Work(p, task)  == session' = [session EXCEPT ![p] = task]
Use(bound)     == used' = [used EXCEPT ![bound] = @ + 1]

Init ==
  /\ source = "Absent"
  /\ version = 0
  /\ addresses \in 0..MaxRecipients
  /\ status = [n \in Notifications |-> "None"]
  /\ snapshot = [n \in Notifications |-> 0]
  /\ reason = [n \in Notifications |-> "None"]
  /\ parent = [n \in Notifications |-> Original]
  /\ deliveries = [n \in Notifications |-> << >>]
  /\ session = [p \in Workers \cup Hooks |-> Idle]
  /\ sent = [k \in Keys |-> 0]
  /\ remembered = {}
  /\ reports = [k \in Keys |-> << >>]
  /\ linked = [k \in Keys |-> {}]
  /\ applied = [k \in Keys |-> {}]
  /\ confirmed = [k \in Keys |-> 0]
  /\ used = [crashes |-> 0, lapses |-> 0, retries |-> 0]
-----------------------------------------------------------------------------
(***************************************************************************)
(* The business side.  Every write of a receipt or an invoice projects the *)
(* event in its own transaction, which fails when an administrator or a    *)
(* dispatch changes the notification in between.                           *)
(***************************************************************************)
ReadyStatus(count) == IF count > 0 THEN "PENDING" ELSE "MISSING_RECIPIENT"

\* A notification that is not approved follows the event; so does one that
\* was cancelled because the date was cleared.
Follows(n) ==
  \/ status[n] \in Editable
  \/ status[n] = "CANCELLED" /\ reason[n] = "SOURCE_DATE_CLEARED"

\* upsertCurrentNotification: one that may have been sent asks for a correction.
Upsert(content) ==
  IF status[Original] = "None" \/ Follows(Original)
    THEN /\ status' = [status EXCEPT ![Original] = ReadyStatus(addresses)]
         /\ snapshot' = [snapshot EXCEPT ![Original] = content]
         /\ reason' = [reason EXCEPT ![Original] = "None"]
    ELSE IF status[Original] = "CANCELLED" \/ snapshot[Original] = content
      THEN UNCHANGED <<status, snapshot, reason>>
      ELSE /\ status' = [status EXCEPT ![Original] = "NEEDS_CORRECTION"]
           /\ snapshot' = [snapshot EXCEPT ![Original] = content]
           /\ reason' = [reason EXCEPT ![Original] = "SOURCE_CHANGED"]

\* The event happens, changes, or is restored.
Publish(content) ==
  /\ source \in {"Absent", "Live", "Cleared", "Moved"}
  /\ content \in Versions /\ content \in {version, version + 1}
  /\ source' = "Live"
  /\ version' = content
  /\ Upsert(content)
  /\ UNCHANGED <<addresses, parent, deliveries, session, provider, hooked,
                 confirmed, used>>

RemovalReason(removal) ==
  CASE removal = "Cleared" -> "SOURCE_DATE_CLEARED"
    [] removal = "Moved"   -> "SOURCE_CUSTOMER_MEMBERSHIP_CHANGED"
    [] removal = "Deleted" -> "SOURCE_DELETED"

AfterRemoval(s) ==
  IF s = "None" THEN "None"
  ELSE IF s \in PossiblySent THEN "NEEDS_CORRECTION" ELSE "CANCELLED"

\* The date is cleared, the orders of the customer leave the invoice, or the
\* record is deleted.  The deliveries are left as they are.
Remove(removal) ==
  /\ removal \in Removals
  /\ source \in CASE removal = "Cleared" -> {"Live", "Moved"}
                  [] removal = "Moved"   -> {"Live"}
                  [] removal = "Deleted" -> {"Live", "Cleared", "Moved"}
  /\ source' = removal
  /\ status' = [n \in Notifications |-> AfterRemoval(status[n])]
  /\ reason' = [n \in Notifications |->
                  IF n \in Notified THEN RemovalReason(removal) ELSE "None"]
  /\ UNCHANGED <<version, addresses, snapshot, parent, deliveries, session,
                 provider, hooked, confirmed, used>>

\* A write that changes what the e-mail would say and projects nothing: the
\* name of the customer, or another receipt of the order.
Drift ==
  /\ source = "Live"
  /\ version < MaxVersion
  /\ version' = version + 1
  /\ UNCHANGED <<source, addresses, notes, deliveries, session, provider, hooked,
                 confirmed, used>>

\* A preview refreshes what it shows.
Preview ==
  /\ status[Original] \in Editable
  /\ source = "Live"
  /\ Upsert(version)
  /\ UNCHANGED <<event, parent, deliveries, session, provider, hooked, confirmed,
                 used>>

\* Addresses are added and deleted; what is not approved becomes sendable
\* or stops being so.
ChangeAddresses(count) ==
  /\ count \in 0..MaxRecipients /\ count # addresses
  /\ addresses' = count
  /\ status' = [n \in Notifications |->
                  IF status[n] \in Editable THEN ReadyStatus(count) ELSE status[n]]
  /\ UNCHANGED <<source, version, snapshot, reason, parent, deliveries, session,
                 provider, hooked, confirmed, used>>
-----------------------------------------------------------------------------
(***************************************************************************)
(* The administrator.  Each operation locks the row of the notification.   *)
(***************************************************************************)
Copies(mode) == IF mode = "SEPARATE" THEN addresses ELSE 1

QueuedRow(content) ==
  [status |-> "QUEUED", claim |-> NoClaim, attempts |-> 0,
   message |-> NoMessage, content |-> content]

\* Fault: the approval trusts the latest projection.
ApprovedAsProjected(n) == snapshot[n]

\* What an approval sends: an original is refreshed first, a correction is not.
Approved(n) == IF n = Original THEN version ELSE snapshot[n]

\* The keys of the deliveries are unique, so that a notification that has
\* some already cannot be given new ones.
Approve(n, mode) ==
  /\ status[n] = "PENDING"
  /\ addresses > 0
  /\ n = Original => source = "Live"
  /\ deliveries[n] = << >>
  /\ snapshot' = [snapshot EXCEPT ![n] = Approved(n)]
  /\ reason' = [reason EXCEPT ![n] = IF n = Original THEN "None" ELSE @]
  /\ status' = [status EXCEPT ![n] = "QUEUED"]
  /\ deliveries' =
       [deliveries EXCEPT ![n] = [i \in 1..Copies(mode) |-> QueuedRow(Approved(n))]]
  /\ UNCHANGED <<event, parent, session, provider, hooked, confirmed, used>>

\* Nothing may be on its way, or have arrived.
NothingStarted(n) ==
  \A i \in DOMAIN deliveries[n] : deliveries[n][i].status \in {"QUEUED", "FAILED"}

Cancel(n) ==
  /\ status[n] \in Cancellable
  /\ NothingStarted(n)
  /\ status' = [status EXCEPT ![n] = "CANCELLED"]
  /\ reason' = [reason EXCEPT ![n] = "ADMIN_CANCELLED"]
  /\ deliveries' =
       [deliveries EXCEPT ![n] =
          [i \in DOMAIN @ |-> [@[i] EXCEPT !.status = "CANCELLED", !.claim = NoClaim]]]
  /\ UNCHANGED <<event, snapshot, parent, session, provider, hooked, confirmed,
                 used>>

\* Fault: an uncertain delivery counts as failed.
RetryTargetsUnconfirmed(n, confirm) ==
  {i \in DOMAIN deliveries[n] :
     deliveries[n][i].status \in {"FAILED", "DELIVERY_UNCERTAIN"}}

\* Fault: whatever did not succeed is sent again.
RetryTargetsUnsuccessful(n, confirm) ==
  {i \in DOMAIN deliveries[n] :
     \/ deliveries[n][i].status \in {"FAILED", "CANCELLED"}
     \/ confirm /\ deliveries[n][i].status = "DELIVERY_UNCERTAIN"}

\* A delivery that may have gone out is sent again on confirmation only.
RetryTargets(n, confirm) ==
  {i \in DOMAIN deliveries[n] :
     \/ deliveries[n][i].status = "FAILED"
     \/ confirm /\ deliveries[n][i].status = "DELIVERY_UNCERTAIN"}

Retry(n, confirm) ==
  LET targets == RetryTargets(n, confirm)
      risky   == {k \in Delivered : k[1] = n /\ k[2] \in targets
                                    /\ RowOf(k).status = "DELIVERY_UNCERTAIN"}
  IN
  /\ targets # {}
  /\ used.retries < MaxRetries
  /\ Use("retries")
  /\ deliveries' =
       [deliveries EXCEPT ![n] =
          [i \in DOMAIN @ |->
             IF i \in targets
               THEN [@[i] EXCEPT !.status = "QUEUED", !.claim = NoClaim]
               ELSE @[i]]]
  /\ status' = [status EXCEPT ![n] = "QUEUED"]
  /\ confirmed' = [k \in Keys |->
                     IF confirm /\ k \in risky THEN confirmed[k] + 1 ELSE confirmed[k]]
  /\ UNCHANGED <<event, snapshot, reason, parent, session, provider, hooked>>

CreateCorrection(n, c) ==
  /\ status[n] = "NEEDS_CORRECTION"
  /\ c \in Corrections /\ status[c] = "None"
  /\ ~ \E x \in Corrections \cap Notified :
         parent[x] = n /\ snapshot[x] = snapshot[n] /\ status[x] # "CANCELLED"
  /\ status' = [status EXCEPT ![c] = ReadyStatus(addresses)]
  /\ snapshot' = [snapshot EXCEPT ![c] = snapshot[n]]
  /\ reason' = [reason EXCEPT ![c] = reason[n]]
  /\ parent' = [parent EXCEPT ![c] = n]
  /\ UNCHANGED <<event, deliveries, session, provider, hooked, confirmed, used>>
-----------------------------------------------------------------------------
(***************************************************************************)
(* The dispatch.  A worker claims one delivery at a time, calls the        *)
(* provider outside any transaction, and records the outcome in a second   *)
(* transaction if the claim is still its own.  That transaction reads the  *)
(* other deliveries of the notification as of its beginning (repeatable    *)
(* read), which the model puts at the answer of the provider.              *)
(***************************************************************************)
\* A lease may end while its holder is at work, MaxLapses times.
Holders(k) ==
  {w \in Workers : session[w].op \in {"calling", "recording"}
                   /\ session[w].key = k /\ session[w].attempt = RowOf(k).claim}

\* Fault: a claim whose holder died is never taken over.
AvailableQueued(k) == RowOf(k).status = "QUEUED"

Available(k) ==
  \/ RowOf(k).status = "QUEUED"
  \/ RowOf(k).status = "SENDING" /\ (Holders(k) # {} => used.lapses < MaxLapses)

Claim(w, k) ==
  LET attempt == RowOf(k).attempts + 1 IN
  /\ session[w] = Idle
  /\ k \in Delivered
  /\ status[k[1]] \in Claimable
  /\ Available(k)
  /\ IF RowOf(k).status = "SENDING" /\ Holders(k) # {}
       THEN Use("lapses") ELSE UNCHANGED used
  /\ SetRow(k, [RowOf(k) EXCEPT !.status = "SENDING", !.claim = attempt,
                               !.attempts = attempt])
  /\ status' = [status EXCEPT ![k[1]] = "SENDING"]
  /\ Work(w, [op |-> "calling", key |-> k, attempt |-> attempt])
  /\ UNCHANGED <<event, snapshot, reason, parent, provider, hooked, confirmed>>

\* The answer of the provider, and the transaction that records it begins.
Answered(w, outcome, message) ==
  Work(w, [op |-> "recording", key |-> session[w].key,
           attempt |-> session[w].attempt, outcome |-> outcome,
           message |-> message, seen |-> StatusesOf(session[w].key[1])])

\* The provider accepts a message once per key for as long as it remembers.
Accepts(k) ==
  /\ sent' = IF k \in remembered THEN sent ELSE [sent EXCEPT ![k] = @ + 1]
  /\ remembered' = remembered \cup {k}
  /\ UNCHANGED reports

ProviderAccepts(w) ==
  /\ session[w].op = "calling"
  /\ Accepts(session[w].key)
  /\ Answered(w, "ACCEPTED", sent'[session[w].key])
  /\ UNCHANGED <<event, notes, deliveries, hooked, confirmed, used>>

ProviderRejects(w) ==
  /\ session[w].op = "calling"
  /\ Answered(w, "REJECTED", NoMessage)
  /\ UNCHANGED <<event, notes, deliveries, provider, hooked, confirmed, used>>

\* No answer: the request may or may not have arrived.
ConnectionFails(w, arrived) ==
  /\ session[w].op = "calling"
  /\ IF arrived THEN Accepts(session[w].key) ELSE UNCHANGED provider
  /\ Answered(w, "UNCERTAIN", NoMessage)
  /\ UNCHANGED <<event, notes, deliveries, hooked, confirmed, used>>

KeyLapses(k) ==
  /\ KeysLapse
  /\ k \in remembered
  /\ remembered' = remembered \ {k}
  /\ UNCHANGED <<event, notes, deliveries, session, sent, reports, hooked,
                 confirmed, used>>

\* Fault: a request without an answer counts as sent.
StatusAfterHoping(outcome, attempt) ==
  CASE outcome \in {"ACCEPTED", "UNCERTAIN"} -> "SENT"
    [] outcome = "REJECTED" -> IF attempt < RetryLimit THEN "QUEUED" ELSE "FAILED"

StatusAfter(outcome, attempt) ==
  CASE outcome = "ACCEPTED"  -> "SENT"
    [] outcome = "UNCERTAIN" -> "DELIVERY_UNCERTAIN"
    [] outcome = "REJECTED"  -> IF attempt < RetryLimit THEN "QUEUED" ELSE "FAILED"

\* Fault: the outcome is recorded whoever claimed the delivery since.
HoldsAnyClaim(k, attempt) == attempt <= RowOf(k).attempts

HoldsClaim(k, attempt) == RowOf(k).claim = attempt

\* Fault: the notification is not refreshed.
NotRefreshed(n, i, seen, new) == status

\* Fault: an outcome hides the change of the event.
RefreshedAlways(n, i, seen, new) ==
  [status EXCEPT ![n] =
     Derived({IF j = i THEN new ELSE seen[j] : j \in DOMAIN seen})]

\* The notification after one of its deliveries got a new status, the others
\* being as the transaction saw them.
Refreshed(n, i, seen, new) ==
  IF status[n] \in Overrides THEN status
  ELSE [status EXCEPT ![n] =
          Derived({IF j = i THEN new ELSE seen[j] : j \in DOMAIN seen})]

\* A claim that was lost ends the dispatch: nothing is recorded.
Record(w) ==
  LET task == session[w]
      k    == task.key
      new  == StatusAfter(task.outcome, task.attempt)
  IN
  /\ task.op = "recording"
  /\ IF HoldsClaim(k, task.attempt)
       THEN /\ SetRow(k, [RowOf(k) EXCEPT
                            !.status = new, !.claim = NoClaim,
                            !.message = IF task.outcome = "ACCEPTED"
                                          THEN task.message ELSE @])
            /\ status' = Refreshed(k[1], k[2], task.seen, new)
       ELSE UNCHANGED <<status, deliveries>>
  /\ Work(w, Idle)
  /\ UNCHANGED <<event, snapshot, reason, parent, provider, hooked, confirmed,
                 used>>

\* An error while an acceptance is recorded is taken for a lost connection.
RecordFails(w) ==
  /\ session[w].op = "recording" /\ session[w].outcome = "ACCEPTED"
  /\ Answered(w, "UNCERTAIN", NoMessage)
  /\ UNCHANGED <<event, notes, deliveries, provider, hooked, confirmed, used>>

Crash(w) ==
  /\ session[w] # Idle
  /\ used.crashes < MaxCrashes
  /\ Use("crashes")
  /\ Work(w, Idle)
  /\ UNCHANGED <<event, notes, deliveries, provider, hooked, confirmed>>
-----------------------------------------------------------------------------
(***************************************************************************)
(* The webhooks.  The provider reports on a message in the order in which  *)
(* things happen to it; its calls arrive in any order and more than once.  *)
(* A call reads in a snapshot of its own, and then commits.                *)
(***************************************************************************)
\* What may be reported next about a message, after the latest report.
Following(latest) ==
  CASE latest = "None"             -> {"SENT", "FAILED", "SUPPRESSED"}
    [] latest = "SENT"             -> {"DELIVERY_DELAYED", "DELIVERED", "BOUNCED",
                                       "FAILED"}
    [] latest = "DELIVERY_DELAYED" -> {"DELIVERED", "BOUNCED"}
    [] latest = "DELIVERED"        -> {"COMPLAINED"}
    [] OTHER                       -> {}

LatestReport(k) ==
  LET mine == {e \in DOMAIN reports[k] : reports[k][e].message = sent[k]}
  IN IF mine = {} THEN "None"
     ELSE reports[k][CHOOSE e \in mine : \A f \in mine : f <= e].kind

ProviderReports(k, kind) ==
  /\ sent[k] > 0
  /\ Len(reports[k]) < MaxReports
  /\ kind \in Reports \cap Following(LatestReport(k))
  /\ reports' = [reports EXCEPT ![k] = Append(@, [message |-> sent[k], kind |-> kind])]
  /\ UNCHANGED <<event, notes, deliveries, session, sent, remembered, hooked,
                 confirmed, used>>

\* A call about a message that is not recorded yet is answered 503, and comes
\* again; one that was linked already is ignored.
BeginHook(h, k, e) ==
  /\ session[h] = Idle
  /\ k \in Delivered
  /\ e \in DOMAIN reports[k] \ linked[k]
  /\ reports[k][e].message = RowOf(k).message
  /\ Work(h, [op |-> "hook", key |-> k, report |-> e, seen |-> StatusesOf(k[1]),
              applied |-> applied[k]])
  /\ UNCHANGED <<event, notes, deliveries, provider, hooked, confirmed, used>>

\* Fault: reports are applied as they arrive.
AppliesOnArrival(task) == task.report \notin task.applied

\* In order, and no step back, as far as the transaction can see.
Applies(task) ==
  /\ \A f \in task.applied : f <= task.report
  /\ Rank(reports[task.key][task.report].kind) >= Rank(task.seen[task.key[2]])

CommitHook(h) ==
  LET task == session[h]
      k    == task.key
      new  == reports[k][task.report].kind
  IN
  /\ task.op = "hook"
  /\ IF task.report \in linked[k]
       THEN UNCHANGED <<status, deliveries, hooked>>
       ELSE /\ linked' = [linked EXCEPT ![k] = @ \cup {task.report}]
            /\ IF Applies(task)
                 THEN /\ applied' = [applied EXCEPT ![k] = @ \cup {task.report}]
                      /\ SetRow(k, [RowOf(k) EXCEPT !.status = new])
                      /\ status' = Refreshed(k[1], k[2], task.seen, new)
                 ELSE UNCHANGED <<status, deliveries, applied>>
  /\ Work(h, Idle)
  /\ UNCHANGED <<event, snapshot, reason, parent, provider, confirmed, used>>
-----------------------------------------------------------------------------
Business ==
  \/ \E content \in Versions : Publish(content)
  \/ \E removal \in Removals : Remove(removal)
  \/ Drift
  \/ \E count \in 0..MaxRecipients : ChangeAddresses(count)

Administration ==
  \/ Preview
  \/ \E n \in Notifications :
    \/ \E mode \in Modes : Approve(n, mode)
    \/ Cancel(n)
    \/ \E confirm \in BOOLEAN : Retry(n, confirm)
    \/ \E c \in Corrections : CreateCorrection(n, c)

Claims   == \E w \in Workers, k \in Keys : Claim(w, k)
Call(w)  == \/ ProviderAccepts(w) \/ ProviderRejects(w)
            \/ \E arrived \in BOOLEAN : ConnectionFails(w, arrived)

Dispatch ==
  \/ Claims
  \/ \E w \in Workers : Call(w) \/ Record(w) \/ RecordFails(w) \/ Crash(w)

Webhooks ==
  \/ \E k \in Keys : KeyLapses(k) \/ \E kind \in Reports : ProviderReports(k, kind)
  \/ \E h \in Hooks : CommitHook(h)
       \/ \E k \in Keys, e \in 1..MaxReports : BeginHook(h, k, e)

Next == Business \/ Administration \/ Dispatch \/ Webhooks

Spec == Init /\ [][Next]_vars

\* The trigger calls the dispatch for ever, a call to the provider ends, and a
\* transaction ends.  Nothing makes an administrator or a business user act.
FairSpec ==
  /\ Spec
  /\ WF_vars(Claims)
  /\ \A w \in Workers : WF_vars(Call(w)) /\ WF_vars(Record(w))
=============================================================================
