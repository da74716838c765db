---------------------------- MODULE EmailProofs ----------------------------
(***************************************************************************)
(* Theorems about EmailDelivery, for any corrections, dispatches, webhook  *)
(* calls and recipients, any retry limit, and any number of crashes, ended *)
(* leases and retries.                                                     *)
(***************************************************************************)
EXTENDS EmailProperties, FiniteSetTheorems, TLAPS

Processes == Workers \cup Hooks

\* The rows of a notification, and their statuses.
DeliveryTables == UNION {[1..m -> Row] : m \in 0..MaxRecipients}
Statuses       == UNION {[1..m -> DeliveryStatuses] : m \in 0..MaxRecipients}

\* What a dispatch or a webhook call works on.  An attempt is counted from 1,
\* so that it differs from NoClaim.
Task ==
  [op : {"idle"}]
    \cup [op : {"calling"}, key : Keys, attempt : Nat \ {0}]
    \cup [op : {"recording"}, key : Keys, attempt : Nat \ {0},
          outcome : {"ACCEPTED", "REJECTED", "UNCERTAIN"}, message : Nat, seen : Statuses]
    \cup [op : {"hook"}, key : Keys, report : Nat, seen : Statuses, applied : SUBSET Nat]

Working(p) == session[p].op \in {"calling", "recording"}

\* The columns of a notification, and the rest of the state.
NoteInv ==
  /\ source \in Sources /\ version \in Versions /\ addresses \in 0..MaxRecipients
  /\ status \in [Notifications -> NotificationStatuses \cup {"None"}]
  /\ snapshot \in [Notifications -> Versions]
  /\ reason \in [Notifications -> Reasons]
  /\ parent \in [Notifications -> Notifications]

TaskInv ==
  /\ deliveries \in [Notifications -> DeliveryTables]
  /\ session \in [Processes -> Task]
  /\ \A p \in Processes : session[p] # Idle => session[p].key \in Delivered
  /\ used \in [crashes : Nat, lapses : Nat, retries : Nat]
  /\ confirmed \in [Keys -> Nat]

ProviderInv ==
  /\ sent \in [Keys -> Nat] /\ remembered \subseteq Keys
  /\ reports \in [Keys -> Seq([message : Nat \ {0}, kind : Reports])]
  /\ linked \in [Keys -> SUBSET Nat] /\ applied \in [Keys -> SUBSET Nat]
  /\ \A k \in Keys : applied[k] \subseteq linked[k] /\ linked[k] \subseteq DOMAIN reports[k]
  /\ \A p \in Processes : session[p].op = "hook" => session[p].report \in DOMAIN reports[session[p].key]

\* Who says that a delivery was sent knows it from the provider.
AcceptedInv ==
  /\ \A k \in Keys : (k \notin Delivered => sent[k] = 0) /\ (k \in remembered => sent[k] > 0)
  /\ \A k \in Keys : DOMAIN reports[k] # {} => sent[k] > 0
  /\ \A p \in Processes : session[p].op = "recording" /\ session[p].outcome = "ACCEPTED" =>
       sent[session[p].key] > 0 /\ session[p].message > 0
  /\ SuccessWasAccepted

\* After the failure of a message the provider reports nothing more of it.
LastInv ==
  \A k \in Keys : \A e, f \in DOMAIN reports[k] :
    reports[k][e].kind = "FAILED" /\ reports[k][f].message = reports[k][e].message => f <= e

\* The failure of a message has been applied.
FailureApplied(k, message) ==
  \E f \in applied[k] : reports[k][f].kind = "FAILED" /\ reports[k][f].message = message

\* A row that succeeded has a message, and is free, or else was claimed again
\* after the failure of that message had been applied: before, nobody takes
\* a message from its success.  A call reports on the message of its row, or
\* comes too late with the failure of an older one.
RowInv(k) ==
  /\ RowOf(k).status \in Successes => RowOf(k).message # NoMessage
  /\ RowOf(k).claim # NoClaim => RowOf(k).status \in Successes \cup {"SENDING"}
  /\ RowOf(k).message # NoMessage /\ (RowOf(k).status \notin Successes \/ RowOf(k).claim # NoClaim) =>
       FailureApplied(k, RowOf(k).message)

CallInv(k, e) ==
  /\ RowOf(k).message # NoMessage
  /\ reports[k][e].message = RowOf(k).message \/ (reports[k][e].kind = "FAILED" => e \in linked[k])

ClaimInv ==
  /\ \A k \in Delivered : RowInv(k)
  /\ \A p \in Processes : session[p].op = "hook" => CallInv(session[p].key, session[p].report)

\* While no dispatch died and no lease ended early, a delivery is SENDING
\* exactly as long as one dispatch works on it ...
HolderInv ==
  Punctual =>
    /\ \A w \in Workers : Working(w) => RowOf(session[w].key).claim = session[w].attempt
    /\ \A v, w \in Workers : Working(v) /\ Working(w) /\ session[v].key = session[w].key => v = w
    /\ \A k \in Delivered : RowOf(k).status = "SENDING" =>
         \E w \in Workers : Working(w) /\ session[w].key = k

\* ... and what the provider accepted beyond the confirmed retries and the
\* failures it reported is known, or on its way, or in doubt: nothing that may
\* be sent again was accepted.
Allowed(k) == confirmed[k] + FailuresReported(k)

CountInv ==
  Punctual =>
    /\ \A k \in Delivered : /\ sent[k] <= 1 + Allowed(k)
                            /\ RowOf(k).status \in {"QUEUED", "FAILED", "CANCELLED"} =>
                                 sent[k] <= Allowed(k)
    /\ \A w \in Workers :
         \/ session[w].op = "calling"
         \/ session[w].op = "recording" /\ session[w].outcome = "REJECTED"
         => sent[session[w].key] <= Allowed(session[w].key)

\* Nobody works on a delivery that has succeeded.
StrictInv == \A k \in Delivered : RowOf(k).claim # NoClaim => RowOf(k).status = "SENDING"

\* A webhook call that is the only one has read what was applied, and either a
\* later report is among that, or the success it has read does not change before
\* it commits.
SeenInv ==
  \A h \in Hooks : session[h].op = "hook" =>
    LET k == session[h].key IN
    /\ session[h].applied = applied[k]
    /\ k[2] \in DOMAIN session[h].seen
    /\ \/ \E f \in applied[k] : f > session[h].report
       \/ /\ RowOf(k).status \in Successes /\ RowOf(k).claim = NoClaim
          /\ session[h].seen[k[2]] = RowOf(k).status

NoFailureReports == "FAILED" \notin Reports
OneHook == \A g, h \in Hooks : g = h

RestInv ==
  /\ TaskInv /\ ProviderInv /\ AcceptedInv
  /\ LastInv /\ ClaimInv /\ HolderInv /\ CountInv
  /\ OneHook => StrictInv /\ SeenInv

MailInv == NoteInv /\ RestInv

\* The row of a delivery after a step, and what the action properties say of it.
RowAfter(k) == deliveries'[k[1]][k[2]]

RowsMove ==
  /\ \A i \in 1..MaxRecipients :
       <<Original, i>> \in Delivered' \ Delivered =>
         RowAfter(<<Original, i>>).content = version
  /\ NoFailureReports \/ OneHook => \A k \in Delivered :
       /\ RowOf(k).status \in Successes => RowAfter(k).status \notin Claimable
       /\ Punctual /\ RowOf(k).status = "CANCELLED" =>
            RowAfter(k).status = "CANCELLED" /\ sent'[k] = sent[k]
  /\ OneHook => \A k \in Delivered :
       RowOf(k).status \in Final => Rank(RowAfter(k).status) >= Rank(RowOf(k).status)
-----------------------------------------------------------------------------
(***************************************************************************)
(* Lemmas about the operators.                                             *)
(***************************************************************************)
LEMMA DerivedIsAStatus ==
  ASSUME NEW S
  PROVE  Derived(S) \in NotificationStatuses
<1> DEFINE deciding == {p \in DOMAIN Precedence : Precedence[p] \in S}
           first    == CHOOSE p \in deciding : \A q \in deciding : p <= q
<1>1. /\ DOMAIN Precedence = 1..6
      /\ \A p \in 1..6 : Precedence[p] \in DeliveryStatuses
  BY DEF Precedence, DeliveryStatuses
<1>2. deciding # {} => \E p \in deciding : \A q \in deciding : p <= q
  <2> SUFFICES ASSUME deciding # {} PROVE \E p \in deciding : \A q \in deciding : p <= q
    OBVIOUS
  <2>1. deciding \subseteq 1..6
    BY <1>1
  <2> HIDE DEF deciding
  <2>2. CASE 1 \in deciding
    BY <2>1, <2>2
  <2>3. CASE 2 \in deciding /\ 1 \notin deciding
    BY <2>1, <2>3
  <2>4. CASE 3 \in deciding /\ 1 \notin deciding /\ 2 \notin deciding
    BY <2>1, <2>4
  <2>5. CASE 4 \in deciding /\ 1 \notin deciding /\ 2 \notin deciding /\ 3 \notin deciding
    BY <2>1, <2>5
  <2>6. CASE 5 \in deciding /\ 1 \notin deciding /\ 2 \notin deciding /\ 3 \notin deciding /\ 4 \notin deciding
    BY <2>1, <2>6
  <2>7. CASE 6 \in deciding /\ 1 \notin deciding /\ 2 \notin deciding /\ 3 \notin deciding /\ 4 \notin deciding /\ 5 \notin deciding
    BY <2>1, <2>7
  <2>8. \E p \in {1, 2, 3, 4, 5, 6} : p \in deciding
    <3>1. PICK p : p \in deciding
      OBVIOUS
    <3> QED BY <2>1, <3>1
  <2> QED BY <2>2, <2>3, <2>4, <2>5, <2>6, <2>7, <2>8
<1>3. deciding # {} => first \in 1..6
  BY <1>1, <1>2
<1>4. deciding # {} => Precedence[first] \in NotificationStatuses
  BY <1>1, <1>3 DEF NotificationStatuses
<1>5. deciding = {} => Derived(S) \in NotificationStatuses
  BY DEF Derived, NotificationStatuses, DeliveryStatuses
<1>6. deciding # {} => Derived(S) = Precedence[first]
  BY DEF Derived
<1> QED BY <1>4, <1>5, <1>6

LEMMA RefreshedIsTyped ==
  ASSUME NoteInv, NEW n, NEW i, NEW seen, NEW new
  PROVE  Refreshed(n, i, seen, new) \in [Notifications -> NotificationStatuses \cup {"None"}]
<1> DEFINE d == Derived({IF j = i THEN new ELSE seen[j] : j \in DOMAIN seen})
<1>1. d \in NotificationStatuses
  BY DerivedIsAStatus
<1> HIDE DEF d
<1>2. [status EXCEPT ![n] = d] \in [Notifications -> NotificationStatuses \cup {"None"}]
  BY <1>1 DEF NoteInv
<1> QED BY <1>2 DEF Refreshed, d, NoteInv

LEMMA TableFacts ==
  ASSUME TaskInv, NEW n \in Notifications
  PROVE  \E m \in 0..MaxRecipients : deliveries[n] \in [1..m -> Row]
BY DEF TaskInv, DeliveryTables

LEMMA DeliveredRows ==
  ASSUME TaskInv, NEW k \in Delivered
  PROVE  RowOf(k) \in Row /\ k \in Keys /\ k[1] \in Notifications /\ StatusesOf(k[1]) \in Statuses
<1>1. k \in Keys /\ k[1] \in Notifications /\ k[2] \in DOMAIN deliveries[k[1]]
  BY DEF Delivered, Keys
<1>2. PICK m \in 0..MaxRecipients : deliveries[k[1]] \in [1..m -> Row]
  BY <1>1, TableFacts
<1>3. RowOf(k) \in Row
  BY <1>1, <1>2 DEF RowOf
<1>4. StatusesOf(k[1]) \in [1..m -> DeliveryStatuses]
  BY <1>2 DEF StatusesOf, Row
<1> QED BY <1>1, <1>3, <1>4 DEF Statuses

LEMMA SetRowFacts ==
  ASSUME TaskInv, NEW k \in Delivered, NEW row \in Row, SetRow(k, row)
  PROVE  /\ deliveries' \in [Notifications -> DeliveryTables]
         /\ Delivered' = Delivered
         /\ RowAfter(k) = row
         /\ \A j \in Delivered : j # k => RowAfter(j) = RowOf(j)
<1>1. k \in Keys /\ k[1] \in Notifications /\ k[2] \in DOMAIN deliveries[k[1]] /\ k = <<k[1], k[2]>>
  BY DEF Delivered, Keys
<1>2. PICK m \in 0..MaxRecipients : deliveries[k[1]] \in [1..m -> Row]
  BY <1>1, TableFacts
<1> DEFINE table == [deliveries[k[1]] EXCEPT ![k[2]] = row]
<1>3. table \in [1..m -> Row] /\ table[k[2]] = row
      /\ \A i \in 1..m : i # k[2] => table[i] = deliveries[k[1]][i]
  BY <1>1, <1>2
<1>4. DOMAIN table = DOMAIN deliveries[k[1]]
  BY <1>2
<1>5. deliveries' = [deliveries EXCEPT ![k[1]] = table]
  BY DEF SetRow
<1>6. table \in DeliveryTables
  BY <1>3 DEF DeliveryTables
<1> HIDE DEF table
<1>7. deliveries' \in [Notifications -> DeliveryTables]
  BY <1>5, <1>6 DEF TaskInv
<1>8. deliveries'[k[1]] = table /\ \A n \in Notifications : n # k[1] => deliveries'[n] = deliveries[n]
  BY <1>1, <1>5 DEF TaskInv
<1>9. \A n \in Notifications : DOMAIN deliveries'[n] = DOMAIN deliveries[n]
  BY <1>4, <1>8
<1>10. Delivered' = Delivered
  BY <1>9 DEF Delivered, Keys
<1>11. RowAfter(k) = row
  BY <1>3, <1>8 DEF RowAfter
<1>12. \A j \in Delivered : j # k => RowAfter(j) = RowOf(j)
  <2> SUFFICES ASSUME NEW j \in Delivered, j # k PROVE RowAfter(j) = RowOf(j)
    OBVIOUS
  <2>1. j[1] \in Notifications /\ j[2] \in DOMAIN deliveries[j[1]] /\ j = <<j[1], j[2]>>
    BY DEF Delivered, Keys
  <2>2. CASE j[1] = k[1]
    <3>1. j[2] # k[2] /\ j[2] \in 1..m
      BY <1>1, <1>2, <2>1, <2>2
    <3> QED BY <1>3, <1>8, <2>2, <3>1 DEF RowAfter, RowOf
  <2>3. CASE j[1] # k[1]
    BY <1>8, <2>1, <2>3 DEF RowAfter, RowOf
  <2> QED BY <2>2, <2>3
<1> QED BY <1>7, <1>10, <1>11, <1>12
-----------------------------------------------------------------------------
(***************************************************************************)
(* The columns of the notifications.                                       *)
(***************************************************************************)
LEMMA UpsertIsTyped ==
  ASSUME NoteInv, NEW content \in Versions, Upsert(content)
  PROVE  /\ status' \in [Notifications -> NotificationStatuses \cup {"None"}]
         /\ snapshot' \in [Notifications -> Versions]
         /\ reason' \in [Notifications -> Reasons]
<1>1. ReadyStatus(addresses) \in NotificationStatuses /\ "NEEDS_CORRECTION" \in NotificationStatuses
  BY DEF ReadyStatus, NotificationStatuses, DeliveryStatuses
<1>2. CASE status[Original] = "None" \/ Follows(Original)
  BY <1>1, <1>2 DEF Upsert, NoteInv, Reasons
<1>3. CASE ~(status[Original] = "None" \/ Follows(Original))
           /\ (status[Original] = "CANCELLED" \/ snapshot[Original] = content)
  BY <1>3 DEF Upsert, NoteInv
<1>4. CASE ~(status[Original] = "None" \/ Follows(Original))
           /\ ~(status[Original] = "CANCELLED" \/ snapshot[Original] = content)
  BY <1>1, <1>4 DEF Upsert, NoteInv, Reasons
<1> QED BY <1>2, <1>3, <1>4

LEMMA NoteStep ==
  ASSUME NoteInv, [Next]_vars
  PROVE  NoteInv'
<1> USE NaturalsAssumption
<1>0. /\ \A c \in Nat : ReadyStatus(c) \in NotificationStatuses
      /\ {"QUEUED", "SENDING", "CANCELLED", "NEEDS_CORRECTION"} \subseteq NotificationStatuses
  BY DEF ReadyStatus, NotificationStatuses, DeliveryStatuses
<1>1. ASSUME NEW content \in Versions, Publish(content) PROVE NoteInv'
  BY <1>1, UpsertIsTyped DEF NoteInv, Publish, Sources
<1>2. ASSUME NEW removal \in Removals, Remove(removal) PROVE NoteInv'
  <2>1. RemovalReason(removal) \in Reasons /\ source' \in Sources
    BY <1>2, RemovalsAssumption DEF Remove, RemovalReason, Reasons, Sources
  <2>2. \A n \in Notifications : AfterRemoval(status[n]) \in NotificationStatuses \cup {"None"}
    BY DEF AfterRemoval, NotificationStatuses, DeliveryStatuses
  <2> QED BY <1>2, <2>1, <2>2 DEF NoteInv, Remove, Reasons
<1>3. ASSUME Drift PROVE NoteInv'
  BY <1>3 DEF NoteInv, Drift, notes, Versions
<1>4. ASSUME NEW count \in 0..MaxRecipients, ChangeAddresses(count) PROVE NoteInv'
  BY <1>0, <1>4 DEF NoteInv, ChangeAddresses
<1>5. ASSUME Preview PROVE NoteInv'
  <2>1. version \in Versions
    BY DEF NoteInv
  <2> QED BY <1>5, <2>1, UpsertIsTyped DEF NoteInv, Preview, event
<1>6. ASSUME NEW n \in Notifications, NEW mode \in Modes, Approve(n, mode) PROVE NoteInv'
  BY <1>0, <1>6 DEF NoteInv, Approve, Approved, event, Reasons
<1>7. ASSUME NEW n \in Notifications, Cancel(n) PROVE NoteInv'
  BY <1>0, <1>7 DEF NoteInv, Cancel, event, Reasons
<1>8. ASSUME NEW n \in Notifications, NEW confirm \in BOOLEAN, Retry(n, confirm) PROVE NoteInv'
  BY <1>0, <1>8 DEF NoteInv, Retry, event
<1>9. ASSUME NEW n \in Notifications, NEW c \in Corrections, CreateCorrection(n, c) PROVE NoteInv'
  <2>1. c \in Notifications /\ ReadyStatus(addresses) \in NotificationStatuses
    BY <1>0 DEF Notifications, NoteInv
  <2>2. snapshot[n] \in Versions /\ reason[n] \in Reasons
    BY DEF NoteInv
  <2> QED BY <1>9, <2>1, <2>2 DEF NoteInv, CreateCorrection, event
<1>10. ASSUME NEW w \in Workers, NEW k \in Keys, Claim(w, k) PROVE NoteInv'
  BY <1>0, <1>10 DEF NoteInv, Claim, event
<1>11. ASSUME NEW w \in Workers, Call(w) \/ RecordFails(w) \/ Crash(w) PROVE NoteInv'
  BY <1>11 DEF NoteInv, Call, ProviderAccepts, ProviderRejects, ConnectionFails, RecordFails,
               Crash, event, notes
<1>12. ASSUME NEW w \in Workers, Record(w) PROVE NoteInv'
  <2>1. status' \in [Notifications -> NotificationStatuses \cup {"None"}]
    <3>1. status' = status
          \/ \E n, i, seen, new : status' = Refreshed(n, i, seen, new)
      BY <1>12, Zenon DEF Record
    <3>2. \A n, i, seen, new : Refreshed(n, i, seen, new)
                                 \in [Notifications -> NotificationStatuses \cup {"None"}]
      BY RefreshedIsTyped, Zenon
    <3>3. status \in [Notifications -> NotificationStatuses \cup {"None"}]
      BY DEF NoteInv
    <3>4. CASE status' = status
      BY <3>3, <3>4
    <3>5. CASE \E n, i, seen, new : status' = Refreshed(n, i, seen, new)
      BY <3>2, <3>5
    <3> QED BY <3>1, <3>4, <3>5
  <2> QED BY <1>12, <2>1 DEF NoteInv, Record, event
<1>13. ASSUME NEW k \in Keys, KeyLapses(k) \/ \E kind \in Reports : ProviderReports(k, kind)
       PROVE NoteInv'
  BY <1>13 DEF NoteInv, KeyLapses, ProviderReports, event, notes
<1>14. ASSUME NEW h \in Hooks, \E k \in Keys, e \in 1..MaxReports : BeginHook(h, k, e)
       PROVE NoteInv'
  BY <1>14 DEF NoteInv, BeginHook, event, notes
<1>15. ASSUME NEW h \in Hooks, CommitHook(h) PROVE NoteInv'
  <2>1. status' \in [Notifications -> NotificationStatuses \cup {"None"}]
    <3>1. status' = status
          \/ \E n, i, seen, new : status' = Refreshed(n, i, seen, new)
      BY <1>15, Zenon DEF CommitHook
    <3>2. \A n, i, seen, new : Refreshed(n, i, seen, new)
                                 \in [Notifications -> NotificationStatuses \cup {"None"}]
      BY RefreshedIsTyped, Zenon
    <3>3. status \in [Notifications -> NotificationStatuses \cup {"None"}]
      BY DEF NoteInv
    <3>4. CASE status' = status
      BY <3>3, <3>4
    <3>5. CASE \E n, i, seen, new : status' = Refreshed(n, i, seen, new)
      BY <3>2, <3>5
    <3> QED BY <3>1, <3>4, <3>5
  <2> QED BY <1>15, <2>1 DEF NoteInv, CommitHook, event
<1>16. ASSUME UNCHANGED vars PROVE NoteInv'
  BY <1>16 DEF NoteInv, vars, event, notes
<1> QED
  BY <1>1, <1>2, <1>3, <1>4, <1>5, <1>6, <1>7, <1>8, <1>9, <1>10, <1>11, <1>12, <1>13, <1>14,
     <1>15, <1>16 DEF Next, Business, Administration, Dispatch, Claims, Webhooks
-----------------------------------------------------------------------------
(***************************************************************************)
(* The reports, and the rows they are about.                               *)
(***************************************************************************)
\* The failures applied to a delivery, and how many e-mails it may have had
\* after a step.
FailuresOf(k)   == {e \in applied[k] : reports[k][e].kind = "FAILED"}
AllowedAfter(k) == confirmed'[k] + Cardinality({e \in applied'[k] : reports'[k][e].kind = "FAILED"})

LEMMA ReportFacts ==
  ASSUME ProviderInv, NEW k \in Keys, NEW e \in DOMAIN reports[k]
  PROVE  reports[k][e].kind \in Reports /\ reports[k][e].message \in Nat \ {0} /\ e \in Nat
<1> DEFINE Report == [message : Nat \ {0}, kind : Reports]
<1>1. reports[k] \in Seq(Report)
  BY DEF ProviderInv
<1> HIDE DEF Report
<1>2. reports[k][e] \in Report /\ e \in Nat
  BY <1>1
<1> QED BY <1>2 DEF Report

LEMMA FailuresAreFinite ==
  ASSUME ProviderInv, NEW k \in Keys
  PROVE  /\ IsFiniteSet(FailuresOf(k)) /\ FailuresOf(k) \subseteq applied[k]
         /\ Cardinality(FailuresOf(k)) \in Nat /\ FailuresReported(k) = Cardinality(FailuresOf(k))
<1>1. reports[k] \in Seq([message : Nat \ {0}, kind : Reports]) /\ applied[k] \subseteq DOMAIN reports[k]
  BY DEF ProviderInv
<1>2. DOMAIN reports[k] = 1..Len(reports[k]) /\ Len(reports[k]) \in Nat
  BY <1>1
<1>3. IsFiniteSet(1..Len(reports[k]))
  BY <1>2, FS_Interval
<1>4. FailuresOf(k) \subseteq applied[k]
  BY DEF FailuresOf
<1>5. IsFiniteSet(FailuresOf(k))
  BY <1>1, <1>2, <1>3, <1>4, FS_Subset
<1> QED BY <1>4, <1>5, FS_CardinalityType DEF FailuresReported, FailuresOf

LEMMA AllowedFacts ==
  ASSUME TaskInv, ProviderInv, NEW k \in Keys
  PROVE  sent[k] \in Nat /\ confirmed[k] \in Nat /\ Allowed(k) \in Nat /\ Allowed(k) >= confirmed[k]
<1>1. Cardinality(FailuresOf(k)) \in Nat /\ FailuresReported(k) = Cardinality(FailuresOf(k))
  BY FailuresAreFinite
<1>2. sent[k] \in Nat /\ confirmed[k] \in Nat
  BY DEF TaskInv, ProviderInv
<1> QED BY <1>1, <1>2 DEF Allowed

\* Who applies nothing and confirms nothing leaves the count as it is.
LEMMA AllowedStays ==
  ASSUME UNCHANGED <<reports, applied>>, NEW k \in Keys, confirmed'[k] \in Nat, confirmed[k] \in Nat,
         ProviderInv, confirmed'[k] >= confirmed[k]
  PROVE  /\ AllowedAfter(k) \in Nat /\ AllowedAfter(k) >= Allowed(k)
         /\ confirmed'[k] > confirmed[k] => AllowedAfter(k) > Allowed(k)
<1>1. Cardinality(FailuresOf(k)) \in Nat /\ FailuresReported(k) = Cardinality(FailuresOf(k))
  BY FailuresAreFinite
<1>2. AllowedAfter(k) = confirmed'[k] + Cardinality(FailuresOf(k))
  BY DEF AllowedAfter, FailuresOf
<1>3. Allowed(k) = confirmed[k] + Cardinality(FailuresOf(k))
  BY <1>1 DEF Allowed
<1> QED BY <1>1, <1>2, <1>3

\* The failure of a message is reported once, and last.
LEMMA FailureIsLast ==
  ASSUME LastInv, ProviderInv, NEW k \in Keys, NEW e \in DOMAIN reports[k], NEW f \in DOMAIN reports[k],
         reports[k][f].kind = "FAILED", reports[k][f].message = reports[k][e].message
  PROVE  e <= f /\ (reports[k][e].kind = "FAILED" => e = f)
<1>1. e \in Nat /\ f \in Nat
  BY ReportFacts
<1>2. e <= f /\ (reports[k][e].kind = "FAILED" => f <= e)
  BY DEF LastInv
<1> QED BY <1>1, <1>2

LEMMA FailureAppliedFacts ==
  ASSUME ProviderInv, NEW k \in Keys, NEW message, FailureApplied(k, message)
  PROVE  \E f \in applied[k] : /\ f \in DOMAIN reports[k] /\ f \in linked[k]
                               /\ reports[k][f].kind = "FAILED" /\ reports[k][f].message = message
  BY DEF FailureApplied, ProviderInv

\* Without reports of failures, what has a message has succeeded and is free.
LEMMA NothingFails ==
  ASSUME NoFailureReports, ProviderInv, NEW k \in Delivered, RowInv(k), RowOf(k).message # NoMessage
  PROVE  RowOf(k).status \in Successes /\ RowOf(k).claim = NoClaim
<1>1. k \in Keys
  BY DEF Delivered
<1>2. ~FailureApplied(k, RowOf(k).message)
  BY <1>1, FailureAppliedFacts, ReportFacts DEF NoFailureReports
<1> QED BY <1>2 DEF RowInv

LEMMA StrictNow ==
  ASSUME RestInv, NoFailureReports \/ OneHook
  PROVE  StrictInv
<1>1. CASE OneHook
  BY <1>1 DEF RestInv
<1>2. CASE NoFailureReports
  <2> SUFFICES ASSUME NEW k \in Delivered, RowOf(k).claim # NoClaim PROVE RowOf(k).status = "SENDING"
    BY DEF StrictInv
  <2>1. RowInv(k) /\ ProviderInv
    BY DEF RestInv, ClaimInv
  <2>2. RowOf(k).message = NoMessage
    BY <1>2, <2>1, NothingFails
  <2> QED BY <2>1, <2>2 DEF RowInv
<1> QED BY <1>1, <1>2

\* What a step that reports and applies nothing has to show of the rows.
RowInvAfter(k) ==
  /\ RowAfter(k).status \in Successes => RowAfter(k).message # NoMessage
  /\ RowAfter(k).claim # NoClaim => RowAfter(k).status \in Successes \cup {"SENDING"}
  /\ RowAfter(k).message # NoMessage /\ (RowAfter(k).status \notin Successes \/ RowAfter(k).claim # NoClaim) =>
       FailureApplied(k, RowAfter(k).message)

LEMMA ClaimsKept ==
  ASSUME UNCHANGED <<reports, linked, applied>>, \A k \in Delivered' : RowInvAfter(k),
         \A p \in Processes : session'[p].op = "hook" =>
           LET k == session'[p].key
               e == session'[p].report
           IN /\ RowAfter(k).message # NoMessage
              /\ \/ reports[k][e].message = RowAfter(k).message
                 \/ reports[k][e].kind = "FAILED" => e \in linked[k]
  PROVE  ClaimInv'
<1>1. \A k \in Delivered' : RowInv(k)'
  BY DEF RowInv, RowInvAfter, RowAfter, RowOf, FailureApplied
<1>2. \A p \in Processes : session'[p].op = "hook" => CallInv(session[p].key, session[p].report)'
  BY DEF CallInv, RowAfter, RowOf
<1> QED BY <1>1, <1>2 DEF ClaimInv

LEMMA SeenKept ==
  ASSUME SeenInv, applied' = applied,
         \A h \in Hooks : session'[h].op = "hook" =>
           LET k == session[h].key IN
           /\ session'[h] = session[h]
           /\ RowOf(k).status \in Successes /\ RowOf(k).claim = NoClaim => RowAfter(k) = RowOf(k)
  PROVE  SeenInv'
<1> SUFFICES ASSUME NEW h \in Hooks, session'[h].op = "hook"
    PROVE  LET k == session'[h].key IN
           /\ session'[h].applied = applied[k]
           /\ k[2] \in DOMAIN session'[h].seen
           /\ \/ \E f \in applied[k] : f > session'[h].report
              \/ /\ RowAfter(k).status \in Successes /\ RowAfter(k).claim = NoClaim
                 /\ session'[h].seen[k[2]] = RowAfter(k).status
  BY DEF SeenInv, RowAfter, RowOf
<1> DEFINE k == session[h].key
<1>1. /\ session'[h] = session[h] /\ session[h].op = "hook"
      /\ RowOf(k).status \in Successes /\ RowOf(k).claim = NoClaim => RowAfter(k) = RowOf(k)
  OBVIOUS
<1>2. /\ session[h].applied = applied[k]
      /\ k[2] \in DOMAIN session[h].seen
      /\ \/ \E f \in applied[k] : f > session[h].report
         \/ /\ RowOf(k).status \in Successes /\ RowOf(k).claim = NoClaim
            /\ session[h].seen[k[2]] = RowOf(k).status
  BY <1>1 DEF SeenInv
<1> QED BY <1>1, <1>2
-----------------------------------------------------------------------------
(***************************************************************************)
(* What the business and the administrator do to the deliveries: nothing   *)
(* is claimed or has arrived among what they change.                       *)
(***************************************************************************)
Administered ==
  /\ deliveries' \in [Notifications -> DeliveryTables] /\ Delivered \subseteq Delivered'
  /\ UNCHANGED <<session, provider, hooked>>
  /\ used' \in [crashes : Nat, lapses : Nat, retries : Nat]
  /\ used'.crashes = used.crashes /\ used'.lapses = used.lapses
  /\ confirmed' \in [Keys -> Nat] /\ \A k \in Keys : confirmed'[k] >= confirmed[k]
  /\ \A k \in Delivered :
       \/ RowAfter(k) = RowOf(k)
       \/ /\ RowOf(k).status \in {"QUEUED", "FAILED", "DELIVERY_UNCERTAIN"}
          /\ RowOf(k).status = "DELIVERY_UNCERTAIN" => confirmed'[k] > confirmed[k]
          /\ RowAfter(k).status \in {"QUEUED", "CANCELLED"}
          /\ RowAfter(k).claim = NoClaim /\ RowAfter(k).message = RowOf(k).message
  /\ \A k \in Delivered' \ Delivered :
       /\ RowAfter(k).status = "QUEUED"
       /\ RowAfter(k).claim = NoClaim /\ RowAfter(k).message = NoMessage
  /\ \A i \in 1..MaxRecipients :
       <<Original, i>> \in Delivered' \ Delivered => RowAfter(<<Original, i>>).content = version

LEMMA AdministeredStep ==
  ASSUME RestInv, Administered
  PROVE  RestInv' /\ RowsMove
<1>1. /\ session' = session /\ sent' = sent /\ remembered' = remembered /\ reports' = reports
      /\ linked' = linked /\ applied' = applied
  BY DEF Administered, provider, hooked
<1>2. TaskInv'
  <2>1. \A p \in Processes : session'[p] # Idle => session'[p].key \in Delivered'
    BY <1>1 DEF RestInv, TaskInv, Administered
  <2> QED BY <1>1, <2>1 DEF RestInv, TaskInv, Administered
<1>3. ProviderInv'
  BY <1>1 DEF RestInv, ProviderInv
<1>4. AcceptedInv'
  <2>1. \A k \in Keys : (k \notin Delivered' => sent'[k] = 0) /\ (k \in remembered' => sent'[k] > 0)
    BY <1>1 DEF RestInv, AcceptedInv, Administered
  <2>2. \A k \in Delivered' : RowAfter(k).status \in Successes => sent'[k] > 0
    <3> SUFFICES ASSUME NEW k \in Delivered', RowAfter(k).status \in Successes PROVE sent[k] > 0
      BY <1>1
    <3>1. k \in Delivered /\ RowAfter(k) = RowOf(k)
      BY DEF Administered, Successes
    <3> QED BY <3>1 DEF RestInv, AcceptedInv, SuccessWasAccepted
  <2> QED BY <1>1, <2>1, <2>2 DEF RestInv, AcceptedInv, SuccessWasAccepted, RowAfter, RowOf
<1>5. LastInv' /\ ClaimInv'
  <2>1. LastInv /\ ClaimInv
    BY DEF RestInv
  <2>2. ASSUME NEW k \in Delivered' PROVE RowInvAfter(k)
    <3>1. CASE k \in Delivered /\ RowAfter(k) = RowOf(k)
      BY <2>1, <3>1 DEF ClaimInv, RowInv, RowInvAfter
    <3>2. CASE k \in Delivered /\ RowAfter(k) # RowOf(k)
      BY <2>1, <3>2 DEF ClaimInv, RowInv, RowInvAfter, Administered, Successes
    <3>3. CASE k \notin Delivered
      BY <3>3 DEF Administered, Successes, RowInvAfter
    <3> QED BY <3>1, <3>2, <3>3
  <2>3. ASSUME NEW p \in Processes, session[p].op = "hook"
        PROVE  /\ CallInv(session[p].key, session[p].report)
               /\ RowAfter(session[p].key).message = RowOf(session[p].key).message
    <3>1. session[p].key \in Delivered
      BY <2>3 DEF RestInv, TaskInv, Idle
    <3> QED BY <2>1, <2>3, <3>1 DEF ClaimInv, Administered
  <2>4. ClaimInv'
    BY <1>1, <2>2, <2>3, ClaimsKept DEF CallInv
  <2> QED BY <1>1, <2>1, <2>4 DEF LastInv
<1>6. HolderInv'
  <2> SUFFICES ASSUME Punctual'
      PROVE  /\ \A w \in Workers : Working(w) => RowAfter(session[w].key).claim = session[w].attempt
             /\ \A v, w \in Workers : Working(v) /\ Working(w) /\ session[v].key = session[w].key => v = w
             /\ \A k \in Delivered' : RowAfter(k).status = "SENDING" =>
                  \E w \in Workers : Working(w) /\ session[w].key = k
    BY <1>1 DEF HolderInv, RowAfter, RowOf, Working
  <2>1. Punctual /\ HolderInv /\ ClaimInv
    BY DEF Punctual, Administered, RestInv
  <2>2. \A w \in Workers : Working(w) => RowAfter(session[w].key).claim = session[w].attempt
    <3> SUFFICES ASSUME NEW w \in Workers, Working(w)
                 PROVE  RowAfter(session[w].key).claim = session[w].attempt
      OBVIOUS
    <3>1. session[w].key \in Delivered /\ session[w].attempt # NoClaim
      BY DEF RestInv, TaskInv, Idle, Working, Processes, Task, NoClaim
    <3>2. RowOf(session[w].key).status \in Successes \cup {"SENDING"}
          /\ RowOf(session[w].key).claim = session[w].attempt
      BY <2>1, <3>1 DEF HolderInv, ClaimInv, RowInv
    <3> QED BY <3>1, <3>2 DEF Administered, Successes
  <2>3. \A k \in Delivered' : RowAfter(k).status = "SENDING" => k \in Delivered /\ RowOf(k) = RowAfter(k)
    BY DEF Administered
  <2> QED BY <2>1, <2>2, <2>3 DEF HolderInv
<1>7. CountInv'
  <2> SUFFICES ASSUME Punctual'
      PROVE  /\ \A k \in Delivered' :
                  /\ sent[k] <= 1 + AllowedAfter(k)
                  /\ RowAfter(k).status \in {"QUEUED", "FAILED", "CANCELLED"} => sent[k] <= AllowedAfter(k)
             /\ \A w \in Workers :
                  \/ session[w].op = "calling"
                  \/ session[w].op = "recording" /\ session[w].outcome = "REJECTED"
                  => sent[session[w].key] <= AllowedAfter(session[w].key)
    BY <1>1 DEF CountInv, RowAfter, RowOf, Allowed, AllowedAfter, FailuresReported
  <2>1. Punctual /\ CountInv
    BY DEF Punctual, Administered, RestInv
  <2>0. ASSUME NEW k \in Keys
        PROVE  /\ sent[k] \in Nat /\ Allowed(k) \in Nat /\ AllowedAfter(k) \in Nat
               /\ AllowedAfter(k) >= Allowed(k)
               /\ confirmed'[k] > confirmed[k] => AllowedAfter(k) > Allowed(k)
    <3>1. confirmed'[k] \in Nat /\ confirmed[k] \in Nat /\ confirmed'[k] >= confirmed[k]
      BY DEF Administered, RestInv, TaskInv
    <3> QED BY <1>1, <3>1, AllowedFacts, AllowedStays DEF RestInv
  <2>2. ASSUME NEW k \in Delivered'
        PROVE  /\ sent[k] <= 1 + AllowedAfter(k)
               /\ RowAfter(k).status \in {"QUEUED", "FAILED", "CANCELLED"} => sent[k] <= AllowedAfter(k)
    <3>1. k \in Keys
      BY DEF Delivered
    <3>2. CASE k \in Delivered
      BY <2>0, <2>1, <3>1, <3>2 DEF CountInv, Administered
    <3>3. CASE k \notin Delivered
      BY <2>0, <3>1, <3>3 DEF RestInv, AcceptedInv
    <3> QED BY <3>2, <3>3
  <2>3. ASSUME NEW w \in Workers,
               \/ session[w].op = "calling"
               \/ session[w].op = "recording" /\ session[w].outcome = "REJECTED"
        PROVE  sent[session[w].key] <= AllowedAfter(session[w].key)
    <3>1. session[w].key \in Keys
      BY <2>3 DEF RestInv, TaskInv, Idle, Processes, Delivered
    <3>2. sent[session[w].key] <= Allowed(session[w].key)
      BY <2>1, <2>3 DEF CountInv
    <3> QED BY <2>0, <3>1, <3>2
  <2> QED BY <2>2, <2>3
<1>8. ASSUME OneHook PROVE StrictInv' /\ SeenInv'
  <2>1. StrictInv /\ SeenInv
    BY <1>8 DEF RestInv
  <2>2. \A k \in Delivered' : RowAfter(k).claim # NoClaim => RowAfter(k).status = "SENDING"
    BY <2>1 DEF StrictInv, Administered
  <2>3. \A h \in Hooks : session[h].op = "hook" =>
          session[h].key \in Delivered
          /\ (RowOf(session[h].key).status \in Successes => RowAfter(session[h].key) = RowOf(session[h].key))
    <3> SUFFICES ASSUME NEW h \in Hooks, session[h].op = "hook", RowOf(session[h].key).status \in Successes
                 PROVE  RowAfter(session[h].key) = RowOf(session[h].key)
      BY DEF RestInv, TaskInv, Idle, Processes
    <3>1. session[h].key \in Delivered
      BY DEF RestInv, TaskInv, Idle, Processes
    <3> QED BY <3>1 DEF Administered, Successes
  <2> QED BY <1>1, <2>1, <2>2, <2>3 DEF StrictInv, SeenInv, RowAfter, RowOf
<1>9. RowsMove
  <2>1. ASSUME NEW k \in Delivered, RowOf(k).status \in Successes PROVE RowAfter(k).status = RowOf(k).status
    BY <2>1 DEF Administered, Successes
  <2>2. ASSUME NEW k \in Delivered, RowOf(k).status = "CANCELLED" PROVE RowAfter(k).status = RowOf(k).status
    BY <2>2 DEF Administered
  <2>3. \A x \in Successes : x \notin Claimable
    BY DEF Successes, Claimable
  <2>4. \A x \in Final : Rank(x) >= Rank(x) /\ x \in Successes
    BY DEF Final, Rank, Successes
  <2> QED BY <1>1, <2>1, <2>2, <2>3, <2>4 DEF RowsMove, Administered
<1> QED BY <1>2, <1>3, <1>4, <1>5, <1>6, <1>7, <1>8, <1>9 DEF RestInv, OneHook

LEMMA QuietIsAdministered ==
  ASSUME RestInv, UNCHANGED <<deliveries, session, provider, hooked, confirmed, used>>
  PROVE  Administered
<1>1. Delivered' = Delivered /\ \A k \in Delivered : RowAfter(k) = RowOf(k)
  BY DEF Delivered, RowAfter, RowOf
<1>2. \A k \in Keys : confirmed'[k] >= confirmed[k]
  BY DEF RestInv, TaskInv
<1> QED BY <1>1, <1>2 DEF Administered, RestInv, TaskInv

LEMMA ApproveIsAdministered ==
  ASSUME NoteInv, RestInv, NEW n \in Notifications, NEW mode \in Modes, Approve(n, mode)
  PROVE  Administered
<1> DEFINE row   == QueuedRow(Approved(n))
           table == [i \in 1..Copies(mode) |-> row]
<1>1. row \in Row /\ row.status = "QUEUED" /\ row.claim = NoClaim /\ row.message = NoMessage
      /\ row.content = Approved(n)
  BY DEF QueuedRow, Row, DeliveryStatuses, NoClaim, NoMessage, Approved, NoteInv
<1>2. Copies(mode) \in 0..MaxRecipients
  BY NaturalsAssumption DEF Copies, Approve, NoteInv
<1> HIDE DEF row
<1>3. table \in DeliveryTables /\ DOMAIN table = 1..Copies(mode) /\ \A i \in DOMAIN table : table[i] = row
  BY <1>1, <1>2 DEF DeliveryTables
<1>4. deliveries' = [deliveries EXCEPT ![n] = table] /\ deliveries[n] = << >>
  BY DEF Approve, row
<1> HIDE DEF table
<1>5. /\ deliveries' \in [Notifications -> DeliveryTables]
      /\ deliveries'[n] = table
      /\ \A x \in Notifications : x # n => deliveries'[x] = deliveries[x]
  BY <1>3, <1>4 DEF RestInv, TaskInv
<1>6. \A k \in Delivered : k[1] \in Notifications /\ k[1] # n
  BY <1>4 DEF Delivered, Keys
<1>7. \A k \in Delivered : k \in Delivered' /\ RowAfter(k) = RowOf(k)
  BY <1>5, <1>6 DEF Delivered, RowAfter, RowOf
<1>8. \A k \in Delivered' \ Delivered : k[1] = n /\ RowAfter(k) = row
  <2> SUFFICES ASSUME NEW k \in Delivered' \ Delivered PROVE k[1] = n /\ RowAfter(k) = row
    OBVIOUS
  <2>1. k \in Keys /\ k[1] \in Notifications /\ k[2] \in DOMAIN deliveries'[k[1]]
    BY DEF Delivered, Keys
  <2>2. k[1] = n
    BY <1>5, <2>1 DEF Delivered
  <2> QED BY <1>3, <1>5, <2>1, <2>2 DEF RowAfter
<1>9. \A i \in 1..MaxRecipients :
        <<Original, i>> \in Delivered' \ Delivered => RowAfter(<<Original, i>>).content = version
  BY <1>1, <1>8 DEF Approved
<1>10. \A k \in Keys : confirmed[k] \in Nat /\ confirmed'[k] >= confirmed[k]
  BY DEF Approve, RestInv, TaskInv
<1> QED BY <1>1, <1>5, <1>7, <1>8, <1>9, <1>10 DEF Administered, Approve, RestInv, TaskInv

LEMMA CancelIsAdministered ==
  ASSUME RestInv, NEW n \in Notifications, Cancel(n)
  PROVE  Administered
<1> DEFINE table == [i \in DOMAIN deliveries[n] |->
                       [deliveries[n][i] EXCEPT !.status = "CANCELLED", !.claim = NoClaim]]
<1>1. PICK m \in 0..MaxRecipients : deliveries[n] \in [1..m -> Row]
  BY TableFacts DEF RestInv
<1>2. table \in [1..m -> Row] /\ DOMAIN table = DOMAIN deliveries[n]
      /\ \A i \in DOMAIN deliveries[n] : /\ table[i].status = "CANCELLED" /\ table[i].claim = NoClaim
                                         /\ table[i].message = deliveries[n][i].message
  BY <1>1 DEF Row, DeliveryStatuses, NoClaim
<1>3. table \in DeliveryTables
  BY <1>2 DEF DeliveryTables
<1>4. deliveries' = [deliveries EXCEPT ![n] = table]
  BY DEF Cancel, RestInv, TaskInv
<1> HIDE DEF table
<1>5. /\ deliveries' \in [Notifications -> DeliveryTables]
      /\ deliveries'[n] = table
      /\ \A x \in Notifications : x # n => deliveries'[x] = deliveries[x]
  BY <1>3, <1>4 DEF RestInv, TaskInv
<1>6. Delivered' = Delivered
  <2>1. \A x \in Notifications : DOMAIN deliveries'[x] = DOMAIN deliveries[x]
    BY <1>2, <1>5
  <2> QED BY <2>1 DEF Delivered, Keys
<1>7. ASSUME NEW k \in Delivered
      PROVE  \/ RowAfter(k) = RowOf(k)
             \/ /\ RowOf(k).status \in {"QUEUED", "FAILED"}
                /\ RowAfter(k).status = "CANCELLED" /\ RowAfter(k).claim = NoClaim
                /\ RowAfter(k).message = RowOf(k).message
  <2>1. k[1] \in Notifications /\ k[2] \in DOMAIN deliveries[k[1]]
    BY DEF Delivered, Keys
  <2>2. CASE k[1] # n
    BY <1>5, <2>1, <2>2 DEF RowAfter, RowOf
  <2>3. CASE k[1] = n
    <3>1. RowOf(k).status \in {"QUEUED", "FAILED"}
      BY <2>1, <2>3, Zenon DEF RowOf, Cancel, NothingStarted
    <3> QED BY <1>2, <1>5, <2>1, <2>3, <3>1 DEF RowAfter, RowOf
  <2> QED BY <2>2, <2>3
<1>8. confirmed' = confirmed
  BY DEF Cancel
<1>9. \A k \in Keys : confirmed[k] \in Nat /\ confirmed'[k] >= confirmed[k]
  BY <1>8 DEF RestInv, TaskInv
<1> QED BY <1>5, <1>6, <1>7, <1>9 DEF Administered, Cancel, RestInv, TaskInv

LEMMA RetryIsAdministered ==
  ASSUME RestInv, NEW n \in Notifications, NEW confirm \in BOOLEAN, Retry(n, confirm)
  PROVE  Administered
<1> DEFINE targets == RetryTargets(n, confirm)
           risky   == {k \in Delivered : k[1] = n /\ k[2] \in targets
                                         /\ RowOf(k).status = "DELIVERY_UNCERTAIN"}
           table   == [i \in DOMAIN deliveries[n] |->
                         IF i \in targets
                           THEN [deliveries[n][i] EXCEPT !.status = "QUEUED", !.claim = NoClaim]
                           ELSE deliveries[n][i]]
<1>1. PICK m \in 0..MaxRecipients : deliveries[n] \in [1..m -> Row]
  BY TableFacts DEF RestInv
<1>2. table \in [1..m -> Row] /\ DOMAIN table = DOMAIN deliveries[n]
      /\ \A i \in DOMAIN deliveries[n] :
           IF i \in targets
             THEN /\ table[i].status = "QUEUED" /\ table[i].claim = NoClaim
                  /\ table[i].message = deliveries[n][i].message
             ELSE table[i] = deliveries[n][i]
  BY <1>1 DEF Row, DeliveryStatuses, NoClaim
<1>3. table \in DeliveryTables
  BY <1>2 DEF DeliveryTables
<1>4. deliveries' = [deliveries EXCEPT ![n] = table]
  BY DEF Retry, RestInv, TaskInv
<1>5. confirmed' = [k \in Keys |-> IF confirm /\ k \in risky THEN confirmed[k] + 1 ELSE confirmed[k]]
  BY DEF Retry
<1>6. \A i \in targets : \/ deliveries[n][i].status = "FAILED"
                         \/ confirm /\ deliveries[n][i].status = "DELIVERY_UNCERTAIN"
  BY DEF RetryTargets
<1> HIDE DEF table, targets
<1>7. /\ deliveries' \in [Notifications -> DeliveryTables]
      /\ deliveries'[n] = table
      /\ \A x \in Notifications : x # n => deliveries'[x] = deliveries[x]
  BY <1>3, <1>4 DEF RestInv, TaskInv
<1>8. Delivered' = Delivered
  <2>1. \A x \in Notifications : DOMAIN deliveries'[x] = DOMAIN deliveries[x]
    BY <1>2, <1>7
  <2> QED BY <2>1 DEF Delivered, Keys
<1>9. confirmed' \in [Keys -> Nat]
      /\ \A k \in Keys : confirmed[k] \in Nat /\ confirmed'[k] >= confirmed[k]
                         /\ (confirm /\ k \in risky => confirmed'[k] > confirmed[k])
  BY <1>5 DEF RestInv, TaskInv
<1>10. ASSUME NEW k \in Delivered
      PROVE  \/ RowAfter(k) = RowOf(k)
             \/ /\ RowOf(k).status \in {"FAILED", "DELIVERY_UNCERTAIN"}
                /\ RowOf(k).status = "DELIVERY_UNCERTAIN" => confirmed'[k] > confirmed[k]
                /\ RowAfter(k).status = "QUEUED" /\ RowAfter(k).claim = NoClaim
                /\ RowAfter(k).message = RowOf(k).message
  <2>1. k \in Keys /\ k[1] \in Notifications /\ k[2] \in DOMAIN deliveries[k[1]]
    BY DEF Delivered, Keys
  <2>2. CASE k[1] # n
    BY <1>7, <2>1, <2>2 DEF RowAfter, RowOf
  <2>3. CASE k[1] = n /\ k[2] \notin targets
    BY <1>2, <1>7, <2>1, <2>3 DEF RowAfter, RowOf
  <2>4. CASE k[1] = n /\ k[2] \in targets
    <3>0. RowOf(k) = deliveries[n][k[2]]
      BY <2>4 DEF RowOf
    <3>1. RowOf(k).status = "FAILED" \/ (confirm /\ RowOf(k).status = "DELIVERY_UNCERTAIN")
      BY <1>6, <2>4, <3>0, Zenon
    <3>2. RowOf(k).status = "DELIVERY_UNCERTAIN" => confirmed'[k] > confirmed[k]
      BY <1>9, <2>1, <2>4, <3>1
    <3> QED BY <1>2, <1>7, <2>1, <2>4, <3>1, <3>2 DEF RowAfter, RowOf
  <2> QED BY <2>2, <2>3, <2>4
<1>11. used' \in [crashes : Nat, lapses : Nat, retries : Nat]
       /\ used'.crashes = used.crashes /\ used'.lapses = used.lapses
  <2>1. used' = [used EXCEPT !.retries = @ + 1]
    BY DEF Retry, Use
  <2> QED BY <2>1 DEF RestInv, TaskInv
<1> QED BY <1>7, <1>8, <1>9, <1>10, <1>11 DEF Administered, Retry
-----------------------------------------------------------------------------
(***************************************************************************)
(* The dispatch.                                                           *)
(***************************************************************************)
LEMMA WorkFacts ==
  ASSUME TaskInv, NEW p \in Processes, NEW task \in Task, Work(p, task)
  PROVE  /\ session' \in [Processes -> Task] /\ session'[p] = task
         /\ \A q \in Processes : q # p => session'[q] = session[q]
BY DEF TaskInv, Work

LEMMA TaskFacts ==
  ASSUME TaskInv, NEW p \in Processes, session[p].op # "idle"
  PROVE  /\ session[p] \in Task /\ session[p].key \in Delivered /\ session[p].key \in Keys
         /\ session[p].key[1] \in Notifications
         /\ Working(p) => session[p].attempt \in Nat \ {0}
         /\ session[p].op = "recording" => /\ session[p].outcome \in {"ACCEPTED", "REJECTED", "UNCERTAIN"}
                                           /\ session[p].message \in Nat
         /\ session[p].op = "hook" => session[p].report \in Nat
<1>1. session[p] \in Task /\ session[p] # Idle
  BY DEF TaskInv, Idle
<1>2. session[p].key \in Delivered
  BY <1>1 DEF TaskInv
<1>3. session[p].key \in Keys /\ session[p].key[1] \in Notifications
  BY <1>2 DEF Delivered, Keys
<1> QED BY <1>1, <1>2, <1>3 DEF Task, Working

LEMMA ClaimStep ==
  ASSUME RestInv, NEW w \in Workers, NEW k \in Keys, Claim(w, k)
  PROVE  RestInv' /\ RowsMove
<1> DEFINE attempt == RowOf(k).attempts + 1
           row     == [RowOf(k) EXCEPT !.status = "SENDING", !.claim = attempt, !.attempts = attempt]
           task    == [op |-> "calling", key |-> k, attempt |-> attempt]
<1>1. k \in Delivered /\ RowOf(k) \in Row /\ attempt \in Nat \ {0}
  BY DeliveredRows DEF Claim, RestInv, Row
<1>2. row \in Row /\ row.status = "SENDING" /\ row.claim = attempt /\ row.message = RowOf(k).message
      /\ row.content = RowOf(k).content
  BY <1>1 DEF Row, DeliveryStatuses
<1>3. task \in Task /\ task.op = "calling" /\ task.key = k /\ task.attempt = attempt /\ task # Idle
  BY <1>1 DEF Task, Idle
<1>4. SetRow(k, row) /\ Work(w, task) /\ session[w] = Idle /\ Available(k)
      /\ (IF RowOf(k).status = "SENDING" /\ Holders(k) # {} THEN Use("lapses") ELSE UNCHANGED used)
      /\ UNCHANGED <<sent, remembered, reports, linked, applied, confirmed>>
  BY DEF Claim, provider, hooked
<1> HIDE DEF attempt, row, task
<1>5. /\ deliveries' \in [Notifications -> DeliveryTables] /\ Delivered' = Delivered /\ RowAfter(k) = row
      /\ \A j \in Delivered : j # k => RowAfter(j) = RowOf(j)
  BY <1>1, <1>2, <1>4, SetRowFacts DEF RestInv
<1>6. /\ session' \in [Processes -> Task] /\ session'[w] = task
      /\ \A q \in Processes : q # w => session'[q] = session[q]
  BY <1>3, <1>4, WorkFacts DEF RestInv, Processes
<1>7. RowOf(k).status \in {"QUEUED", "SENDING"}
  BY <1>4 DEF Available
<1>8. \A p \in Processes : session'[p].op = "hook" => session'[p] = session[p] /\ p # w
  BY <1>3, <1>6
<1>9. \A p \in Processes : session'[p].op = "recording" => session'[p] = session[p] /\ p # w
  BY <1>3, <1>6
<1>10. used' \in [crashes : Nat, lapses : Nat, retries : Nat]
       /\ (Punctual' => Punctual /\ (RowOf(k).status = "QUEUED" \/ Holders(k) = {}))
  <2>1. CASE RowOf(k).status = "SENDING" /\ Holders(k) # {}
    <3>1. used' = [used EXCEPT !.lapses = @ + 1]
      BY <1>4, <2>1 DEF Use
    <3> QED BY <3>1 DEF RestInv, TaskInv, Punctual
  <2>2. CASE ~(RowOf(k).status = "SENDING" /\ Holders(k) # {})
    BY <1>4, <1>7, <2>2 DEF RestInv, TaskInv, Punctual
  <2> QED BY <2>1, <2>2
<1>11. TaskInv'
  <2>1. \A p \in Processes : session'[p] # Idle => session'[p].key \in Delivered'
    BY <1>1, <1>3, <1>5, <1>6 DEF RestInv, TaskInv
  <2> QED BY <1>4, <1>5, <1>6, <1>10, <2>1 DEF RestInv, TaskInv
<1>12. ProviderInv'
  BY <1>4, <1>8 DEF RestInv, ProviderInv
<1>13. AcceptedInv'
  <2>1. \A j \in Delivered : RowAfter(j).status \in Successes => sent[j] > 0
    BY <1>2, <1>5 DEF RestInv, AcceptedInv, SuccessWasAccepted, Successes
  <2> QED BY <1>4, <1>5, <1>9, <2>1 DEF RestInv, AcceptedInv, SuccessWasAccepted, RowAfter, RowOf
<1>14. LastInv' /\ ClaimInv'
  <2>1. LastInv /\ ClaimInv
    BY DEF RestInv
  <2>2. ASSUME NEW j \in Delivered PROVE RowInvAfter(j)
    <3>1. RowInv(j)
      BY <2>1 DEF ClaimInv
    <3>2. CASE j = k
      BY <1>2, <1>5, <1>7, <3>1, <3>2 DEF RowInv, RowInvAfter, Successes
    <3>3. CASE j # k
      BY <1>5, <3>1, <3>3 DEF RowInv, RowInvAfter
    <3> QED BY <3>2, <3>3
  <2>3. ASSUME NEW p \in Processes, session'[p].op = "hook"
        PROVE  /\ session'[p] = session[p] /\ CallInv(session[p].key, session[p].report)
               /\ RowAfter(session[p].key).message = RowOf(session[p].key).message
    <3>1. session'[p] = session[p] /\ session[p].key \in Delivered
      BY <1>8, <2>3, TaskFacts DEF RestInv
    <3> QED BY <1>2, <1>5, <2>1, <2>3, <3>1 DEF ClaimInv
  <2>4. ClaimInv'
    BY <1>4, <1>5, <2>2, <2>3, ClaimsKept DEF CallInv
  <2> QED BY <1>4, <2>1, <2>4 DEF LastInv
<1>15. ASSUME Punctual'
       PROVE  /\ Punctual /\ HolderInv /\ CountInv /\ ClaimInv /\ RowOf(k).status = "QUEUED"
              /\ \A v \in Workers : Working(v) => session[v].key # k
  <2>1. Punctual /\ HolderInv /\ CountInv /\ ClaimInv
    BY <1>10, <1>15 DEF RestInv
  <2>2. RowOf(k).status = "QUEUED"
    <3> SUFFICES ASSUME RowOf(k).status = "SENDING", Holders(k) = {} PROVE FALSE
      BY <1>7, <1>10, <1>15
    <3>1. PICK v \in Workers : Working(v) /\ session[v].key = k
      BY <1>1, <2>1 DEF HolderInv
    <3>2. v \in Holders(k)
      BY <2>1, <3>1 DEF HolderInv, Holders, Working
    <3> QED BY <3>2
  <2>3. RowOf(k).claim = NoClaim
    BY <1>1, <2>1, <2>2 DEF ClaimInv, RowInv, Successes
  <2>4. ASSUME NEW v \in Workers, Working(v), session[v].key = k PROVE FALSE
    <3>1. session[v].attempt # 0
      BY <2>4, TaskFacts DEF RestInv, Working, Processes
    <3> QED BY <2>1, <2>3, <2>4, <3>1 DEF HolderInv, NoClaim
  <2> QED BY <2>1, <2>2, <2>4
<1>16. HolderInv'
  <2> DEFINE WorkingAfter(v) == session'[v].op \in {"calling", "recording"}
  <2> SUFFICES ASSUME Punctual'
      PROVE  /\ \A v \in Workers : WorkingAfter(v) => RowAfter(session'[v].key).claim = session'[v].attempt
             /\ \A u, v \in Workers :
                  WorkingAfter(u) /\ WorkingAfter(v) /\ session'[u].key = session'[v].key => u = v
             /\ \A j \in Delivered' : RowAfter(j).status = "SENDING" =>
                  \E v \in Workers : WorkingAfter(v) /\ session'[v].key = j
    BY DEF HolderInv, RowAfter, RowOf, Working
  <2>1. HolderInv /\ \A v \in Workers : Working(v) => session[v].key # k
    BY <1>15
  <2>2. \A v \in Workers : v # w /\ WorkingAfter(v) => /\ session'[v] = session[v] /\ Working(v)
                                                       /\ session[v].key \in Delivered
    BY <1>6, TaskFacts DEF RestInv, Working, Processes
  <2>3. ASSUME NEW v \in Workers, WorkingAfter(v)
        PROVE  RowAfter(session'[v].key).claim = session'[v].attempt
    BY <1>2, <1>3, <1>5, <1>6, <1>15, <2>1, <2>2, <2>3 DEF HolderInv
  <2>4. ASSUME NEW u \in Workers, NEW v \in Workers, WorkingAfter(u), WorkingAfter(v),
               session'[u].key = session'[v].key
        PROVE  u = v
    BY <1>3, <1>6, <1>15, <2>1, <2>2, <2>4 DEF HolderInv
  <2>5. ASSUME NEW j \in Delivered, RowAfter(j).status = "SENDING"
        PROVE  \E v \in Workers : WorkingAfter(v) /\ session'[v].key = j
    <3>1. CASE j = k
      BY <1>3, <1>6, <3>1
    <3>2. CASE j # k
      <4>1. PICK v \in Workers : Working(v) /\ session[v].key = j
        BY <1>5, <1>15, <2>1, <2>5, <3>2 DEF HolderInv
      <4>2. v # w
        BY <1>4, <4>1 DEF Working, Idle
      <4> QED BY <1>6, <4>1, <4>2 DEF Working, Processes
    <3> QED BY <3>1, <3>2
  <2> QED BY <1>5, <2>3, <2>4, <2>5
<1>17. CountInv'
  <2> SUFFICES ASSUME Punctual'
      PROVE  /\ \A j \in Delivered' :
                  /\ sent[j] <= 1 + Allowed(j)
                  /\ RowAfter(j).status \in {"QUEUED", "FAILED", "CANCELLED"} => sent[j] <= Allowed(j)
             /\ \A v \in Workers :
                  \/ session'[v].op = "calling"
                  \/ session'[v].op = "recording" /\ session'[v].outcome = "REJECTED"
                  => sent[session'[v].key] <= Allowed(session'[v].key)
    BY <1>4 DEF CountInv, RowAfter, RowOf, Allowed, FailuresReported
  <2>1. Punctual /\ CountInv /\ sent[k] <= Allowed(k)
    BY <1>1, <1>15 DEF CountInv
  <2>2. \A j \in Delivered' :
          /\ sent[j] <= 1 + Allowed(j)
          /\ RowAfter(j).status \in {"QUEUED", "FAILED", "CANCELLED"} => sent[j] <= Allowed(j)
    BY <1>2, <1>5, <2>1 DEF CountInv
  <2>3. ASSUME NEW v \in Workers,
               \/ session'[v].op = "calling"
               \/ session'[v].op = "recording" /\ session'[v].outcome = "REJECTED"
        PROVE  sent[session'[v].key] <= Allowed(session'[v].key)
    <3>1. CASE v = w
      BY <1>3, <1>6, <2>1, <3>1
    <3>2. CASE v # w
      BY <1>6, <2>1, <2>3, <3>2 DEF CountInv, Processes
    <3> QED BY <3>1, <3>2
  <2> QED BY <2>2, <2>3
<1>18. ASSUME OneHook PROVE StrictInv' /\ SeenInv'
  <2>1. StrictInv /\ SeenInv
    BY <1>18 DEF RestInv
  <2>2. \A j \in Delivered : RowAfter(j).claim # NoClaim => RowAfter(j).status = "SENDING"
    BY <1>2, <1>5, <2>1 DEF StrictInv
  <2>3. ASSUME NEW h \in Hooks, session'[h].op = "hook"
        PROVE  /\ session'[h] = session[h]
               /\ RowOf(session[h].key).status \in Successes => RowAfter(session[h].key) = RowOf(session[h].key)
    <3>1. session'[h] = session[h] /\ session[h].key \in Delivered /\ h \in Processes
      BY <1>8, <2>3, TaskFacts DEF RestInv, Processes
    <3> QED BY <1>5, <1>7, <3>1 DEF Successes
  <2>4. SeenInv'
    BY <1>4, <2>1, <2>3, SeenKept
  <2> QED BY <1>5, <2>2, <2>4 DEF StrictInv, RowAfter, RowOf
<1>19. RowsMove
  <2>1. \A j \in Delivered : RowOf(j).status \in Successes \cup {"CANCELLED"} => RowAfter(j) = RowOf(j)
    BY <1>5, <1>7 DEF Successes
  <2>2. \A x \in Final : Rank(x) >= Rank(x) /\ x \in Successes
    BY DEF Final, Rank, Successes
  <2>3. \A x \in Successes : x \notin Claimable
    BY DEF Successes, Claimable
  <2> QED BY <1>4, <1>5, <2>1, <2>2, <2>3 DEF RowsMove
<1> QED BY <1>11, <1>12, <1>13, <1>14, <1>16, <1>17, <1>18, <1>19 DEF RestInv, OneHook

\* An answer of the provider, or none, with what the provider did.
AnswerComes(w, outcome, message) ==
  LET k == session[w].key IN
  /\ \/ session[w].op = "calling"
     \/ session[w].op = "recording" /\ session[w].outcome = "ACCEPTED" /\ outcome = "UNCERTAIN"
  /\ outcome \in {"ACCEPTED", "REJECTED", "UNCERTAIN"} /\ message \in Nat
  /\ Answered(w, outcome, message)
  /\ sent' \in [Keys -> Nat] /\ remembered' \subseteq Keys
  /\ \A j \in Keys : \/ sent'[j] = sent[j]
                     \/ j = k /\ sent'[j] = sent[j] + 1 /\ session[w].op = "calling"
                          /\ outcome # "REJECTED"
  /\ outcome = "ACCEPTED" => sent'[k] > 0 /\ message > 0
  /\ \A j \in remembered' : sent'[j] > 0
  /\ UNCHANGED <<deliveries, reports, hooked, confirmed, used>>

LEMMA AcceptsFacts ==
  ASSUME RestInv, NEW k \in Keys, Accepts(k)
  PROVE  /\ sent' \in [Keys -> Nat] /\ remembered' \subseteq Keys /\ sent'[k] > 0 /\ reports' = reports
         /\ \A j \in Keys : sent'[j] = sent[j] \/ (j = k /\ sent'[j] = sent[j] + 1)
         /\ \A j \in remembered' : sent'[j] > 0
<1>1. sent \in [Keys -> Nat] /\ remembered \subseteq Keys /\ \A j \in remembered : sent[j] > 0
  BY DEF RestInv, ProviderInv, AcceptedInv
<1>2. CASE k \in remembered
  BY <1>1, <1>2 DEF Accepts
<1>3. CASE k \notin remembered
  BY <1>1, <1>3 DEF Accepts
<1> QED BY <1>2, <1>3

LEMMA CallIsAnswered ==
  ASSUME RestInv, NEW w \in Workers, Call(w) \/ RecordFails(w)
  PROVE  \E outcome, message : AnswerComes(w, outcome, message)
<1> DEFINE k == session[w].key
<1>1. k \in Keys
  BY TaskFacts DEF RestInv, Processes, Call, ProviderAccepts, ProviderRejects, ConnectionFails, RecordFails
<1>2. sent \in [Keys -> Nat] /\ remembered \subseteq Keys /\ \A j \in remembered : sent[j] > 0
  BY DEF RestInv, ProviderInv, AcceptedInv
<1>3. ASSUME ProviderAccepts(w) PROVE AnswerComes(w, "ACCEPTED", sent'[k])
  <2>1. /\ sent' \in [Keys -> Nat] /\ remembered' \subseteq Keys /\ sent'[k] > 0 /\ reports' = reports
        /\ \A j \in Keys : sent'[j] = sent[j] \/ (j = k /\ sent'[j] = sent[j] + 1)
        /\ \A j \in remembered' : sent'[j] > 0
    BY <1>1, <1>3, AcceptsFacts DEF ProviderAccepts
  <2> QED BY <1>1, <1>3, <2>1 DEF ProviderAccepts, AnswerComes
<1>4. ASSUME NEW arrived \in BOOLEAN, ConnectionFails(w, arrived)
      PROVE  AnswerComes(w, "UNCERTAIN", NoMessage)
  <2>1. /\ sent' \in [Keys -> Nat] /\ remembered' \subseteq Keys /\ reports' = reports
        /\ \A j \in Keys : sent'[j] = sent[j] \/ (j = k /\ sent'[j] = sent[j] + 1)
        /\ \A j \in remembered' : sent'[j] > 0
    <3>1. CASE Accepts(k)
      BY <1>1, <3>1, AcceptsFacts
    <3>2. CASE UNCHANGED provider
      BY <1>2, <3>2 DEF provider
    <3> QED BY <1>4, <3>1, <3>2, Zenon DEF ConnectionFails
  <2> QED BY <1>4, <2>1 DEF ConnectionFails, AnswerComes, NoMessage
<1>5. ASSUME ProviderRejects(w) PROVE AnswerComes(w, "REJECTED", NoMessage)
  BY <1>2, <1>5 DEF ProviderRejects, AnswerComes, provider, NoMessage
<1>6. ASSUME RecordFails(w) PROVE AnswerComes(w, "UNCERTAIN", NoMessage)
  BY <1>2, <1>6 DEF RecordFails, AnswerComes, provider, NoMessage
<1> QED BY <1>3, <1>4, <1>5, <1>6 DEF Call

LEMMA AnswerStep ==
  ASSUME RestInv, NEW w \in Workers, NEW outcome, NEW message, AnswerComes(w, outcome, message)
  PROVE  RestInv' /\ RowsMove
<1> DEFINE k    == session[w].key
           task == [op |-> "recording", key |-> k, attempt |-> session[w].attempt,
                    outcome |-> outcome, message |-> message, seen |-> StatusesOf(k[1])]
<1>1. k \in Delivered /\ k \in Keys /\ session[w].attempt \in Nat \ {0} /\ Working(w)
      /\ StatusesOf(k[1]) \in Statuses
  <2>1. Working(w) /\ session[w].op # "idle" /\ w \in Processes
    BY DEF AnswerComes, Working, Processes
  <2> QED BY <2>1, TaskFacts, DeliveredRows DEF RestInv
<1>2. task \in Task /\ task # Idle
  BY <1>1 DEF Task, Idle, AnswerComes
<1>3. Work(w, task)
  BY DEF AnswerComes, Answered
<1>4. /\ session' \in [Processes -> Task] /\ session'[w] = task
      /\ \A q \in Processes : q # w => session'[q] = session[q]
  BY <1>2, <1>3, WorkFacts DEF RestInv, Processes
<1>5. /\ task.op = "recording" /\ task.key = k /\ task.attempt = session[w].attempt
      /\ task.outcome = outcome /\ task.message = message
  OBVIOUS
<1> HIDE DEF task
<1>6. /\ Delivered' = Delivered /\ \A j \in Delivered : RowAfter(j) = RowOf(j)
      /\ UNCHANGED <<deliveries, reports, linked, applied, confirmed, used>>
  BY DEF AnswerComes, Delivered, RowAfter, RowOf, hooked
<1>7. /\ sent' \in [Keys -> Nat] /\ remembered' \subseteq Keys
      /\ \A j \in Keys : /\ sent[j] \in Nat /\ confirmed[j] \in Nat
                         /\ \/ sent'[j] = sent[j]
                            \/ j = k /\ sent'[j] = sent[j] + 1 /\ session[w].op = "calling"
                                 /\ outcome # "REJECTED"
      /\ outcome = "ACCEPTED" => sent'[k] > 0 /\ message > 0
      /\ \A j \in remembered' : sent'[j] > 0
  BY DEF AnswerComes, RestInv, ProviderInv, TaskInv
<1>8. \A p \in Processes : session'[p].op = "hook" => session'[p] = session[p] /\ p # w
  BY <1>4, <1>5
<1>9. TaskInv'
  <2>1. \A p \in Processes : session'[p] # Idle => session'[p].key \in Delivered'
    BY <1>1, <1>4, <1>5, <1>6 DEF RestInv, TaskInv
  <2> QED BY <1>4, <1>6, <2>1 DEF RestInv, TaskInv
<1>10. ProviderInv'
  BY <1>6, <1>7, <1>8 DEF RestInv, ProviderInv
<1>11. AcceptedInv'
  <2>1. \A j \in Keys : sent'[j] >= sent[j] /\ (j \notin Delivered => sent'[j] = sent[j])
    BY <1>1, <1>7
  <2>2. \A j \in Delivered : j \in Keys
    BY DEF Delivered
  <2>3. ASSUME NEW p \in Processes, session'[p].op = "recording", session'[p].outcome = "ACCEPTED"
        PROVE  sent'[session'[p].key] > 0 /\ session'[p].message > 0
    <3>1. CASE p = w
      BY <1>4, <1>5, <1>7, <2>3, <3>1
    <3>2. CASE p # w
      <4>1. session'[p] = session[p] /\ session[p].key \in Keys
        BY <1>4, <2>3, <3>2, TaskFacts DEF RestInv
      <4> QED BY <1>7, <2>1, <2>3, <4>1 DEF RestInv, AcceptedInv
    <3> QED BY <3>1, <3>2
  <2>4. \A j \in Keys : DOMAIN reports[j] # {} => sent'[j] > 0
    BY <1>7, <2>1 DEF RestInv, AcceptedInv
  <2>5. \A j \in Delivered : RowAfter(j).status \in Successes => sent'[j] > 0
    BY <1>6, <1>7, <2>1, <2>2 DEF RestInv, AcceptedInv, SuccessWasAccepted
  <2>6. \A j \in Keys : (j \notin Delivered => sent'[j] = 0) /\ (j \in remembered' => sent'[j] > 0)
    BY <1>7, <2>1 DEF RestInv, AcceptedInv
  <2> QED BY <1>6, <2>3, <2>4, <2>5, <2>6 DEF AcceptedInv, SuccessWasAccepted, RowAfter, RowOf
<1>12. LastInv' /\ ClaimInv'
  BY <1>6, <1>8 DEF RestInv, LastInv, ClaimInv, RowInv, CallInv, FailureApplied, RowAfter, RowOf
<1>13. \A v \in Workers : (Working(v))' <=> Working(v)
  BY <1>1, <1>4, <1>5 DEF Working, Processes
<1>14. \A v \in Workers : Working(v) => session'[v].key = session[v].key /\ session'[v].attempt = session[v].attempt
  BY <1>4, <1>5 DEF Processes
<1>15. HolderInv'
  <2> DEFINE WorkingAfter(v) == session'[v].op \in {"calling", "recording"}
  <2> SUFFICES ASSUME Punctual'
      PROVE  /\ \A v \in Workers : WorkingAfter(v) => RowAfter(session'[v].key).claim = session'[v].attempt
             /\ \A u, v \in Workers :
                  WorkingAfter(u) /\ WorkingAfter(v) /\ session'[u].key = session'[v].key => u = v
             /\ \A j \in Delivered' : RowAfter(j).status = "SENDING" =>
                  \E v \in Workers : WorkingAfter(v) /\ session'[v].key = j
    BY DEF HolderInv, RowAfter, RowOf, Working
  <2>1. HolderInv /\ Punctual
    BY <1>6 DEF RestInv, Punctual
  <2>2. \A v \in Workers : WorkingAfter(v) <=> Working(v)
    BY <1>13 DEF Working
  <2>3. \A v \in Workers : Working(v) => session[v].key \in Delivered
    BY TaskFacts DEF RestInv, Working, Processes
  <2> QED BY <1>6, <1>14, <2>1, <2>2, <2>3 DEF HolderInv
<1>16. CountInv'
  <2> SUFFICES ASSUME Punctual'
      PROVE  /\ \A j \in Delivered' :
                  /\ sent'[j] <= 1 + Allowed(j)
                  /\ RowAfter(j).status \in {"QUEUED", "FAILED", "CANCELLED"} => sent'[j] <= Allowed(j)
             /\ \A v \in Workers :
                  \/ session'[v].op = "calling"
                  \/ session'[v].op = "recording" /\ session'[v].outcome = "REJECTED"
                  => sent'[session'[v].key] <= Allowed(session'[v].key)
    BY <1>6 DEF CountInv, RowAfter, RowOf, Allowed, FailuresReported
  <2>1. CountInv /\ HolderInv /\ ClaimInv /\ Punctual
    BY <1>6 DEF RestInv, Punctual
  <2>2. RowOf(k).status \in Successes \cup {"SENDING"}
    <3>1. RowOf(k).claim = session[w].attempt
      BY <1>1, <2>1 DEF HolderInv
    <3> QED BY <1>1, <2>1, <3>1 DEF ClaimInv, RowInv, NoClaim
  <2>3. session[w].op = "calling" => sent[k] <= Allowed(k)
    BY <2>1 DEF CountInv
  <2>4. ASSUME NEW j \in Delivered
        PROVE  /\ sent'[j] <= 1 + Allowed(j)
               /\ RowAfter(j).status \in {"QUEUED", "FAILED", "CANCELLED"} => sent'[j] <= Allowed(j)
    <3>1. j \in Keys /\ Allowed(j) \in Nat
      BY AllowedFacts DEF Delivered, RestInv
    <3>2. CASE sent'[j] = sent[j]
      BY <1>6, <2>1, <3>2 DEF CountInv
    <3>3. CASE sent'[j] # sent[j]
      BY <1>6, <1>7, <2>2, <2>3, <3>1, <3>3 DEF Successes
    <3> QED BY <3>2, <3>3
  <2>5. ASSUME NEW v \in Workers,
               \/ session'[v].op = "calling"
               \/ session'[v].op = "recording" /\ session'[v].outcome = "REJECTED"
        PROVE  sent'[session'[v].key] <= Allowed(session'[v].key)
    <3>1. CASE v = w
      <4>1. outcome = "REJECTED" /\ session'[v].key = k
        BY <1>4, <1>5, <2>5, <3>1
      <4>2. session[w].op = "calling"
        BY <4>1 DEF AnswerComes
      <4> QED BY <1>1, <1>7, <2>3, <4>1, <4>2
    <3>2. CASE v # w
      <4>1. session'[v] = session[v] /\ Working(v) /\ session[v].key \in Keys
        BY <1>4, <2>5, <3>2, TaskFacts DEF RestInv, Working, Processes
      <4>2. session[v].key # k
        BY <1>1, <2>1, <3>2, <4>1 DEF HolderInv
      <4>3. sent'[session[v].key] = sent[session[v].key]
        BY <1>7, <4>1, <4>2
      <4> QED BY <2>1, <2>5, <4>1, <4>3 DEF CountInv
    <3> QED BY <3>1, <3>2
  <2> QED BY <1>6, <2>4, <2>5
<1>17. ASSUME OneHook PROVE StrictInv' /\ SeenInv'
  BY <1>6, <1>8, <1>17 DEF RestInv, StrictInv, SeenInv, RowAfter, RowOf, Processes
<1>18. RowsMove
  <2>1. \A x \in Final : Rank(x) >= Rank(x)
    BY DEF Final, Rank
  <2>2. \A x \in Successes : x \notin Claimable
    BY DEF Successes, Claimable
  <2>3. ASSUME Punctual, NEW j \in Delivered, RowOf(j).status = "CANCELLED"
        PROVE  sent'[j] = sent[j]
    <3>1. j \in Keys
      BY DEF Delivered
    <3>2. ClaimInv /\ HolderInv
      BY DEF RestInv
    <3>3. j # k
      BY <1>1, <2>3, <3>2 DEF ClaimInv, RowInv, HolderInv, NoClaim, Successes
    <3> QED BY <1>7, <3>1, <3>3
  <2> QED BY <1>6, <2>1, <2>2, <2>3 DEF RowsMove
<1> QED BY <1>9, <1>10, <1>11, <1>12, <1>15, <1>16, <1>17, <1>18 DEF RestInv, OneHook

\* A dispatch ends without a trace: its claim was lost, or it died.
LEMMA DropStep ==
  ASSUME RestInv, NEW w \in Workers, Work(w, Idle), ~Punctual',
         UNCHANGED <<deliveries, provider, hooked, confirmed>>,
         used' \in [crashes : Nat, lapses : Nat, retries : Nat]
  PROVE  RestInv' /\ RowsMove
<1>1. Idle \in Task /\ Idle.op = "idle"
  BY DEF Idle, Task
<1>2. /\ session' \in [Processes -> Task] /\ session'[w] = Idle
      /\ \A q \in Processes : q # w => session'[q] = session[q]
  BY <1>1, WorkFacts DEF RestInv, Processes
<1>3. /\ Delivered' = Delivered /\ \A j \in Delivered : RowAfter(j) = RowOf(j)
      /\ UNCHANGED <<deliveries, sent, remembered, reports, linked, applied, confirmed>>
  BY DEF Delivered, RowAfter, RowOf, provider, hooked
<1>4. \A p \in Processes : session'[p].op # "idle" => session'[p] = session[p]
  BY <1>1, <1>2
<1>5. TaskInv'
  <2>1. \A p \in Processes : session'[p] # Idle => session'[p].key \in Delivered'
    BY <1>2, <1>3 DEF RestInv, TaskInv
  <2> QED BY <1>2, <1>3, <2>1 DEF RestInv, TaskInv
<1>6. ProviderInv'
  BY <1>3, <1>4 DEF RestInv, ProviderInv
<1>7. AcceptedInv'
  BY <1>3, <1>4 DEF RestInv, AcceptedInv, SuccessWasAccepted, RowOf
<1>8. LastInv' /\ ClaimInv'
  <2>1. LastInv /\ ClaimInv
    BY DEF RestInv
  <2>2. \A j \in Delivered : RowInvAfter(j)
    BY <1>3, <2>1 DEF ClaimInv, RowInv, RowInvAfter
  <2>3. ASSUME NEW p \in Processes, session'[p].op = "hook"
        PROVE  /\ session'[p] = session[p] /\ CallInv(session[p].key, session[p].report)
               /\ RowAfter(session[p].key) = RowOf(session[p].key)
    <3>1. session'[p] = session[p] /\ session[p].key \in Delivered
      BY <1>4, <2>3, TaskFacts DEF RestInv
    <3> QED BY <1>3, <2>1, <2>3, <3>1 DEF ClaimInv
  <2>4. ClaimInv'
    BY <1>3, <2>2, <2>3, ClaimsKept DEF CallInv
  <2> QED BY <1>3, <2>1, <2>4 DEF LastInv
<1>9. HolderInv' /\ CountInv'
  BY DEF HolderInv, CountInv
<1>10. ASSUME OneHook PROVE StrictInv' /\ SeenInv'
  BY <1>3, <1>4, <1>10 DEF RestInv, StrictInv, SeenInv, RowOf, Processes
<1>11. RowsMove
  <2>1. \A x \in Final : Rank(x) >= Rank(x)
    BY DEF Final, Rank
  <2>2. \A x \in Successes : x \notin Claimable
    BY DEF Successes, Claimable
  <2> QED BY <1>3, <2>1, <2>2 DEF RowsMove
<1> QED BY <1>5, <1>6, <1>7, <1>8, <1>9, <1>10, <1>11 DEF RestInv, OneHook

LEMMA CrashStep ==
  ASSUME RestInv, NEW w \in Workers, Crash(w)
  PROVE  RestInv' /\ RowsMove
<1>1. used' = [used EXCEPT !.crashes = @ + 1] /\ Work(w, Idle)
      /\ UNCHANGED <<deliveries, provider, hooked, confirmed>>
  BY DEF Crash, Use
<1>2. used' \in [crashes : Nat, lapses : Nat, retries : Nat] /\ ~Punctual'
  BY <1>1 DEF RestInv, TaskInv, Punctual
<1> QED BY <1>1, <1>2, DropStep

LEMMA RecordStep ==
  ASSUME RestInv, NEW w \in Workers, Record(w)
  PROVE  RestInv' /\ RowsMove
<1> DEFINE k   == session[w].key
           new == StatusAfter(session[w].outcome, session[w].attempt)
           row == [RowOf(k) EXCEPT !.status = new, !.claim = NoClaim,
                     !.message = IF session[w].outcome = "ACCEPTED" THEN session[w].message ELSE @]
<1>1. session[w].op = "recording" /\ w \in Processes /\ Working(w)
  BY DEF Record, Processes, Working
<1>2. /\ k \in Delivered /\ k \in Keys /\ RowOf(k) \in Row /\ session[w].attempt \in Nat \ {0}
      /\ session[w].outcome \in {"ACCEPTED", "REJECTED", "UNCERTAIN"} /\ session[w].message \in Nat
  BY <1>1, TaskFacts, DeliveredRows DEF RestInv
<1>3. /\ new \in {"SENT", "QUEUED", "FAILED", "DELIVERY_UNCERTAIN"}
      /\ new = "SENT" <=> session[w].outcome = "ACCEPTED"
      /\ new \in {"QUEUED", "FAILED"} => session[w].outcome = "REJECTED"
  BY <1>2, NaturalsAssumption DEF StatusAfter
<1>4. Work(w, Idle) /\ UNCHANGED <<sent, remembered, reports, linked, applied, confirmed, used>>
  BY DEF Record, provider, hooked
<1>5. CASE ~HoldsClaim(k, session[w].attempt)
  <2>1. UNCHANGED <<deliveries, provider, hooked, confirmed>>
    BY <1>4, <1>5, Zenon DEF Record, provider, hooked
  <2>2. ~Punctual'
    BY <1>1, <1>4, <1>5 DEF RestInv, HolderInv, HoldsClaim, Punctual
  <2> QED BY <1>4, <2>1, <2>2, DropStep DEF RestInv, TaskInv
<1>6. CASE HoldsClaim(k, session[w].attempt)
  <2>1. SetRow(k, row)
    BY <1>6, Zenon DEF Record
  <2>2. /\ row \in Row /\ row.status = new /\ row.claim = NoClaim
        /\ row.message = IF session[w].outcome = "ACCEPTED" THEN session[w].message ELSE RowOf(k).message
    BY <1>2, <1>3 DEF Row, DeliveryStatuses, NoClaim
  <2>3. RowOf(k).claim = session[w].attempt /\ RowOf(k).claim # NoClaim
    BY <1>2, <1>6 DEF HoldsClaim, NoClaim
  <2> HIDE DEF new, row
  <2>4. /\ deliveries' \in [Notifications -> DeliveryTables] /\ Delivered' = Delivered /\ RowAfter(k) = row
        /\ \A j \in Delivered : j # k => RowAfter(j) = RowOf(j)
    BY <1>2, <2>1, <2>2, SetRowFacts DEF RestInv
  <2>5. Idle \in Task /\ Idle.op = "idle"
    BY DEF Idle, Task
  <2>6. /\ session' \in [Processes -> Task] /\ session'[w] = Idle
        /\ \A q \in Processes : q # w => session'[q] = session[q]
    BY <1>1, <1>4, <2>5, WorkFacts DEF RestInv
  <2>7. \A p \in Processes : session'[p].op # "idle" => p # w /\ session'[p] = session[p] /\ session[p].key \in Delivered
    BY <2>5, <2>6, TaskFacts DEF RestInv
  <2>8. TaskInv'
    <3>1. \A p \in Processes : session'[p] # Idle => session'[p].key \in Delivered'
      BY <2>4, <2>6 DEF RestInv, TaskInv
    <3> QED BY <1>4, <2>4, <2>6, <3>1 DEF RestInv, TaskInv
  <2>9. ProviderInv'
    BY <1>4, <2>7 DEF RestInv, ProviderInv
  <2>10. AcceptedInv'
    <3>1. \A j \in Delivered : RowAfter(j).status \in Successes => sent[j] > 0
      BY <1>1, <1>3, <2>2, <2>4 DEF RestInv, AcceptedInv, SuccessWasAccepted, Successes
    <3> QED BY <1>4, <2>4, <2>7, <3>1 DEF RestInv, AcceptedInv, SuccessWasAccepted, RowAfter, RowOf
  <2>11. /\ RowInv(k)
         /\ RowOf(k).message # NoMessage => FailureApplied(k, RowOf(k).message)
    BY <1>2, <2>3 DEF RestInv, ClaimInv, RowInv
  <2>12. session[w].outcome = "ACCEPTED" => session[w].message # NoMessage
    BY <1>1, <1>2 DEF RestInv, AcceptedInv, NoMessage
  <2>13. ASSUME NEW p \in Processes, session'[p].op = "hook"
         PROVE  /\ session'[p] = session[p] /\ session[p].key \in Delivered
                /\ CallInv(session[p].key, session[p].report)
    BY <2>7, <2>13 DEF RestInv, ClaimInv
  <2>14. LastInv' /\ ClaimInv'
    <3>1. LastInv /\ ClaimInv /\ ProviderInv
      BY DEF RestInv
    <3>2. ASSUME NEW j \in Delivered PROVE RowInvAfter(j)
      <4>1. CASE j = k
        BY <1>3, <2>2, <2>4, <2>11, <2>12, <4>1 DEF RowInvAfter, Successes
      <4>2. CASE j # k
        BY <2>4, <3>1, <4>2 DEF ClaimInv, RowInv, RowInvAfter
      <4> QED BY <4>1, <4>2
    <3>3. ASSUME NEW p \in Processes, session'[p].op = "hook"
          PROVE  LET j == session'[p].key
                     e == session'[p].report
                 IN /\ RowAfter(j).message # NoMessage
                    /\ \/ reports[j][e].message = RowAfter(j).message
                       \/ reports[j][e].kind = "FAILED" => e \in linked[j]
      <4> DEFINE e == session[p].report
      <4>1. CASE session[p].key # k
        BY <2>4, <2>13, <3>3, <4>1 DEF CallInv
      <4>2. CASE session[p].key = k
        <5>1. session'[p] = session[p] /\ CallInv(k, e) /\ session[p].op = "hook"
          BY <2>13, <3>3, <4>2
        <5>2. e \in DOMAIN reports[k]
          BY <3>1, <4>2, <5>1 DEF ProviderInv
        <5>3. RowAfter(k).message # NoMessage
          BY <2>2, <2>4, <2>12, <5>1 DEF CallInv
        <5>4. PICK f \in applied[k] : /\ f \in DOMAIN reports[k] /\ f \in linked[k]
                                      /\ reports[k][f].kind = "FAILED"
                                      /\ reports[k][f].message = RowOf(k).message
          BY <1>2, <2>11, <3>1, <5>1, FailureAppliedFacts DEF CallInv
        <5>5. reports[k][e].kind = "FAILED" => e \in linked[k]
          BY <1>2, <3>1, <5>1, <5>2, <5>4, FailureIsLast DEF CallInv
        <5> QED BY <4>2, <5>1, <5>3, <5>5
      <4> QED BY <4>1, <4>2
    <3>4. ClaimInv'
      BY <1>4, <2>4, <3>2, <3>3, ClaimsKept
    <3> QED BY <1>4, <3>1, <3>4 DEF LastInv
  <2>15. HolderInv'
    <3> DEFINE WorkingAfter(v) == session'[v].op \in {"calling", "recording"}
    <3> SUFFICES ASSUME Punctual'
        PROVE  /\ \A v \in Workers : WorkingAfter(v) => RowAfter(session'[v].key).claim = session'[v].attempt
               /\ \A u, v \in Workers :
                    WorkingAfter(u) /\ WorkingAfter(v) /\ session'[u].key = session'[v].key => u = v
               /\ \A j \in Delivered' : RowAfter(j).status = "SENDING" =>
                    \E v \in Workers : WorkingAfter(v) /\ session'[v].key = j
      BY DEF HolderInv, RowAfter, RowOf, Working
    <3>1. HolderInv /\ Punctual
      BY <1>4 DEF RestInv, Punctual
    <3>2. \A v \in Workers : WorkingAfter(v) => /\ v # w /\ session'[v] = session[v] /\ Working(v)
                                                /\ session[v].key \in Delivered
      BY <2>7 DEF Working, Processes
    <3>3. \A v \in Workers : WorkingAfter(v) => session[v].key # k
      BY <1>1, <3>1, <3>2 DEF HolderInv
    <3>4. \A v \in Workers : WorkingAfter(v) => RowAfter(session'[v].key).claim = session'[v].attempt
      BY <2>4, <3>1, <3>2, <3>3 DEF HolderInv
    <3>5. \A u, v \in Workers :
            WorkingAfter(u) /\ WorkingAfter(v) /\ session'[u].key = session'[v].key => u = v
      BY <3>1, <3>2 DEF HolderInv
    <3>6. ASSUME NEW j \in Delivered, RowAfter(j).status = "SENDING"
          PROVE  \E v \in Workers : WorkingAfter(v) /\ session'[v].key = j
      <4>1. j # k
        BY <1>3, <2>2, <2>4, <3>6
      <4>2. PICK v \in Workers : Working(v) /\ session[v].key = j
        BY <2>4, <3>1, <3>6, <4>1 DEF HolderInv
      <4> QED BY <2>6, <4>1, <4>2 DEF Working, Processes
    <3> QED BY <2>4, <3>4, <3>5, <3>6
  <2>16. CountInv'
    <3> SUFFICES ASSUME Punctual'
        PROVE  /\ \A j \in Delivered' :
                    /\ sent[j] <= 1 + Allowed(j)
                    /\ RowAfter(j).status \in {"QUEUED", "FAILED", "CANCELLED"} => sent[j] <= Allowed(j)
               /\ \A v \in Workers :
                    \/ session'[v].op = "calling"
                    \/ session'[v].op = "recording" /\ session'[v].outcome = "REJECTED"
                    => sent[session'[v].key] <= Allowed(session'[v].key)
      BY <1>4 DEF CountInv, RowAfter, RowOf, Allowed, FailuresReported
    <3>1. CountInv /\ Punctual
      BY <1>4 DEF RestInv, Punctual
    <3>2. session[w].outcome = "REJECTED" => sent[k] <= Allowed(k)
      BY <1>1, <3>1 DEF CountInv
    <3>3. ASSUME NEW j \in Delivered
          PROVE  /\ sent[j] <= 1 + Allowed(j)
                 /\ RowAfter(j).status \in {"QUEUED", "FAILED", "CANCELLED"} => sent[j] <= Allowed(j)
      <4>1. CASE j = k
        BY <1>3, <2>2, <2>4, <3>1, <3>2, <4>1 DEF CountInv
      <4>2. CASE j # k
        BY <2>4, <3>1, <4>2 DEF CountInv
      <4> QED BY <4>1, <4>2
    <3>4. \A v \in Workers :
            \/ session'[v].op = "calling"
            \/ session'[v].op = "recording" /\ session'[v].outcome = "REJECTED"
            => sent[session'[v].key] <= Allowed(session'[v].key)
      BY <2>7, <3>1 DEF CountInv, Processes
    <3> QED BY <2>4, <3>3, <3>4
  <2>17. ASSUME OneHook PROVE StrictInv' /\ SeenInv'
    <3>1. StrictInv /\ SeenInv
      BY <2>17 DEF RestInv
    <3>2. \A j \in Delivered : RowAfter(j).claim # NoClaim => RowAfter(j).status = "SENDING"
      BY <2>2, <2>4, <3>1 DEF StrictInv
    <3>3. ASSUME NEW g \in Hooks, session'[g].op = "hook"
          PROVE  /\ session'[g] = session[g]
                 /\ RowOf(session[g].key).claim = NoClaim => RowAfter(session[g].key) = RowOf(session[g].key)
      <4>1. session'[g] = session[g] /\ session[g].key \in Delivered
        BY <2>13, <3>3 DEF Processes
      <4> QED BY <2>3, <2>4, <4>1
    <3>4. SeenInv'
      BY <1>4, <3>1, <3>3, SeenKept
    <3> QED BY <2>4, <3>2, <3>4 DEF StrictInv, RowAfter, RowOf
  <2>18. RowsMove
    <3>1. \A x \in Final : Rank(x) >= Rank(x) /\ x \in Successes
      BY DEF Final, Rank, Successes
    <3>2. \A x \in Successes : x \notin Claimable
      BY DEF Successes, Claimable
    <3>3. ASSUME NoFailureReports \/ OneHook, NEW j \in Delivered,
                 RowOf(j).status \in Successes \cup {"CANCELLED"}
          PROVE  RowAfter(j) = RowOf(j)
      <4>1. RowOf(k).status = "SENDING"
        BY <1>2, <2>3, <3>3, StrictNow DEF StrictInv
      <4> QED BY <2>4, <3>3, <4>1 DEF Successes
    <3> QED BY <1>4, <2>4, <3>1, <3>2, <3>3 DEF RowsMove
  <2> QED BY <2>8, <2>9, <2>10, <2>14, <2>15, <2>16, <2>17, <2>18 DEF RestInv, OneHook
<1> QED BY <1>5, <1>6
-----------------------------------------------------------------------------
(***************************************************************************)
(* The provider and the webhooks.                                          *)
(***************************************************************************)
\* Steps that leave the tables and the tasks alone.
LEMMA ProviderStep ==
  ASSUME RestInv, UNCHANGED <<deliveries, session, sent, hooked, confirmed, used>>,
         remembered' \subseteq remembered,
         reports' \in [Keys -> Seq([message : Nat \ {0}, kind : Reports])],
         \A k \in Keys : /\ DOMAIN reports[k] \subseteq DOMAIN reports'[k]
                         /\ \A e \in DOMAIN reports[k] : reports'[k][e] = reports[k][e]
                         /\ DOMAIN reports'[k] # {} => sent[k] > 0,
         LastInv'
  PROVE  RestInv' /\ RowsMove
<1>1. /\ Delivered' = Delivered /\ \A j \in Delivered : RowAfter(j) = RowOf(j)
      /\ UNCHANGED <<deliveries, session, sent, linked, applied, confirmed, used>>
  BY DEF Delivered, RowAfter, RowOf, hooked
<1>2. TaskInv'
  BY <1>1 DEF RestInv, TaskInv
<1>3. ProviderInv'
  <2>1. \A p \in Processes : session[p].op = "hook" => session[p].report \in DOMAIN reports'[session[p].key]
    <3> SUFFICES ASSUME NEW p \in Processes, session[p].op = "hook"
                 PROVE  session[p].report \in DOMAIN reports'[session[p].key]
      OBVIOUS
    <3>1. session[p].key \in Keys
      BY TaskFacts DEF RestInv
    <3> QED BY <3>1 DEF RestInv, ProviderInv
  <2> QED BY <1>1, <2>1 DEF RestInv, ProviderInv
<1>4. AcceptedInv'
  BY <1>1 DEF RestInv, AcceptedInv, SuccessWasAccepted, RowOf
<1>5. ASSUME NEW k \in Keys, NEW e \in applied[k] PROVE reports'[k][e] = reports[k][e]
  BY DEF RestInv, ProviderInv
<1>6. ClaimInv' /\ HolderInv' /\ CountInv'
  <2>1. ClaimInv /\ HolderInv /\ CountInv /\ ProviderInv
    BY DEF RestInv
  <2>2. \A k \in Delivered : k \in Keys
    BY DEF Delivered
  <2>3. \A k \in Delivered : RowInv(k)'
    <3> SUFFICES ASSUME NEW k \in Delivered PROVE RowInv(k)'
      OBVIOUS
    <3>1. RowInv(k) /\ k \in Keys
      BY <2>1, <2>2 DEF ClaimInv
    <3>2. \A message : FailureApplied(k, message) => FailureApplied(k, message)'
      BY <1>1, <1>5, <3>1 DEF FailureApplied
    <3>3. RowOf(k)' = RowOf(k)
      BY <1>1 DEF RowOf
    <3> QED BY <3>1, <3>2, <3>3 DEF RowInv
  <2>4. \A p \in Processes : session'[p].op = "hook" => CallInv(session[p].key, session[p].report)'
    <3> SUFFICES ASSUME NEW p \in Processes, session[p].op = "hook"
                 PROVE  CallInv(session[p].key, session[p].report)'
      BY <1>1
    <3>1. session[p].key \in Keys
      BY TaskFacts DEF RestInv
    <3>2. session[p].report \in DOMAIN reports[session[p].key] /\ CallInv(session[p].key, session[p].report)
      BY <2>1 DEF ProviderInv, ClaimInv
    <3>3. reports'[session[p].key][session[p].report] = reports[session[p].key][session[p].report]
      BY <3>1, <3>2
    <3> QED BY <1>1, <3>2, <3>3 DEF CallInv, RowOf
  <2>5. ClaimInv'
    BY <1>1, <2>3, <2>4 DEF ClaimInv
  <2>6. HolderInv'
    BY <1>1, <2>1 DEF HolderInv, RowOf, Punctual, Working
  <2>7. \A k \in Keys : Allowed(k)' = Allowed(k)
    <3> SUFFICES ASSUME NEW k \in Keys PROVE Allowed(k)' = Allowed(k)
      OBVIOUS
    <3>1. {e \in applied[k] : reports'[k][e].kind = "FAILED"} = {e \in applied[k] : reports[k][e].kind = "FAILED"}
      BY <1>5
    <3> QED BY <1>1, <3>1 DEF Allowed, FailuresReported
  <2>8. \A w \in Workers : session[w].op # "idle" => session[w].key \in Keys
    BY TaskFacts DEF RestInv, Processes
  <2>9. CountInv'
    <3> HIDE DEF Allowed
    <3> QED BY <1>1, <2>1, <2>2, <2>7, <2>8 DEF CountInv, Punctual, RowOf
  <2> QED BY <2>5, <2>6, <2>9
<1>8. ASSUME OneHook PROVE StrictInv' /\ SeenInv'
  <2>1. StrictInv /\ SeenInv
    BY <1>8 DEF RestInv
  <2>2. SeenInv'
    BY <1>1, <2>1 DEF SeenInv, RowOf
  <2> QED BY <1>1, <2>1, <2>2 DEF StrictInv, RowOf
<1>7. RowsMove
  <2>1. \A x \in Final : Rank(x) >= Rank(x)
    BY DEF Final, Rank
  <2>2. \A x \in Successes : x \notin Claimable
    BY DEF Successes, Claimable
  <2> QED BY <1>1, <2>1, <2>2 DEF RowsMove
<1> QED BY <1>2, <1>3, <1>4, <1>6, <1>7, <1>8 DEF RestInv, OneHook

LEMMA KeyLapsesStep ==
  ASSUME RestInv, NEW k \in Keys, KeyLapses(k)
  PROVE  RestInv' /\ RowsMove
<1>1. UNCHANGED <<deliveries, session, sent, hooked, confirmed, used>> /\ remembered' \subseteq remembered
      /\ reports' = reports
  BY DEF KeyLapses
<1>2. \A j \in Keys : DOMAIN reports[j] # {} => sent[j] > 0
  BY DEF RestInv, AcceptedInv
<1>3. LastInv'
  BY <1>1 DEF RestInv, LastInv
<1> QED BY <1>1, <1>2, <1>3, ProviderStep DEF RestInv, ProviderInv

LEMMA ReportStep ==
  ASSUME RestInv, NEW k \in Keys, NEW kind \in Reports, ProviderReports(k, kind)
  PROVE  RestInv' /\ RowsMove
<1> DEFINE report == [message |-> sent[k], kind |-> kind]
<1>1. sent[k] \in Nat /\ sent[k] > 0 /\ report \in [message : Nat \ {0}, kind : Reports]
  BY DEF ProviderReports, RestInv, ProviderInv
<1>2. reports' = [reports EXCEPT ![k] = Append(@, report)] /\ remembered' = remembered
      /\ UNCHANGED <<deliveries, session, sent, hooked, confirmed, used>>
  BY DEF ProviderReports
<1> HIDE DEF report
<1>3. reports[k] \in Seq([message : Nat \ {0}, kind : Reports])
  BY DEF RestInv, ProviderInv
<1> DEFINE last == Len(reports[k]) + 1
<1>4. /\ Append(reports[k], report) \in Seq([message : Nat \ {0}, kind : Reports])
      /\ DOMAIN reports[k] = 1..Len(reports[k]) /\ Len(reports[k]) \in Nat
      /\ DOMAIN Append(reports[k], report) = 1..last
      /\ Append(reports[k], report)[last] = report
      /\ \A e \in DOMAIN reports[k] : Append(reports[k], report)[e] = reports[k][e]
  BY <1>1, <1>3
<1>5. reports' \in [Keys -> Seq([message : Nat \ {0}, kind : Reports])]
      /\ reports'[k] = Append(reports[k], report)
      /\ \A j \in Keys : j # k => reports'[j] = reports[j]
  BY <1>2, <1>4 DEF RestInv, ProviderInv
<1>6. \A j \in Keys : /\ DOMAIN reports[j] \subseteq DOMAIN reports'[j]
                      /\ \A e \in DOMAIN reports[j] : reports'[j][e] = reports[j][e]
                      /\ DOMAIN reports'[j] # {} => sent[j] > 0
  <2> SUFFICES ASSUME NEW j \in Keys
               PROVE  /\ DOMAIN reports[j] \subseteq DOMAIN reports'[j]
                      /\ \A e \in DOMAIN reports[j] : reports'[j][e] = reports[j][e]
                      /\ DOMAIN reports'[j] # {} => sent[j] > 0
    OBVIOUS
  <2>1. CASE j = k
    <3>1. 1..Len(reports[k]) \subseteq 1..last
      BY <1>4
    <3> HIDE DEF last
    <3> QED BY <1>1, <1>4, <1>5, <2>1, <3>1
  <2>2. CASE j # k
    BY <1>5, <2>2 DEF RestInv, AcceptedInv
  <2> QED BY <2>1, <2>2
<1>7. ASSUME NEW e \in DOMAIN reports[k], reports[k][e].kind = "FAILED", reports[k][e].message = sent[k]
      PROVE  FALSE
  <2> DEFINE mine == {f \in DOMAIN reports[k] : reports[k][f].message = sent[k]}
  <2>1. e \in mine /\ \A f \in mine : f <= e
    BY <1>7 DEF RestInv, LastInv
  <2>2. \A f \in mine : f \in Nat
    BY <1>4
  <2> HIDE DEF mine
  <2>3. (CHOOSE f \in mine : \A g \in mine : g <= f) = e
    BY <2>1, <2>2
  <2>4. LatestReport(k) = "FAILED"
    BY <1>7, <2>1, <2>3 DEF LatestReport, mine
  <2>5. Following("FAILED") = {}
    BY DEF Following
  <2> QED BY <2>4, <2>5 DEF ProviderReports
<1>8. report.message = sent[k]
  BY DEF report
<1>9. LastInv'
  <2> SUFFICES ASSUME NEW j \in Keys, NEW e \in DOMAIN reports'[j], NEW f \in DOMAIN reports'[j],
                      reports'[j][e].kind = "FAILED", reports'[j][f].message = reports'[j][e].message
               PROVE  f <= e
    BY DEF LastInv
  <2>1. CASE j # k
    BY <1>5, <2>1 DEF RestInv, LastInv
  <2>2. CASE j = k
    <3>1. e \in 1..last /\ f \in 1..last
      BY <1>4, <1>5, <2>2
    <3>2. CASE e = last
      BY <1>4, <3>1, <3>2
    <3>3. CASE e # last
      <4>1. e \in DOMAIN reports[k] /\ reports'[k][e] = reports[k][e]
        BY <1>4, <1>6, <3>1, <3>3
      <4>2. CASE f = last
        BY <1>4, <1>5, <1>7, <1>8, <2>2, <4>1, <4>2
      <4>3. CASE f # last
        <5>1. f \in DOMAIN reports[k] /\ reports'[k][f] = reports[k][f]
          BY <1>4, <1>6, <3>1, <4>3
        <5> QED BY <2>2, <4>1, <5>1 DEF RestInv, LastInv
      <4> QED BY <4>2, <4>3
    <3> QED BY <3>2, <3>3
  <2> QED BY <2>1, <2>2
<1> QED BY <1>2, <1>5, <1>6, <1>9, ProviderStep

LEMMA BeginHookStep ==
  ASSUME RestInv, NEW h \in Hooks, NEW k \in Keys, NEW e \in 1..MaxReports, BeginHook(h, k, e)
  PROVE  RestInv' /\ RowsMove
<1> DEFINE task == [op |-> "hook", key |-> k, report |-> e, seen |-> StatusesOf(k[1]),
                    applied |-> applied[k]]
<1>1. k \in Delivered /\ RowOf(k) \in Row /\ StatusesOf(k[1]) \in Statuses
      /\ StatusesOf(k[1]) = [i \in DOMAIN deliveries[k[1]] |-> deliveries[k[1]][i].status]
      /\ k[2] \in DOMAIN deliveries[k[1]]
  BY DeliveredRows DEF BeginHook, RestInv, StatusesOf, Delivered
<1>2. reports[k] \in Seq([message : Nat \ {0}, kind : Reports]) /\ e \in DOMAIN reports[k]
      /\ applied[k] \subseteq Nat
  BY DEF BeginHook, RestInv, ProviderInv
<1>3. RowOf(k).message # NoMessage
  <2> DEFINE Report == [message : Nat \ {0}, kind : Reports]
  <2>1. reports[k] \in Seq(Report) /\ e \in DOMAIN reports[k]
    BY <1>2
  <2> HIDE DEF Report
  <2>2. reports[k][e] \in Report
    BY <2>1
  <2>3. reports[k][e].message \in Nat \ {0}
    BY <2>2 DEF Report
  <2> QED BY <2>3 DEF BeginHook, NoMessage
<1>4. task \in Task /\ task.op = "hook" /\ task.key = k /\ task.report = e /\ task # Idle
      /\ task.seen = StatusesOf(k[1]) /\ task.applied = applied[k]
  BY <1>1, <1>2, NaturalsAssumption DEF Task, Idle
<1>5. Work(h, task) /\ UNCHANGED <<deliveries, sent, remembered, reports, linked, applied, confirmed, used>>
      /\ session[h] = Idle
  BY DEF BeginHook, provider, hooked
<1> HIDE DEF task
<1>6. /\ session' \in [Processes -> Task] /\ session'[h] = task
      /\ \A q \in Processes : q # h => session'[q] = session[q]
  BY <1>4, <1>5, WorkFacts DEF RestInv, Processes
<1>7. Delivered' = Delivered /\ \A j \in Delivered : RowAfter(j) = RowOf(j)
  BY <1>5 DEF Delivered, RowAfter, RowOf
<1>8. \A p \in Processes : session'[p].op # "hook" => session'[p] = session[p]
  BY <1>4, <1>6
<1>9. TaskInv'
  <2>1. \A p \in Processes : session'[p] # Idle => session'[p].key \in Delivered'
    BY <1>1, <1>4, <1>6, <1>7 DEF RestInv, TaskInv
  <2> QED BY <1>5, <1>6, <2>1 DEF RestInv, TaskInv
<1>10. ProviderInv'
  BY <1>2, <1>4, <1>5, <1>6 DEF RestInv, ProviderInv
<1>11. AcceptedInv'
  BY <1>5, <1>7, <1>8 DEF RestInv, AcceptedInv, SuccessWasAccepted, RowOf
<1>12. CallInv(k, e) /\ reports[k][e].message = RowOf(k).message /\ e \notin linked[k]
  BY <1>3 DEF CallInv, BeginHook
<1>13. LastInv' /\ ClaimInv'
  <2>1. LastInv /\ ClaimInv
    BY DEF RestInv
  <2>2. \A j \in Delivered : RowInvAfter(j)
    BY <1>7, <2>1 DEF ClaimInv, RowInv, RowInvAfter
  <2>3. ASSUME NEW p \in Processes, session'[p].op = "hook"
        PROVE  /\ CallInv(session'[p].key, session'[p].report)
               /\ RowAfter(session'[p].key) = RowOf(session'[p].key)
    <3>1. CASE p = h
      BY <1>1, <1>4, <1>6, <1>7, <1>12, <3>1
    <3>2. CASE p # h
      <4>1. session'[p] = session[p] /\ session[p].key \in Delivered
        BY <1>6, <2>3, <3>2, TaskFacts DEF RestInv
      <4> QED BY <1>7, <2>1, <2>3, <4>1 DEF ClaimInv
    <3> QED BY <3>1, <3>2
  <2>4. ClaimInv'
    BY <1>5, <1>7, <2>2, <2>3, ClaimsKept DEF CallInv
  <2> QED BY <1>5, <2>1, <2>4 DEF LastInv
<1>14. \A w \in Workers : /\ (session'[w].op \in {"calling", "recording"}) = (session[w].op \in {"calling", "recording"})
                          /\ session'[w].op \in {"calling", "recording"} => session'[w] = session[w]
  BY <1>4, <1>5, <1>6, <1>8 DEF Idle, Processes
<1>15. HolderInv' /\ CountInv'
  <2>1. HolderInv'
    BY <1>5, <1>7, <1>14 DEF RestInv, HolderInv, Working, Punctual, RowOf
  <2>2. CountInv'
    BY <1>5, <1>7, <1>8, <1>14 DEF RestInv, CountInv, Punctual, RowOf, Processes, Allowed, FailuresReported
  <2> QED BY <2>1, <2>2
<1>16. ASSUME OneHook PROVE StrictInv' /\ SeenInv'
  <2>1. StrictInv'
    BY <1>5, <1>7, <1>16 DEF RestInv, StrictInv, RowOf
  <2>2. \A g \in Hooks : session'[g].op = "hook" => session'[g] = task
    BY <1>6, <1>16 DEF OneHook, Processes
  <2>3. /\ task.applied = applied[k] /\ k[2] \in DOMAIN task.seen
        /\ task.seen[k[2]] = RowOf(k).status
    BY <1>1, <1>4 DEF RowOf
  <2>4. \/ \E f \in applied[k] : f > e
        \/ RowOf(k).status \in Successes /\ RowOf(k).claim = NoClaim
    <3> SUFFICES ASSUME ~(RowOf(k).status \in Successes /\ RowOf(k).claim = NoClaim)
                 PROVE  \E f \in applied[k] : f > e
      OBVIOUS
    <3>1. RowInv(k) /\ ProviderInv /\ LastInv
      BY <1>1 DEF RestInv, ClaimInv
    <3>2. FailureApplied(k, RowOf(k).message)
      BY <1>3, <3>1 DEF RowInv
    <3>3. PICK f \in applied[k] : /\ f \in DOMAIN reports[k] /\ f \in linked[k]
                                  /\ reports[k][f].kind = "FAILED"
                                  /\ reports[k][f].message = RowOf(k).message
      BY <3>1, <3>2, FailureAppliedFacts
    <3>4. e <= f /\ e \in Nat /\ f \in Nat
      BY <1>2, <1>12, <3>1, <3>3, FailureIsLast, ReportFacts
    <3>5. e # f
      BY <1>12, <3>3
    <3> QED BY <3>4, <3>5
  <2>5. SeenInv'
    BY <1>4, <1>5, <2>2, <2>3, <2>4 DEF SeenInv, RowOf
  <2> QED BY <2>1, <2>5
<1>17. RowsMove
  <2>1. \A x \in Final : Rank(x) >= Rank(x)
    BY DEF Final, Rank
  <2>2. \A x \in Successes : x \notin Claimable
    BY DEF Successes, Claimable
  <2> QED BY <1>5, <1>7, <2>1, <2>2 DEF RowsMove
<1> QED BY <1>9, <1>10, <1>11, <1>13, <1>15, <1>16, <1>17 DEF RestInv, OneHook

\* What the only call applies is news of a success nobody works on; without
\* reports of failures, any call applies news of a success.
LEMMA AppliedToSuccess ==
  ASSUME RestInv, NEW h \in Hooks, session[h].op = "hook", Applies(session[h])
  PROVE  LET k == session[h].key IN
         /\ OneHook => /\ RowOf(k).status \in Successes /\ RowOf(k).claim = NoClaim
                       /\ session[h].seen[k[2]] = RowOf(k).status
         /\ NoFailureReports => RowOf(k).status \in Successes
<1> DEFINE task == session[h]
           k    == session[h].key
<1>1. h \in Processes /\ k \in Delivered /\ k \in Keys /\ task.report \in Nat
  BY TaskFacts DEF Processes, RestInv, ProviderInv
<1>2. ASSUME OneHook
      PROVE  /\ RowOf(k).status \in Successes /\ RowOf(k).claim = NoClaim
             /\ task.seen[k[2]] = RowOf(k).status
  <2>1. /\ task.applied = applied[k]
        /\ \/ \E f \in applied[k] : f > task.report
           \/ /\ RowOf(k).status \in Successes /\ RowOf(k).claim = NoClaim
              /\ task.seen[k[2]] = RowOf(k).status
    BY <1>2 DEF RestInv, SeenInv
  <2>2. \A f \in task.applied : f <= task.report
    BY DEF Applies
  <2>3. \A f \in applied[k] : f \in Nat
    BY <1>1 DEF RestInv, ProviderInv
  <2> QED BY <1>1, <2>1, <2>2, <2>3
<1>3. ASSUME NoFailureReports PROVE RowOf(k).status \in Successes
  <2>1. RowInv(k) /\ CallInv(k, task.report)
    BY <1>1 DEF RestInv, ClaimInv
  <2> QED BY <1>1, <1>3, <2>1, NothingFails DEF CallInv, RestInv
<1> QED BY <1>2, <1>3

LEMMA CommitHookStep ==
  ASSUME RestInv, NEW h \in Hooks, CommitHook(h)
  PROVE  RestInv' /\ RowsMove
<1> DEFINE task == session[h]
           k    == task.key
           new  == reports[k][task.report].kind
           row  == [RowOf(k) EXCEPT !.status = new]
           applies == task.report \notin linked[k] /\ Applies(task)
<1>1. h \in Processes /\ task.op = "hook"
  BY DEF CommitHook, Processes
<1>2. /\ k \in Delivered /\ k \in Keys /\ RowOf(k) \in Row
      /\ task.report \in Nat /\ task.report \in DOMAIN reports[k]
      /\ reports[k] \in Seq([message : Nat \ {0}, kind : Reports])
  BY <1>1, TaskFacts, DeliveredRows DEF RestInv, ProviderInv
<1>3. new \in Reports /\ new \in Successes \cup {"FAILED"}
  <2> DEFINE Report == [message : Nat \ {0}, kind : Reports]
  <2>1. reports[k] \in Seq(Report) /\ task.report \in DOMAIN reports[k]
    BY <1>2
  <2> HIDE DEF Report
  <2>2. reports[k][task.report] \in Report
    BY <2>1
  <2>3. new \in Reports
    BY <2>2 DEF Report
  <2> QED BY <2>3, ReportsAssumption
<1>4. /\ row \in Row /\ row.status = new /\ row.claim = RowOf(k).claim
      /\ row.message = RowOf(k).message
  BY <1>2, <1>3 DEF Row, DeliveryStatuses, Successes
<1>5. Idle \in Task /\ Idle.op = "idle"
  BY DEF Idle, Task
<1>6. Work(h, Idle) /\ UNCHANGED <<sent, remembered, reports, confirmed, used>>
  BY DEF CommitHook, provider
<1>7. \/ applies /\ SetRow(k, row)
      \/ ~applies /\ deliveries' = deliveries
  BY Zenon DEF CommitHook
<1>8. /\ linked' = linked \/ linked' = [linked EXCEPT ![k] = @ \cup {task.report}]
      /\ applied' = applied
         \/ (applied' = [applied EXCEPT ![k] = @ \cup {task.report}]
             /\ linked' = [linked EXCEPT ![k] = @ \cup {task.report}])
  BY Zenon DEF CommitHook, hooked
<1>9. Rank(new) >= Rank(task.seen[k[2]]) \/ ~applies
  BY DEF Applies
<1> HIDE DEF new, row, applies
<1>10. /\ session' \in [Processes -> Task] /\ session'[h] = Idle
       /\ \A q \in Processes : q # h => session'[q] = session[q]
  BY <1>1, <1>5, <1>6, WorkFacts DEF RestInv
<1>11. \A p \in Processes : session'[p].op # "idle" => p # h /\ session'[p] = session[p] /\ session[p].key \in Delivered
  BY <1>5, <1>10, TaskFacts DEF RestInv
<1>12. /\ deliveries' \in [Notifications -> DeliveryTables] /\ Delivered' = Delivered
       /\ RowAfter(k) = row \/ (~applies /\ RowAfter(k) = RowOf(k))
       /\ \A j \in Delivered : j # k => RowAfter(j) = RowOf(j)
  <2>1. CASE SetRow(k, row)
    BY <1>2, <1>4, <2>1, SetRowFacts DEF RestInv
  <2>2. CASE ~applies /\ deliveries' = deliveries
    BY <2>2 DEF RestInv, TaskInv, Delivered, RowAfter, RowOf
  <2> QED BY <1>7, <2>1, <2>2
<1>13. TaskInv'
  <2>1. \A p \in Processes : session'[p] # Idle => session'[p].key \in Delivered'
    BY <1>10, <1>12 DEF RestInv, TaskInv
  <2> QED BY <1>6, <1>10, <1>12, <2>1 DEF RestInv, TaskInv
<1>14. ProviderInv'
  <2>1. /\ linked' \in [Keys -> SUBSET Nat] /\ applied' \in [Keys -> SUBSET Nat]
        /\ \A j \in Keys : applied'[j] \subseteq linked'[j] /\ linked'[j] \subseteq DOMAIN reports[j]
    <3>1. /\ linked \in [Keys -> SUBSET Nat] /\ applied \in [Keys -> SUBSET Nat]
          /\ \A j \in Keys : applied[j] \subseteq linked[j] /\ linked[j] \subseteq DOMAIN reports[j]
      BY DEF RestInv, ProviderInv
    <3>2. linked' \in [Keys -> SUBSET Nat] /\ applied' \in [Keys -> SUBSET Nat]
      BY <1>2, <1>8, <3>1
    <3>3. ASSUME NEW j \in Keys
          PROVE  /\ linked'[j] = linked[j] \/ (j = k /\ linked'[j] = linked[j] \cup {task.report})
                 /\ applied'[j] = applied[j]
                    \/ (j = k /\ applied'[j] = applied[j] \cup {task.report}
                        /\ linked'[j] = linked[j] \cup {task.report})
      BY <1>2, <1>8, <3>1
    <3> QED BY <1>2, <3>1, <3>2, <3>3
  <2> QED BY <1>6, <1>11, <2>1 DEF RestInv, ProviderInv
<1>15. AcceptedInv'
  <2>1. sent[k] > 0
    BY <1>2 DEF RestInv, AcceptedInv
  <2>2. \A j \in Delivered : RowAfter(j).status \in Successes => sent[j] > 0
    BY <1>12, <2>1 DEF RestInv, AcceptedInv, SuccessWasAccepted
  <2> QED BY <1>6, <1>11, <1>12, <2>2 DEF RestInv, AcceptedInv, SuccessWasAccepted, RowAfter, RowOf
<1>16. CallInv(k, task.report) /\ RowInv(k)
  BY <1>1, <1>2 DEF RestInv, ClaimInv
\* A failure that is applied is that of the message of the row, which is free.
<1>17. ASSUME applies, new = "FAILED"
       PROVE  reports[k][task.report].message = RowOf(k).message /\ RowOf(k).claim = NoClaim
  <2>1. task.report \notin linked[k] /\ reports[k][task.report].kind = "FAILED"
    BY <1>17 DEF applies, new
  <2>2. reports[k][task.report].message = RowOf(k).message /\ RowOf(k).message # NoMessage
    BY <1>16, <2>1 DEF CallInv
  <2>3. ASSUME RowOf(k).claim # NoClaim PROVE FALSE
    <3>1. FailureApplied(k, RowOf(k).message)
      BY <1>16, <2>2, <2>3 DEF RowInv
    <3>2. PICK f \in applied[k] : /\ f \in DOMAIN reports[k] /\ f \in linked[k]
                                  /\ reports[k][f].kind = "FAILED"
                                  /\ reports[k][f].message = RowOf(k).message
      BY <1>2, <3>1, FailureAppliedFacts DEF RestInv
    <3> QED BY <1>2, <2>1, <2>2, <3>2, FailureIsLast DEF RestInv
  <2> QED BY <2>2, <2>3
<1>18. /\ applied' = applied \/ (applies /\ applied' = [applied EXCEPT ![k] = @ \cup {task.report}])
       /\ applies => applied' = [applied EXCEPT ![k] = @ \cup {task.report}]
  BY Zenon DEF CommitHook, hooked, applies
<1>19. \A j \in Keys : applied[j] \subseteq applied'[j] /\ linked[j] \subseteq linked'[j]
  <2> SUFFICES ASSUME NEW j \in Keys PROVE applied[j] \subseteq applied'[j] /\ linked[j] \subseteq linked'[j]
    OBVIOUS
  <2>1. linked[j] \subseteq linked'[j]
    BY <1>8 DEF RestInv, ProviderInv
  <2>2. applied[j] \subseteq applied'[j]
    <3>1. applied \in [Keys -> SUBSET Nat]
      BY DEF RestInv, ProviderInv
    <3>2. CASE applied' = applied
      BY <3>2
    <3>3. CASE applied' = [applied EXCEPT ![k] = @ \cup {task.report}]
      BY <3>1, <3>3
    <3> QED BY <1>18, <3>2, <3>3
  <2> QED BY <2>1, <2>2
<1>20. applied \in [Keys -> SUBSET Nat] /\ \A j \in Keys : j # k => applied'[j] = applied[j]
  BY <1>18 DEF RestInv, ProviderInv
<1>21. applies => applied'[k] = applied[k] \cup {task.report} /\ task.report \notin applied[k]
  <2>1. applies => task.report \notin linked[k]
    BY DEF applies
  <2> QED BY <1>2, <1>18, <1>20, <2>1 DEF RestInv, ProviderInv
<1>22. LastInv' /\ ClaimInv'
  <2>1. LastInv'
    BY <1>6 DEF RestInv, LastInv
  <2>2. ASSUME NEW j \in Delivered PROVE RowInv(j)'
    <3> DEFINE Failed(message) ==
          \E f \in applied'[j] : reports[j][f].kind = "FAILED" /\ reports[j][f].message = message
    <3>0. /\ RowInv(j) /\ j \in Keys
          /\ \A message : FailureApplied(j, message) => Failed(message)
      BY <1>19 DEF RestInv, ClaimInv, Delivered, FailureApplied
    <3> HIDE DEF Failed
    <3> SUFFICES /\ RowAfter(j).status \in Successes => RowAfter(j).message # NoMessage
                 /\ RowAfter(j).claim # NoClaim => RowAfter(j).status \in Successes \cup {"SENDING"}
                 /\ RowAfter(j).message # NoMessage
                      /\ (RowAfter(j).status \notin Successes \/ RowAfter(j).claim # NoClaim) =>
                      Failed(RowAfter(j).message)
      BY <1>6 DEF RowInv, RowAfter, RowOf, FailureApplied, Failed
    <3>1. CASE RowAfter(j) = RowOf(j)
      BY <3>0, <3>1 DEF RowInv
    <3>2. CASE j = k /\ applies /\ RowAfter(k) = row
      <4>1. row.message # NoMessage
        BY <1>4, <1>16 DEF CallInv
      <4>2. CASE new \in Successes
        <5>1. row.claim # NoClaim => Failed(row.message)
          BY <1>4, <3>0, <3>2, <4>1 DEF RowInv
        <5> QED BY <1>4, <3>2, <4>1, <4>2, <5>1
      <4>3. CASE new = "FAILED"
        <5>1. reports[k][task.report].kind = "FAILED" /\ reports[k][task.report].message = row.message
          BY <1>4, <1>17, <3>2, <4>3 DEF new
        <5>2. task.report \in applied'[k]
          BY <1>21, <3>2
        <5>3. Failed(row.message)
          BY <3>2, <5>1, <5>2 DEF Failed
        <5>4. row.claim = NoClaim
          BY <1>4, <1>17, <3>2, <4>3
        <5>5. "FAILED" \notin Successes
          BY DEF Successes
        <5> QED BY <1>4, <3>2, <4>1, <4>3, <5>3, <5>4, <5>5
      <4> QED BY <1>3, <4>2, <4>3
    <3> QED BY <1>7, <1>12, <3>1, <3>2 DEF RowAfter, RowOf
  <2>3. ASSUME NEW p \in Processes, session'[p].op = "hook"
        PROVE  CallInv(session[p].key, session[p].report)'
    <3>1. session'[p] = session[p] /\ session[p].key \in Delivered /\ session[p].key \in Keys
      BY <1>11, <2>3 DEF Delivered
    <3>2. CallInv(session[p].key, session[p].report)
      BY <2>3, <3>1 DEF RestInv, ClaimInv
    <3>3. RowAfter(session[p].key).message = RowOf(session[p].key).message
      BY <1>4, <1>12, <3>1
    <3> QED BY <1>6, <1>19, <3>1, <3>2, <3>3 DEF CallInv, RowAfter, RowOf
  <2>4. ClaimInv'
    BY <1>12, <2>2, <2>3 DEF ClaimInv
  <2> QED BY <2>1, <2>4
<1>23. \A w \in Workers : /\ (session'[w].op \in {"calling", "recording"}) = (session[w].op \in {"calling", "recording"})
                          /\ session'[w].op \in {"calling", "recording"} => session'[w] = session[w]
  BY <1>1, <1>5, <1>10 DEF Processes
<1>24. HolderInv'
  <2> DEFINE WorkingAfter(v) == session'[v].op \in {"calling", "recording"}
  <2>0. \A v \in Workers : /\ WorkingAfter(v) <=> Working(v)
                           /\ Working(v) => session'[v] = session[v]
    BY <1>23 DEF Working
  <2> SUFFICES ASSUME Punctual'
      PROVE  /\ \A v \in Workers : WorkingAfter(v) => RowAfter(session'[v].key).claim = session'[v].attempt
             /\ \A u, v \in Workers :
                  WorkingAfter(u) /\ WorkingAfter(v) /\ session'[u].key = session'[v].key => u = v
             /\ \A j \in Delivered' : RowAfter(j).status = "SENDING" =>
                  \E v \in Workers : WorkingAfter(v) /\ session'[v].key = j
    BY DEF HolderInv, RowAfter, RowOf, Working
  <2> HIDE DEF WorkingAfter
  <2>1. HolderInv /\ Punctual
    BY <1>6 DEF RestInv, Punctual
  <2>2. \A w \in Workers : Working(w) => session[w].key \in Delivered
    BY TaskFacts DEF RestInv, Working, Processes
  <2>3. \A j \in Delivered : RowAfter(j).claim = RowOf(j).claim
    BY <1>4, <1>12
  <2>4. \A w \in Workers : Working(w) => RowAfter(session[w].key).claim = session[w].attempt
    BY <2>1, <2>2, <2>3 DEF HolderInv
  <2>5. new # "SENDING"
    BY <1>3 DEF Successes
  <2>6. \A j \in Delivered : RowAfter(j).status = "SENDING" => RowOf(j).status = "SENDING"
    BY <1>4, <1>12, <2>5
  <2> QED BY <1>12, <2>0, <2>1, <2>4, <2>6 DEF HolderInv
<1>25. CountInv'
  <2> SUFFICES ASSUME Punctual'
      PROVE  /\ \A j \in Delivered' :
                  /\ sent[j] <= 1 + AllowedAfter(j)
                  /\ RowAfter(j).status \in {"QUEUED", "FAILED", "CANCELLED"} => sent[j] <= AllowedAfter(j)
             /\ \A v \in Workers :
                  \/ session'[v].op = "calling"
                  \/ session'[v].op = "recording" /\ session'[v].outcome = "REJECTED"
                  => sent[session'[v].key] <= AllowedAfter(session'[v].key)
    BY <1>6 DEF CountInv, RowAfter, RowOf, Allowed, AllowedAfter, FailuresReported
  <2>1. CountInv /\ Punctual
    BY <1>6 DEF RestInv, Punctual
  <2>2. ASSUME NEW j \in Keys
        PROVE  /\ sent[j] \in Nat /\ Allowed(j) \in Nat /\ AllowedAfter(j) \in Nat
               /\ AllowedAfter(j) >= Allowed(j)
               /\ j = k /\ applies /\ new = "FAILED" => AllowedAfter(j) = Allowed(j) + 1
    <3> DEFINE after == {e \in applied'[j] : reports'[j][e].kind = "FAILED"}
    <3>1. /\ IsFiniteSet(FailuresOf(j)) /\ FailuresOf(j) \subseteq applied[j]
          /\ Cardinality(FailuresOf(j)) \in Nat /\ FailuresReported(j) = Cardinality(FailuresOf(j))
      BY FailuresAreFinite DEF RestInv
    <3>2. sent[j] \in Nat /\ confirmed[j] \in Nat /\ Allowed(j) \in Nat
      BY AllowedFacts DEF RestInv
    <3>3. Allowed(j) = confirmed[j] + Cardinality(FailuresOf(j)) /\ AllowedAfter(j) = confirmed[j] + Cardinality(after)
      BY <1>6, <3>1 DEF Allowed, AllowedAfter
    <3>4. CASE j = k /\ applies /\ new = "FAILED"
      <4>1. reports[k][task.report].kind = "FAILED"
        BY <3>4 DEF new
      <4>2. after = FailuresOf(j) \cup {task.report} /\ task.report \notin FailuresOf(j)
        BY <1>6, <1>21, <3>4, <4>1 DEF FailuresOf
      <4>3. Cardinality(after) = Cardinality(FailuresOf(j)) + 1
        BY <3>1, <4>2, FS_AddElement
      <4> HIDE DEF after
      <4> QED BY <3>1, <3>2, <3>3, <4>3
    <3>5. CASE ~(j = k /\ applies /\ new = "FAILED")
      <4>1. after = FailuresOf(j)
        <5>1. CASE j = k /\ applies
          <6>1. reports[k][task.report].kind # "FAILED"
            BY <3>5, <5>1 DEF new
          <6> QED BY <1>6, <1>21, <5>1, <6>1 DEF FailuresOf
        <5>2. CASE ~(j = k /\ applies)
          BY <1>6, <1>18, <1>20, <5>2 DEF FailuresOf
        <5> QED BY <5>1, <5>2
      <4> HIDE DEF after
      <4> QED BY <3>1, <3>2, <3>3, <3>5, <4>1
    <3> QED BY <3>4, <3>5
  <2>3. ASSUME NEW j \in Delivered
        PROVE  /\ sent[j] <= 1 + AllowedAfter(j)
               /\ RowAfter(j).status \in {"QUEUED", "FAILED", "CANCELLED"} => sent[j] <= AllowedAfter(j)
    <3>1. j \in Keys /\ sent[j] <= 1 + Allowed(j)
      BY <2>1 DEF CountInv, Delivered
    <3>2. CASE RowAfter(j) = RowOf(j)
      BY <2>1, <2>2, <3>1, <3>2 DEF CountInv
    <3>3. CASE j = k /\ applies /\ RowAfter(k) = row
      <4>1. RowAfter(k).status \in {"QUEUED", "FAILED", "CANCELLED"} => new = "FAILED"
        BY <1>3, <1>4, <3>3 DEF Successes
      <4> QED BY <2>2, <3>1, <3>3, <4>1
    <3> QED BY <1>7, <1>12, <3>2, <3>3 DEF RowAfter, RowOf
  <2>4. ASSUME NEW v \in Workers,
               \/ session'[v].op = "calling"
               \/ session'[v].op = "recording" /\ session'[v].outcome = "REJECTED"
        PROVE  sent[session'[v].key] <= AllowedAfter(session'[v].key)
    <3>1. session'[v] = session[v] /\ session[v].key \in Keys
      BY <1>11, <2>4 DEF Processes, Delivered
    <3>2. sent[session[v].key] <= Allowed(session[v].key)
      BY <2>1, <2>4, <3>1 DEF CountInv
    <3> QED BY <2>2, <3>1, <3>2
  <2> QED BY <1>12, <2>3, <2>4
\* What the only call applies is news of a success nobody works on.
<1>26. ASSUME OneHook, applies
       PROVE  /\ RowOf(k).status \in Successes /\ RowOf(k).claim = NoClaim
              /\ task.seen[k[2]] = RowOf(k).status
  BY <1>1, <1>26, AppliedToSuccess DEF applies
<1>27. ASSUME OneHook PROVE StrictInv' /\ SeenInv'
  <2>1. \A g \in Hooks : session'[g].op = "idle"
    BY <1>5, <1>10, <1>27 DEF OneHook
  <2>2. StrictInv
    BY <1>27 DEF RestInv
  <2>3. \A j \in Delivered : RowAfter(j).claim # NoClaim => RowAfter(j).status = "SENDING"
    <3> SUFFICES ASSUME NEW j \in Delivered, RowAfter(j).claim # NoClaim PROVE RowAfter(j).status = "SENDING"
      OBVIOUS
    <3>1. CASE RowAfter(j) = RowOf(j)
      BY <2>2, <3>1 DEF StrictInv
    <3>2. CASE j = k /\ applies /\ RowAfter(k) = row
      BY <1>4, <1>26, <1>27, <3>2
    <3> QED BY <1>7, <1>12, <3>1, <3>2 DEF RowAfter, RowOf
  <2>4. StrictInv'
    BY <1>12, <2>3 DEF StrictInv, RowAfter, RowOf
  <2> QED BY <2>1, <2>4 DEF SeenInv
<1>28. ASSUME NoFailureReports \/ OneHook, applies
       PROVE  RowOf(k).status \in Successes
  BY <1>1, <1>28, AppliedToSuccess DEF applies
<1>29. RowsMove
  <2>1. \A x \in Final : Rank(x) >= Rank(x)
    BY DEF Final, Rank
  <2>2. \A x \in Successes \cup {"FAILED"} : x \notin Claimable
    BY DEF Successes, Claimable
  <2>3. "CANCELLED" \notin Successes
    BY DEF Successes
  <2>4. ASSUME NEW j \in Delivered PROVE RowAfter(j) = RowOf(j) \/ (j = k /\ applies /\ RowAfter(j).status = new)
    BY <1>4, <1>7, <1>12, <2>4 DEF RowAfter, RowOf
  <2>5. ASSUME NoFailureReports \/ OneHook, NEW j \in Delivered
        PROVE  /\ RowOf(j).status \in Successes => RowAfter(j).status \notin Claimable
               /\ RowOf(j).status = "CANCELLED" => RowAfter(j).status = "CANCELLED"
    BY <1>3, <1>28, <2>2, <2>3, <2>4, <2>5
  <2>6. ASSUME OneHook, NEW j \in Delivered, RowOf(j).status \in Final
        PROVE  Rank(RowAfter(j).status) >= Rank(RowOf(j).status)
    <3>1. CASE RowAfter(j) = RowOf(j)
      BY <2>1, <2>6, <3>1
    <3>2. CASE j = k /\ applies /\ RowAfter(j).status = new
      BY <1>9, <1>26, <2>6, <3>2
    <3> QED BY <2>4, <3>1, <3>2
  <2> QED BY <1>6, <1>12, <2>5, <2>6 DEF RowsMove
<1> QED BY <1>13, <1>14, <1>15, <1>22, <1>24, <1>25, <1>27, <1>29 DEF RestInv, OneHook
-----------------------------------------------------------------------------
(***************************************************************************)
(* The invariant, and what follows from it.                                *)
(***************************************************************************)
LEMMA MailInit ==
  ASSUME Init
  PROVE  MailInv
<1> USE NaturalsAssumption
<1>1. Delivered = {}
  <2>1. \A n \in Notifications : DOMAIN deliveries[n] = {}
    BY DEF Init
  <2> QED BY <2>1 DEF Delivered, Keys
<1>2. \A p \in Processes : session[p] = Idle
  BY DEF Init, Processes
<1>3. NoteInv
  BY DEF Init, NoteInv, Notifications, Sources, Versions, Reasons
<1>4. TaskInv
  <2>1. << >> \in DeliveryTables
    <3>1. << >> \in [1..0 -> Row]
      OBVIOUS
    <3> QED BY <3>1 DEF DeliveryTables
  <2>2. deliveries \in [Notifications -> DeliveryTables]
    BY <2>1 DEF Init
  <2>3. session \in [Processes -> Task] /\ \A p \in Processes : session[p] # Idle => session[p].key \in Delivered
    BY <1>2 DEF Init, Task, Idle, Processes
  <2> QED BY <2>2, <2>3 DEF Init, TaskInv
<1>5. ProviderInv
  <2>1. \A k \in Keys : reports[k] = << >> /\ linked[k] = {} /\ applied[k] = {}
    BY DEF Init
  <2>2. \A p \in Processes : session[p].op # "hook"
    BY <1>2 DEF Idle
  <2> QED BY <2>1, <2>2 DEF Init, ProviderInv
<1>6. AcceptedInv
  BY <1>1, <1>2 DEF Init, AcceptedInv, SuccessWasAccepted, Idle
<1>7. LastInv
  <2>1. \A k \in Keys : DOMAIN reports[k] = {}
    BY DEF Init
  <2> QED BY <2>1 DEF LastInv
<1>8. \A p \in Processes : session[p].op = "idle"
  BY <1>2 DEF Idle
<1>9. ClaimInv /\ HolderInv /\ CountInv /\ StrictInv /\ SeenInv
  BY <1>1, <1>8 DEF ClaimInv, HolderInv, CountInv, StrictInv, SeenInv, Working, Processes
<1> QED BY <1>3, <1>4, <1>5, <1>6, <1>7, <1>9 DEF MailInv, RestInv

LEMMA MailStep ==
  ASSUME MailInv, [Next]_vars
  PROVE  MailInv' /\ RowsMove
<1>1. NoteInv /\ RestInv /\ NoteInv'
  BY NoteStep DEF MailInv
<1>2. ASSUME Administered PROVE RestInv' /\ RowsMove
  BY <1>1, <1>2, AdministeredStep
<1>3. ASSUME Business \/ Preview \/ (\E n \in Notifications, c \in Corrections : CreateCorrection(n, c))
             \/ UNCHANGED vars
      PROVE  RestInv' /\ RowsMove
  <2>1. UNCHANGED <<deliveries, session, provider, hooked, confirmed, used>>
    BY <1>3 DEF Business, Publish, Remove, Drift, ChangeAddresses, Preview, CreateCorrection, vars
  <2> QED BY <1>1, <1>2, <2>1, QuietIsAdministered
<1>4. ASSUME NEW n \in Notifications, NEW mode \in Modes, Approve(n, mode) PROVE RestInv' /\ RowsMove
  BY <1>1, <1>2, <1>4, ApproveIsAdministered
<1>5. ASSUME NEW n \in Notifications, Cancel(n) PROVE RestInv' /\ RowsMove
  BY <1>1, <1>2, <1>5, CancelIsAdministered
<1>6. ASSUME NEW n \in Notifications, NEW confirm \in BOOLEAN, Retry(n, confirm)
      PROVE  RestInv' /\ RowsMove
  BY <1>1, <1>2, <1>6, RetryIsAdministered
<1>7. ASSUME NEW w \in Workers, NEW k \in Keys, Claim(w, k) PROVE RestInv' /\ RowsMove
  BY <1>1, <1>7, ClaimStep
<1>8. ASSUME NEW w \in Workers, Call(w) \/ RecordFails(w) PROVE RestInv' /\ RowsMove
  <2>1. PICK outcome, message : AnswerComes(w, outcome, message)
    BY <1>1, <1>8, CallIsAnswered
  <2> QED BY <1>1, <2>1, AnswerStep
<1>9. ASSUME NEW w \in Workers, Record(w) PROVE RestInv' /\ RowsMove
  BY <1>1, <1>9, RecordStep
<1>10. ASSUME NEW w \in Workers, Crash(w) PROVE RestInv' /\ RowsMove
  BY <1>1, <1>10, CrashStep
<1>11. ASSUME NEW k \in Keys, KeyLapses(k) PROVE RestInv' /\ RowsMove
  BY <1>1, <1>11, KeyLapsesStep
<1>12. ASSUME NEW k \in Keys, NEW kind \in Reports, ProviderReports(k, kind) PROVE RestInv' /\ RowsMove
  BY <1>1, <1>12, ReportStep
<1>13. ASSUME NEW h \in Hooks, CommitHook(h) PROVE RestInv' /\ RowsMove
  BY <1>1, <1>13, CommitHookStep
<1>14. ASSUME NEW h \in Hooks, NEW k \in Keys, NEW e \in 1..MaxReports, BeginHook(h, k, e)
       PROVE  RestInv' /\ RowsMove
  BY <1>1, <1>14, BeginHookStep
<1>15. RestInv' /\ RowsMove
  BY <1>3, <1>4, <1>5, <1>6, <1>7, <1>8, <1>9, <1>10, <1>11, <1>12, <1>13, <1>14
     DEF Next, Administration, Dispatch, Claims, Webhooks
<1> QED BY <1>1, <1>15 DEF MailInv

LEMMA MailInvariant == Spec => []MailInv
<1>1. Init => MailInv
  BY MailInit
<1>2. MailInv /\ [Next]_vars => MailInv'
  BY MailStep
<1> QED BY <1>1, <1>2, PTL DEF Spec

\* Every column, every row and every task holds a value of its type, for every
\* number of corrections, dispatches, webhook calls and recipients.
THEOREM TypeCorrect == Spec => []TypeOK
<1>1. MailInv => TypeOK
  <2> SUFFICES ASSUME MailInv PROVE TypeOK
    OBVIOUS
  <2>1. NoteInv /\ TaskInv /\ ProviderInv
    BY DEF MailInv, RestInv
  <2>2. ASSUME NEW n \in Notifications
        PROVE  /\ Len(deliveries[n]) <= MaxRecipients
               /\ \A i \in DOMAIN deliveries[n] : deliveries[n][i] \in Row
    <3>1. PICK m \in 0..MaxRecipients : deliveries[n] \in [1..m -> Row]
      BY <2>1, TableFacts
    <3>2. Len(deliveries[n]) = m
      BY <3>1, NaturalsAssumption
    <3> QED BY <3>1, <3>2, NaturalsAssumption
  <2> QED BY <2>1, <2>2 DEF TypeOK, NoteInv, TaskInv, ProviderInv, Processes
<1> QED BY <1>1, MailInvariant, PTL

\* A delivery recorded as sent, delivered, delayed, bounced, complained of or
\* suppressed was accepted by the provider, whatever crashes, ended leases,
\* lost answers and reports came in between (finishAccepted, finishFailure,
\* applyStoredWebhookEvent).
THEOREM SuccessWasAcceptedAlways == Spec => []SuccessWasAccepted
<1>1. MailInv => SuccessWasAccepted
  BY DEF MailInv, RestInv, AcceptedInv
<1> QED BY <1>1, MailInvariant, PTL

\* An original is approved with the content that its event has at that moment
\* (refreshNotificationSource in approveEmailNotification).
THEOREM ApprovedIsCurrentAlways == Spec => ApprovedIsCurrent
<1>1. MailInv /\ [Next]_vars =>
        [\A i \in 1..MaxRecipients :
           <<Original, i>> \in Delivered' \ Delivered =>
             deliveries'[Original][i].content = version]_vars
  <2> SUFFICES ASSUME MailInv, [Next]_vars
      PROVE  \A i \in 1..MaxRecipients :
               <<Original, i>> \in Delivered' \ Delivered =>
                 deliveries'[Original][i].content = version
    OBVIOUS
  <2> QED BY MailStep DEF RowsMove, RowAfter
<1> QED BY <1>1, MailInvariant, PTL DEF Spec, ApprovedIsCurrent

\* As long as no dispatch dies and no lease ends early, the provider has accepted
\* no more e-mails under a key than the first one, those an administrator
\* confirmed and one for each it reported as failed, whichever reports it makes,
\* however many calls are handled at once, and even if it forgets the key
\* (claimDelivery, finishFailure, retryEmailNotification, applyStoredWebhookEvent).
THEOREM NoUnconfirmedDuplicateAlways == Spec => []NoUnconfirmedDuplicate
<1>1. MailInv => NoUnconfirmedDuplicate
  <2> SUFFICES ASSUME MailInv, Punctual, NEW k \in Keys
               PROVE  sent[k] <= 1 + confirmed[k] + FailuresReported(k)
    BY DEF NoUnconfirmedDuplicate
  <2>1. /\ confirmed[k] \in Nat /\ FailuresReported(k) \in Nat
        /\ Allowed(k) = confirmed[k] + FailuresReported(k)
    BY FailuresAreFinite DEF MailInv, RestInv, TaskInv, Allowed
  <2>2. k \in Delivered => sent[k] <= 1 + Allowed(k)
    BY DEF MailInv, RestInv, CountInv
  <2>3. k \notin Delivered => sent[k] = 0
    BY DEF MailInv, RestInv, AcceptedInv
  <2>4. sent[k] \in Nat
    BY DEF MailInv, RestInv, ProviderInv
  <2> QED BY <2>1, <2>2, <2>3, <2>4
<1> QED BY <1>1, MailInvariant, PTL

\* If the provider reports no failure of what it accepted, or its calls are handled
\* one at a time: a delivery it accepted is never queued or claimed again before
\* it is reported as failed, whoever retries, and whichever claims and reports are
\* late (finishFailure compares the claim token, retryEmailNotification selects
\* FAILED).
THEOREM SuccessIsNotRepeatedAlways ==
  NoFailureReports \/ OneHook => (Spec => SuccessIsNotRepeated)
<1> SUFFICES ASSUME NoFailureReports \/ OneHook PROVE Spec => SuccessIsNotRepeated
  OBVIOUS
<1>1. MailInv /\ [Next]_vars =>
        [\A k \in Delivered :
           RowOf(k).status \in Successes => RowOf(k)'.status \notin Claimable]_vars
  <2> SUFFICES ASSUME MailInv, [Next]_vars
      PROVE  \A k \in Delivered :
               RowOf(k).status \in Successes => RowOf(k)'.status \notin Claimable
    OBVIOUS
  <2> QED BY MailStep DEF RowsMove, RowAfter, RowOf
<1> QED BY <1>1, MailInvariant, PTL DEF Spec, SuccessIsNotRepeated

\* If the provider reports no failure of what it accepted, or its calls are handled
\* one at a time: while no dispatch dies and no lease ends early, a cancelled
\* delivery stays cancelled, and no e-mail goes out for it any more
\* (cancelEmailNotification counts the rows it cancels, applyStoredWebhookEvent
\* asks for the order of the reports and for their rank).
THEOREM CancelledIsNotSentAlways ==
  NoFailureReports \/ OneHook => (Spec => CancelledIsNotSent)
<1> SUFFICES ASSUME NoFailureReports \/ OneHook PROVE Spec => CancelledIsNotSent
  OBVIOUS
<1>1. MailInv /\ [Next]_vars =>
        [\A k \in Delivered : Punctual /\ RowOf(k).status = "CANCELLED" =>
           RowOf(k)'.status = "CANCELLED" /\ sent'[k] = sent[k]]_vars
  <2> SUFFICES ASSUME MailInv, [Next]_vars
      PROVE  \A k \in Delivered : Punctual /\ RowOf(k).status = "CANCELLED" =>
               RowOf(k)'.status = "CANCELLED" /\ sent'[k] = sent[k]
    OBVIOUS
  <2> QED BY MailStep DEF RowsMove, RowAfter, RowOf
<1> QED BY <1>1, MailInvariant, PTL DEF Spec, CancelledIsNotSent

\* If the calls of the provider are handled one at a time: what it finally
\* reported of a delivery is not taken back by a report that arrives later
\* (applyStoredWebhookEvent).  Two calls at a time refute this
\* (email_late_report.cfg).
THEOREM FinalIsNotTakenBackAlways == OneHook => (Spec => FinalIsNotTakenBack)
<1> SUFFICES ASSUME OneHook PROVE Spec => FinalIsNotTakenBack
  OBVIOUS
<1>1. MailInv /\ [Next]_vars =>
        [\A k \in Delivered :
           RowOf(k).status \in Final => Rank(RowOf(k)'.status) >= Rank(RowOf(k).status)]_vars
  <2> SUFFICES ASSUME MailInv, [Next]_vars
      PROVE  \A k \in Delivered :
               RowOf(k).status \in Final => Rank(RowOf(k)'.status) >= Rank(RowOf(k).status)
    OBVIOUS
  <2> QED BY MailStep DEF RowsMove, RowAfter, RowOf
<1> QED BY <1>1, MailInvariant, PTL DEF Spec, FinalIsNotTakenBack
-----------------------------------------------------------------------------
(***************************************************************************)
(* One delivery per notification, which is what every setting but SEPARATE *)
(* gives, and SEPARATE for a customer with one address.                    *)
(***************************************************************************)
\* A transaction that read the deliveries has read the one it works on.
ReadInv ==
  \A p \in Processes : session[p].op \in {"recording", "hook"} =>
    session[p].key[2] \in DOMAIN session[p].seen

\* The status of a notification is that of its delivery, unless overridden.
SoleInv ==
  /\ \A n \in Notifications : status[n] \notin Overrides \cup Editable \cup {"None"} =>
       <<n, 1>> \in Delivered /\ status[n] = RowOf(<<n, 1>>).status
  /\ \A k \in Delivered : status[k[1]] # "None"

\* Without retries, nothing is on its way, or has arrived, of a notification that
\* is cancelled or can be edited again.
HiddenInv ==
  /\ ChangeIsNotHidden
  /\ \A k \in Delivered : status[k[1]] \in Editable \cup {"CANCELLED"} =>
       RowOf(k).status \in {"QUEUED", "FAILED", "CANCELLED"}

\* What one step does to a notification and its delivery.
Sent(k) == NoFailureReports \/ OneHook => RowOf(k).status \in Successes \cup {"SENDING"}

RowKept(k) ==
  /\ (k \in Delivered') = (k \in Delivered)
  /\ k \in Delivered => RowAfter(k) = RowOf(k)

Stays(n) ==
  RowKept(<<n, 1>>) /\ status'[n] = status[n] /\ snapshot'[n] = snapshot[n]

Reopened(n) ==
  RowKept(<<n, 1>>) /\ status[n] \in Editable \cup {"CANCELLED", "None"} /\ status'[n] \in Editable

TakenBack(n) ==
  /\ RowKept(<<n, 1>>) /\ status[n] # "None"
  /\ \/ status'[n] = "NEEDS_CORRECTION"
     \/ status'[n] = "CANCELLED" /\ status[n] \notin PossiblySent

Follow(n) ==
  LET k == <<n, 1>> IN
  /\ k \in Delivered /\ k \in Delivered' /\ RowAfter(k).content = RowOf(k).content
  /\ status'[n] = RowAfter(k).status /\ snapshot'[n] = snapshot[n]
  /\ MaxRetries = 0 => status[n] \in Claimable \/ (status[n] \notin Overrides /\ Sent(k))

Withheld(n) ==
  LET k == <<n, 1>> IN
  /\ k \in Delivered /\ k \in Delivered'
  /\ status'[n] = status[n] /\ status[n] \in Overrides /\ Sent(k)

ApprovedNow(n) ==
  LET k == <<n, 1>> IN
  /\ k \in Delivered' /\ status'[n] = "QUEUED" /\ RowAfter(k).status = "QUEUED"
  /\ RowAfter(k).content = snapshot'[n]

CancelledNow(n) ==
  LET k == <<n, 1>> IN
  status'[n] = "CANCELLED" /\ (k \in Delivered' => RowAfter(k).status = "CANCELLED")

Moves(n) ==
  \/ Stays(n) \/ Reopened(n) \/ TakenBack(n)
  \/ Follow(n) \/ Withheld(n)
  \/ ApprovedNow(n) \/ CancelledNow(n)

LEMMA DerivedOfOne ==
  ASSUME NEW s \in DeliveryStatuses
  PROVE  Derived({s}) = s
<1> DEFINE deciding == {p \in DOMAIN Precedence : Precedence[p] \in {s}}
           first    == CHOOSE p \in deciding : \A q \in deciding : p <= q
<1>1. /\ DOMAIN Precedence = 1..6
      /\ Precedence[1] = "DELIVERY_UNCERTAIN" /\ Precedence[2] = "SENDING" /\ Precedence[3] = "QUEUED"
      /\ Precedence[4] = "COMPLAINED" /\ Precedence[5] = "BOUNCED" /\ Precedence[6] = "SUPPRESSED"
  BY DEF Precedence
<1>2. ASSUME NEW p \in 1..6, Precedence[p] = s PROVE Derived({s}) = s
  <2>1. deciding = {p}
    BY <1>1, <1>2
  <2>2. first = p
    BY <2>1
  <2>3. Derived({s}) = Precedence[first]
    BY <2>1 DEF Derived
  <2> QED BY <1>2, <2>2, <2>3
<1>3. CASE s \in {"DELIVERY_UNCERTAIN", "SENDING", "QUEUED", "COMPLAINED", "BOUNCED", "SUPPRESSED"}
  BY <1>1, <1>2, <1>3
<1>4. CASE s \in {"SENT", "DELIVERED", "DELIVERY_DELAYED", "FAILED", "CANCELLED"}
  <2>1. deciding = {}
    BY <1>1, <1>4
  <2>2. "FAILED" \in {s} => {s} \cap Successes = {}
    BY DEF Successes
  <2> QED BY <1>4, <2>1, <2>2 DEF Derived
<1> QED BY <1>3, <1>4 DEF DeliveryStatuses

LEMMA RefreshedBySole ==
  ASSUME NEW n \in Notifications, NEW new \in DeliveryStatuses, NEW seen \in Statuses,
         1 \in DOMAIN seen, MaxRecipients = 1
  PROVE  Refreshed(n, 1, seen, new) =
           IF status[n] \in Overrides THEN status ELSE [status EXCEPT ![n] = new]
<1>1. DOMAIN seen = {1}
  BY DEF Statuses
<1>2. {IF j = 1 THEN new ELSE seen[j] : j \in DOMAIN seen} = {new}
  BY <1>1
<1> QED BY <1>2, DerivedOfOne DEF Refreshed

LEMMA ReadStep ==
  ASSUME MailInv, ReadInv, [Next]_vars
  PROVE  ReadInv'
<1>1. TaskInv
  BY DEF MailInv, RestInv
<1>2. ASSUME NEW p \in Processes, NEW task, Work(p, task),
             task.op \in {"recording", "hook"} => task.key[2] \in DOMAIN task.seen
      PROVE  ReadInv'
  BY <1>1, <1>2 DEF ReadInv, TaskInv, Work
<1>3. ASSUME session' = session PROVE ReadInv'
  BY <1>3 DEF ReadInv
<1>4. \A k \in Delivered : k[2] \in DOMAIN StatusesOf(k[1])
  BY DEF Delivered, StatusesOf
<1>5. ASSUME NEW w \in Workers, Call(w) \/ RecordFails(w) PROVE ReadInv'
  <2>1. PICK outcome, message : AnswerComes(w, outcome, message)
    BY <1>5, CallIsAnswered DEF MailInv
  <2>2. session[w].key \in Delivered
    BY <1>1, <2>1, TaskFacts DEF AnswerComes, Processes
  <2> QED BY <1>2, <1>4, <2>1, <2>2 DEF AnswerComes, Answered, Processes
<1>6. ASSUME NEW h \in Hooks, NEW k \in Keys, NEW e \in 1..MaxReports, BeginHook(h, k, e) PROVE ReadInv'
  BY <1>2, <1>4, <1>6 DEF BeginHook, Processes
<1>7. ASSUME NEW w \in Workers, NEW k \in Keys, Claim(w, k) PROVE ReadInv'
  <2> DEFINE task == [op |-> "calling", key |-> k, attempt |-> RowOf(k).attempts + 1]
  <2>1. Work(w, task) /\ task.op = "calling"
    BY <1>7 DEF Claim
  <2> HIDE DEF task
  <2> QED BY <1>2, <2>1 DEF Processes
<1>8. ASSUME NEW p \in Processes, Work(p, Idle) PROVE ReadInv'
  BY <1>2, <1>8 DEF Idle
<1>9. ASSUME NEW w \in Workers, Record(w) \/ Crash(w) PROVE ReadInv'
  BY <1>8, <1>9 DEF Record, Crash, Processes
<1>10. ASSUME NEW h \in Hooks, CommitHook(h) PROVE ReadInv'
  BY <1>8, <1>10 DEF CommitHook, Processes
<1>11. ASSUME Business \/ Administration \/ UNCHANGED vars PROVE session' = session
  BY <1>11 DEF Business, Publish, Remove, Drift, ChangeAddresses, Administration, Preview, Approve,
               Cancel, Retry, CreateCorrection, vars
<1>12. ASSUME NEW k \in Keys, KeyLapses(k) \/ \E kind \in Reports : ProviderReports(k, kind)
       PROVE  session' = session
  BY <1>12 DEF KeyLapses, ProviderReports
<1> QED
  BY <1>3, <1>5, <1>6, <1>7, <1>9, <1>10, <1>11, <1>12 DEF Next, Dispatch, Claims, Webhooks

LEMMA KeptFacts ==
  ASSUME deliveries' = deliveries
  PROVE  \A k : RowKept(k)
BY DEF RowKept, RowAfter, RowOf, Delivered

LEMMA UpsertMoves ==
  ASSUME NoteInv, NEW content \in Versions, Upsert(content), deliveries' = deliveries
  PROVE  \A n \in Notifications : Moves(n)
<1>1. \A k : RowKept(k)
  BY KeptFacts
<1>2. ReadyStatus(addresses) \in Editable
  BY DEF ReadyStatus, Editable
<1>3. CASE status[Original] = "None" \/ Follows(Original)
  <2>1. status[Original] \in Editable \cup {"CANCELLED", "None"}
    BY <1>3, Zenon DEF Follows
  <2> QED BY <1>1, <1>2, <1>3, <2>1 DEF Upsert, NoteInv, Moves, Stays, Reopened
<1>4. CASE ~(status[Original] = "None" \/ Follows(Original))
           /\ (status[Original] = "CANCELLED" \/ snapshot[Original] = content)
  BY <1>1, <1>4 DEF Upsert, Moves, Stays
<1>5. CASE ~(status[Original] = "None" \/ Follows(Original))
           /\ ~(status[Original] = "CANCELLED" \/ snapshot[Original] = content)
  BY <1>1, <1>5 DEF Upsert, NoteInv, Moves, Stays, TakenBack
<1> QED BY <1>3, <1>4, <1>5

\* One delivery and the status of its notification change together.
LEMMA RowMoves ==
  ASSUME MailInv, NEW k \in Delivered, MaxRecipients = 1,
         Delivered' = Delivered, \A j \in Delivered : j # k => RowAfter(j) = RowOf(j),
         snapshot' = snapshot, RowAfter(k).content = RowOf(k).content,
         \/ /\ status' = [status EXCEPT ![k[1]] = RowAfter(k).status]
            /\ MaxRetries = 0 => \/ status[k[1]] \in Claimable
                                 \/ status[k[1]] \notin Overrides /\ Sent(k)
         \/ status' = status /\ status[k[1]] \in Overrides /\ Sent(k)
  PROVE  \A n \in Notifications : Moves(n)
<1> SUFFICES ASSUME NEW n \in Notifications PROVE Moves(n)
  OBVIOUS
<1>1. k[1] \in Notifications /\ k = <<k[1], 1>>
  BY DEF Delivered, Keys
<1>2. CASE n = k[1]
  BY <1>1, <1>2 DEF MailInv, NoteInv, Moves, Follow, Withheld
<1>3. CASE n # k[1]
  <2>1. <<n, 1>> # k
    BY <1>1, <1>3
  <2>2. RowKept(<<n, 1>>)
    BY <2>1 DEF RowKept
  <2> QED BY <1>3, <2>2 DEF MailInv, NoteInv, Moves, Stays
<1> QED BY <1>2, <1>3

LEMMA ApproveMoves ==
  ASSUME MailInv, MaxRecipients = 1, NEW x \in Notifications, NEW mode \in Modes, Approve(x, mode)
  PROVE  \A n \in Notifications : Moves(n)
<1> DEFINE row   == QueuedRow(Approved(x))
           table == [i \in 1..Copies(mode) |-> row]
<1>1. Copies(mode) = 1
  BY DEF Copies, Approve, MailInv, NoteInv
<1>2. row.status = "QUEUED" /\ row.content = Approved(x)
  BY DEF QueuedRow
<1>3. snapshot' = [snapshot EXCEPT ![x] = Approved(x)] /\ status' = [status EXCEPT ![x] = "QUEUED"]
      /\ deliveries' = [deliveries EXCEPT ![x] = table]
  BY DEF Approve
<1> HIDE DEF row
<1>4. DOMAIN table = {1} /\ table[1] = row
  BY <1>1
<1> HIDE DEF table
<1>5. deliveries'[x] = table /\ \A n \in Notifications : n # x => deliveries'[n] = deliveries[n]
  BY <1>3 DEF MailInv, RestInv, TaskInv
<1>6. snapshot'[x] = Approved(x) /\ status'[x] = "QUEUED"
      /\ \A n \in Notifications : n # x => status'[n] = status[n] /\ snapshot'[n] = snapshot[n]
  BY <1>3 DEF MailInv, NoteInv
<1>7. ApprovedNow(x)
  <2>1. <<x, 1>> \in Keys
    BY DEF Keys
  <2>2. <<x, 1>> \in Delivered'
    BY <1>4, <1>5, <2>1 DEF Delivered, Keys
  <2>3. RowAfter(<<x, 1>>) = row
    BY <1>4, <1>5 DEF RowAfter
  <2> QED BY <1>2, <1>6, <2>2, <2>3 DEF ApprovedNow
<1>8. ASSUME NEW n \in Notifications, n # x PROVE Stays(n)
  <2>1. RowKept(<<n, 1>>)
    BY <1>5, <1>8 DEF RowKept, Delivered, Keys, RowAfter, RowOf
  <2> QED BY <1>6, <1>8, <2>1 DEF Stays
<1> QED BY <1>7, <1>8 DEF Moves

LEMMA CancelMoves ==
  ASSUME MailInv, MaxRecipients = 1, NEW x \in Notifications, Cancel(x)
  PROVE  \A n \in Notifications : Moves(n)
<1> DEFINE table == [i \in DOMAIN deliveries[x] |->
                       [deliveries[x][i] EXCEPT !.status = "CANCELLED", !.claim = NoClaim]]
<1>1. PICK m \in 0..MaxRecipients : deliveries[x] \in [1..m -> Row]
  BY TableFacts DEF MailInv, RestInv
<1>2. DOMAIN table = DOMAIN deliveries[x] /\ \A i \in DOMAIN table : table[i].status = "CANCELLED"
  BY <1>1 DEF Row
<1>3. snapshot' = snapshot /\ status' = [status EXCEPT ![x] = "CANCELLED"]
      /\ deliveries' = [deliveries EXCEPT ![x] = table]
  BY DEF Cancel, MailInv, RestInv, TaskInv
<1> HIDE DEF table
<1>4. deliveries'[x] = table /\ \A n \in Notifications : n # x => deliveries'[n] = deliveries[n]
  BY <1>3 DEF MailInv, RestInv, TaskInv
<1>5. status'[x] = "CANCELLED"
      /\ \A n \in Notifications : n # x => status'[n] = status[n]
  BY <1>3 DEF MailInv, NoteInv
<1>6. CancelledNow(x)
  BY <1>2, <1>4, <1>5 DEF CancelledNow, Delivered, RowAfter
<1>7. ASSUME NEW n \in Notifications, n # x PROVE Stays(n)
  <2>1. RowKept(<<n, 1>>)
    BY <1>4, <1>7 DEF RowKept, Delivered, Keys, RowAfter, RowOf
  <2> QED BY <1>3, <1>5, <1>7, <2>1 DEF Stays
<1> QED BY <1>6, <1>7 DEF Moves

LEMMA RetryMoves ==
  ASSUME MailInv, MaxRecipients = 1, NEW x \in Notifications, NEW confirm \in BOOLEAN, Retry(x, confirm)
  PROVE  \A n \in Notifications : Moves(n)
<1> DEFINE targets == RetryTargets(x, confirm)
           table   == [i \in DOMAIN deliveries[x] |->
                         IF i \in targets
                           THEN [deliveries[x][i] EXCEPT !.status = "QUEUED", !.claim = NoClaim]
                           ELSE deliveries[x][i]]
<1>1. PICK m \in 0..MaxRecipients : deliveries[x] \in [1..m -> Row]
  BY TableFacts DEF MailInv, RestInv
<1>2. targets \subseteq DOMAIN deliveries[x] /\ targets # {}
  BY DEF RetryTargets, Retry
<1>3. snapshot' = snapshot /\ status' = [status EXCEPT ![x] = "QUEUED"]
      /\ deliveries' = [deliveries EXCEPT ![x] = table]
  BY DEF Retry, MailInv, RestInv, TaskInv
<1>4. MaxRetries # 0
  <2>1. used.retries \in Nat /\ used.retries < MaxRetries
    BY DEF Retry, MailInv, RestInv, TaskInv
  <2> QED BY <2>1, NaturalsAssumption
<1> HIDE DEF targets
<1>5. DOMAIN deliveries[x] = {1} /\ 1 \in targets
  <2>1. m = 1
    BY <1>1, <1>2
  <2> QED BY <1>1, <1>2, <2>1
<1>6. DOMAIN table = {1} /\ table[1].status = "QUEUED" /\ table[1].content = deliveries[x][1].content
  BY <1>1, <1>5 DEF Row
<1> HIDE DEF table
<1>7. deliveries'[x] = table /\ \A n \in Notifications : n # x => deliveries'[n] = deliveries[n]
  BY <1>3 DEF MailInv, RestInv, TaskInv
<1>8. status'[x] = "QUEUED" /\ \A n \in Notifications : n # x => status'[n] = status[n]
  BY <1>3 DEF MailInv, NoteInv
<1>9. Follow(x)
  <2>1. <<x, 1>> \in Keys
    BY DEF Keys
  <2>2. <<x, 1>> \in Delivered /\ <<x, 1>> \in Delivered'
    BY <1>5, <1>6, <1>7, <2>1 DEF Delivered, Keys
  <2> QED BY <1>3, <1>4, <1>6, <1>7, <1>8, <2>2 DEF Follow, RowAfter, RowOf
<1>10. ASSUME NEW n \in Notifications, n # x PROVE Stays(n)
  <2>1. RowKept(<<n, 1>>)
    BY <1>7, <1>10 DEF RowKept, Delivered, Keys, RowAfter, RowOf
  <2> QED BY <1>3, <1>8, <1>10, <2>1 DEF Stays
<1> QED BY <1>9, <1>10 DEF Moves

LEMMA StayMoves ==
  ASSUME deliveries' = deliveries, status' = status, snapshot' = snapshot
  PROVE  \A n \in Notifications : Moves(n)
BY KeptFacts DEF Moves, Stays

LEMMA BusinessMoves ==
  ASSUME MailInv, SoleInv,
         \/ Business \/ Preview
         \/ \E n \in Notifications, c \in Corrections : CreateCorrection(n, c)
  PROVE  \A n \in Notifications : Moves(n)
<1>0. \A c \in Nat : ReadyStatus(c) \in Editable
  BY DEF ReadyStatus, Editable
<1>1. deliveries' = deliveries /\ NoteInv
  BY DEF Business, Publish, Remove, Drift, ChangeAddresses, Preview, CreateCorrection, MailInv
<1>2. \A k : RowKept(k)
  BY <1>1, KeptFacts
<1>3. ASSUME NEW content \in Versions, Publish(content) PROVE \A n \in Notifications : Moves(n)
  BY <1>1, <1>3, UpsertMoves DEF Publish
<1>4. ASSUME Preview PROVE \A n \in Notifications : Moves(n)
  BY <1>1, <1>4, UpsertMoves DEF Preview, NoteInv
<1>5. ASSUME Drift PROVE \A n \in Notifications : Moves(n)
  BY <1>1, <1>5, StayMoves DEF Drift, notes
<1>6. ASSUME NEW count \in 0..MaxRecipients, ChangeAddresses(count) PROVE \A n \in Notifications : Moves(n)
  BY <1>0, <1>2, <1>6, NaturalsAssumption DEF ChangeAddresses, NoteInv, Moves, Stays, Reopened
<1>7. ASSUME NEW removal \in Removals, Remove(removal) PROVE \A n \in Notifications : Moves(n)
  <2> SUFFICES ASSUME NEW n \in Notifications PROVE Moves(n)
    OBVIOUS
  <2>1. status'[n] = AfterRemoval(status[n]) /\ snapshot'[n] = snapshot[n]
    BY <1>7 DEF Remove
  <2>2. CASE status[n] = "None"
    BY <1>2, <2>1, <2>2 DEF AfterRemoval, Moves, Stays
  <2>3. CASE status[n] # "None"
    BY <1>2, <2>1, <2>3 DEF AfterRemoval, Moves, TakenBack
  <2> QED BY <2>2, <2>3
<1>8. ASSUME NEW x \in Notifications, NEW c \in Corrections, CreateCorrection(x, c)
      PROVE  \A n \in Notifications : Moves(n)
  <2>1. addresses \in Nat /\ c \in Notifications
    BY NaturalsAssumption DEF MailInv, NoteInv, Notifications
  <2>2. status' = [status EXCEPT ![c] = ReadyStatus(addresses)] /\ status[c] = "None"
        /\ snapshot' = [snapshot EXCEPT ![c] = snapshot[x]]
    BY <1>8 DEF CreateCorrection
  <2>3. Reopened(c)
    BY <1>0, <1>1, <1>2, <2>1, <2>2 DEF Reopened, NoteInv
  <2>4. \A n \in Notifications : n # c => Stays(n)
    BY <1>1, <1>2, <2>2 DEF Stays, NoteInv
  <2> QED BY <2>3, <2>4 DEF Moves
<1> QED BY <1>3, <1>4, <1>5, <1>6, <1>7, <1>8 DEF Business

LEMMA ClaimMoves ==
  ASSUME MailInv, MaxRecipients = 1, NEW w \in Workers, NEW k \in Keys, Claim(w, k)
  PROVE  \A n \in Notifications : Moves(n)
<1> DEFINE attempt == RowOf(k).attempts + 1
           row     == [RowOf(k) EXCEPT !.status = "SENDING", !.claim = attempt, !.attempts = attempt]
<1>1. k \in Delivered /\ RowOf(k) \in Row /\ attempt \in Nat
  BY DeliveredRows DEF Claim, MailInv, RestInv, Row
<1>2. row \in Row /\ row.status = "SENDING" /\ row.content = RowOf(k).content
  BY <1>1 DEF Row, DeliveryStatuses
<1>3. SetRow(k, row) /\ status' = [status EXCEPT ![k[1]] = "SENDING"] /\ snapshot' = snapshot
      /\ status[k[1]] \in Claimable
  BY DEF Claim
<1> HIDE DEF row
<1>4. /\ Delivered' = Delivered /\ RowAfter(k) = row
      /\ \A j \in Delivered : j # k => RowAfter(j) = RowOf(j)
  BY <1>1, <1>2, <1>3, SetRowFacts DEF MailInv, RestInv
<1>5. /\ RowAfter(k).content = RowOf(k).content
      /\ status' = [status EXCEPT ![k[1]] = RowAfter(k).status]
  BY <1>2, <1>3, <1>4
<1> QED BY <1>1, <1>3, <1>4, <1>5, RowMoves

\* A row is set and its notification refreshed, by an outcome or by a report.
LEMMA RefreshMoves ==
  ASSUME MailInv, MaxRecipients = 1, NEW k \in Delivered, NEW row \in Row, NEW seen \in Statuses,
         k[2] \in DOMAIN seen, SetRow(k, row), row.content = RowOf(k).content, snapshot' = snapshot,
         status' = Refreshed(k[1], k[2], seen, row.status), Sent(k)
  PROVE  \A n \in Notifications : Moves(n)
<1>1. k[1] \in Notifications /\ k[2] = 1 /\ row.status \in DeliveryStatuses
  BY DEF Delivered, Keys, Row
<1>2. /\ Delivered' = Delivered /\ RowAfter(k) = row
      /\ \A j \in Delivered : j # k => RowAfter(j) = RowOf(j)
  BY SetRowFacts DEF MailInv, RestInv
<1>3. status' = IF status[k[1]] \in Overrides THEN status ELSE [status EXCEPT ![k[1]] = row.status]
  BY <1>1, RefreshedBySole
<1>4. CASE status[k[1]] \in Overrides
  BY <1>2, <1>3, <1>4, RowMoves
<1>5. CASE status[k[1]] \notin Overrides
  BY <1>2, <1>3, <1>5, RowMoves
<1> QED BY <1>4, <1>5

LEMMA RecordMoves ==
  ASSUME MailInv, ReadInv, MaxRecipients = 1, NEW w \in Workers, Record(w)
  PROVE  \A n \in Notifications : Moves(n)
<1> DEFINE task == session[w]
           k    == session[w].key
           new  == StatusAfter(task.outcome, task.attempt)
           row  == [RowOf(k) EXCEPT !.status = new, !.claim = NoClaim,
                      !.message = IF task.outcome = "ACCEPTED" THEN task.message ELSE @]
<1>1. task.op = "recording" /\ w \in Processes /\ Working(w)
  BY DEF Record, Processes, Working
<1>2. /\ k \in Delivered /\ RowOf(k) \in Row /\ task.attempt \in Nat \ {0} /\ task \in Task
      /\ task.outcome \in {"ACCEPTED", "REJECTED", "UNCERTAIN"} /\ task.message \in Nat
  BY <1>1, TaskFacts, DeliveredRows DEF MailInv, RestInv
<1>3. task.seen \in Statuses /\ k[2] \in DOMAIN task.seen
  BY <1>1, <1>2 DEF Task, ReadInv
<1>4. new \in {"SENT", "QUEUED", "FAILED", "DELIVERY_UNCERTAIN"}
  BY <1>2, NaturalsAssumption DEF StatusAfter
<1>5. row \in Row /\ row.status = new /\ row.content = RowOf(k).content
  BY <1>2, <1>4 DEF Row, DeliveryStatuses, NoClaim
<1>6. snapshot' = snapshot
  BY DEF Record
<1>7. CASE ~HoldsClaim(k, task.attempt)
  <2>1. deliveries' = deliveries /\ status' = status
    BY <1>7, Zenon DEF Record
  <2> QED BY <1>6, <2>1, StayMoves
<1>8. CASE HoldsClaim(k, task.attempt)
  <2>1. SetRow(k, row) /\ status' = Refreshed(k[1], k[2], task.seen, new)
    BY <1>8, Zenon DEF Record
  <2>2. Sent(k)
    BY <1>2, <1>8 DEF MailInv, RestInv, ClaimInv, RowInv, Sent, HoldsClaim, NoClaim
  <2> HIDE DEF new, row, task
  <2> QED BY <1>2, <1>3, <1>5, <1>6, <2>1, <2>2, RefreshMoves
<1> QED BY <1>7, <1>8

LEMMA CommitHookMoves ==
  ASSUME MailInv, ReadInv, MaxRecipients = 1, NEW h \in Hooks, CommitHook(h)
  PROVE  \A n \in Notifications : Moves(n)
<1> DEFINE task    == session[h]
           k       == session[h].key
           new     == reports[k][task.report].kind
           row     == [RowOf(k) EXCEPT !.status = new]
           applies == task.report \notin linked[k] /\ Applies(task)
<1>1. h \in Processes /\ task.op = "hook"
  BY DEF CommitHook, Processes
<1>2. /\ k \in Delivered /\ RowOf(k) \in Row /\ task \in Task
      /\ task.report \in DOMAIN reports[k]
      /\ reports[k] \in Seq([message : Nat \ {0}, kind : Reports])
  BY <1>1, TaskFacts, DeliveredRows DEF MailInv, RestInv, ProviderInv
<1>3. task.seen \in Statuses /\ k[2] \in DOMAIN task.seen
  BY <1>1, <1>2 DEF Task, ReadInv
<1>4. new \in DeliveryStatuses
  <2> DEFINE Report == [message : Nat \ {0}, kind : Reports]
  <2>1. reports[k] \in Seq(Report) /\ task.report \in DOMAIN reports[k]
    BY <1>2
  <2> HIDE DEF Report
  <2>2. reports[k][task.report] \in Report
    BY <2>1
  <2>3. new \in Reports
    BY <2>2 DEF Report
  <2> QED BY <2>3, ReportsAssumption DEF Successes, DeliveryStatuses
<1>5. row \in Row /\ row.status = new /\ row.content = RowOf(k).content
  BY <1>2, <1>4 DEF Row
<1>6. snapshot' = snapshot
  BY DEF CommitHook
<1>7. CASE ~applies
  <2>1. deliveries' = deliveries /\ status' = status
    BY <1>7, Zenon DEF CommitHook
  <2> QED BY <1>6, <2>1, StayMoves
<1>8. CASE applies
  <2>1. SetRow(k, row) /\ status' = Refreshed(k[1], k[2], task.seen, new)
    BY <1>8, Zenon DEF CommitHook
  <2>2. Sent(k)
    BY <1>1, <1>8, AppliedToSuccess DEF MailInv, Sent
  <2> HIDE DEF new, row, task
  <2> QED BY <1>2, <1>3, <1>5, <1>6, <2>1, <2>2, RefreshMoves
<1> QED BY <1>7, <1>8

LEMMA SoleMoves ==
  ASSUME MailInv, ReadInv, SoleInv, MaxRecipients = 1, [Next]_vars
  PROVE  \A n \in Notifications : Moves(n)
<1>1. ASSUME NEW w \in Workers, Call(w) \/ RecordFails(w) \/ Crash(w) PROVE \A n \in Notifications : Moves(n)
  <2>1. UNCHANGED <<deliveries, status, snapshot>>
    BY <1>1 DEF Call, ProviderAccepts, ProviderRejects, ConnectionFails, RecordFails, Crash, notes
  <2> QED BY <2>1, StayMoves
<1>2. ASSUME NEW k \in Keys, KeyLapses(k) \/ \E kind \in Reports : ProviderReports(k, kind)
      PROVE  \A n \in Notifications : Moves(n)
  <2>1. UNCHANGED <<deliveries, status, snapshot>>
    BY <1>2 DEF KeyLapses, ProviderReports, notes
  <2> QED BY <2>1, StayMoves
<1>3. ASSUME UNCHANGED vars \/ \E h \in Hooks, k \in Keys, e \in 1..MaxReports : BeginHook(h, k, e)
      PROVE  \A n \in Notifications : Moves(n)
  <2>1. UNCHANGED <<deliveries, status, snapshot>>
    BY <1>3 DEF vars, BeginHook, notes
  <2> QED BY <2>1, StayMoves
<1> QED
  BY <1>1, <1>2, <1>3, BusinessMoves, ApproveMoves, CancelMoves, RetryMoves, ClaimMoves, RecordMoves,
     CommitHookMoves DEF Next, Administration, Dispatch, Claims, Webhooks

LEMMA SoleStep ==
  ASSUME MailInv, MailInv', ReadInv, SoleInv, MaxRecipients = 1, [Next]_vars
  PROVE  SoleInv'
<1>1. \A n \in Notifications : Moves(n)
  BY SoleMoves
<1>2. ASSUME NEW n \in Notifications,
             status'[n] \notin Overrides \cup Editable \cup {"None"}
      PROVE  <<n, 1>> \in Delivered' /\ status'[n] = RowAfter(<<n, 1>>).status
  <2>1. CASE Stays(n)
    BY <1>2, <2>1 DEF Stays, RowKept, SoleInv
  <2>2. CASE Follow(n) \/ ApprovedNow(n)
    BY <2>2 DEF Follow, ApprovedNow
  <2>3. CASE Reopened(n) \/ TakenBack(n) \/ Withheld(n) \/ CancelledNow(n)
    BY <1>2, <2>3 DEF Reopened, TakenBack, Withheld, CancelledNow, Overrides
  <2> QED BY <1>1, <2>1, <2>2, <2>3 DEF Moves
<1>3. ASSUME NEW k \in Delivered' PROVE status'[k[1]] # "None"
  <2>1. k[1] \in Notifications /\ k = <<k[1], 1>>
    BY DEF Delivered, Keys
  <2> DEFINE n == k[1]
  <2>2. CASE Stays(n)
    BY <2>1, <2>2 DEF Stays, RowKept, SoleInv
  <2>3. CASE Follow(n)
    <3>1. RowAfter(k).status \in DeliveryStatuses
      <4>1. PICK m \in 0..MaxRecipients : deliveries'[n] \in [1..m -> Row]
        BY <2>1 DEF MailInv, RestInv, TaskInv, DeliveryTables
      <4>2. k[2] \in 1..m
        BY <4>1 DEF Delivered
      <4> QED BY <4>1, <4>2 DEF RowAfter, Row
    <3> QED BY <2>1, <2>3, <3>1 DEF Follow, DeliveryStatuses
  <2>4. CASE Reopened(n) \/ TakenBack(n) \/ Withheld(n) \/ CancelledNow(n) \/ ApprovedNow(n)
    BY <2>4 DEF Reopened, TakenBack, Withheld, CancelledNow, ApprovedNow, Overrides, Editable
  <2> QED BY <1>1, <2>1, <2>2, <2>3, <2>4 DEF Moves
<1> QED BY <1>2, <1>3 DEF SoleInv, RowAfter, RowOf

LEMMA SoleInvariant == MaxRecipients = 1 => (Spec => [](MailInv /\ ReadInv /\ SoleInv))
<1> SUFFICES ASSUME MaxRecipients = 1 PROVE Spec => [](MailInv /\ ReadInv /\ SoleInv)
  OBVIOUS
<1>1. Init => MailInv /\ ReadInv /\ SoleInv
  <2> SUFFICES ASSUME Init PROVE MailInv /\ ReadInv /\ SoleInv
    OBVIOUS
  <2>1. ReadInv
    BY DEF Init, ReadInv, Processes, Idle
  <2>2. Delivered = {}
    <3>1. \A n \in Notifications : DOMAIN deliveries[n] = {}
      BY DEF Init
    <3> QED BY <3>1 DEF Delivered, Keys
  <2>3. SoleInv
    BY <2>2 DEF Init, SoleInv
  <2> QED BY <2>1, <2>3, MailInit
<1>2. MailInv /\ ReadInv /\ SoleInv /\ [Next]_vars => (MailInv /\ ReadInv /\ SoleInv)'
  BY MailStep, ReadStep, SoleStep
<1> QED BY <1>1, <1>2, PTL DEF Spec

\* With one delivery per notification: a notification that is on its way or
\* settled has the status of its delivery, whoever recorded the latest, and in
\* whichever order outcomes, reports, retries and cancellations commit.
\* Two deliveries refute this (email_lost_retry.cfg).
THEOREM StatusIsDerivedAlways == MaxRecipients = 1 => (Spec => []StatusIsDerived)
<1> SUFFICES ASSUME MaxRecipients = 1 PROVE Spec => []StatusIsDerived
  OBVIOUS
<1>1. MailInv /\ SoleInv => StatusIsDerived
  <2> SUFFICES ASSUME MailInv, SoleInv, NEW n \in Notifications,
                      status[n] \notin Overrides \cup Editable \cup {"None"}
      PROVE  status[n] = Derived({deliveries[n][i].status : i \in DOMAIN deliveries[n]})
    BY DEF StatusIsDerived
  <2>1. <<n, 1>> \in Delivered /\ status[n] = deliveries[n][1].status
    BY DEF SoleInv, RowOf
  <2>2. PICK m \in 0..MaxRecipients : deliveries[n] \in [1..m -> Row]
    BY TableFacts DEF MailInv, RestInv
  <2>3. 1 \in DOMAIN deliveries[n]
    BY <2>1 DEF Delivered
  <2>4. DOMAIN deliveries[n] = {1} /\ deliveries[n][1].status \in DeliveryStatuses
    BY <2>2, <2>3 DEF Row
  <2>5. {deliveries[n][i].status : i \in DOMAIN deliveries[n]} = {deliveries[n][1].status}
    BY <2>4
  <2> QED BY <2>1, <2>4, <2>5, DerivedOfOne
<1> QED BY <1>1, SoleInvariant, PTL

LEMMA HiddenStep ==
  ASSUME NoFailureReports \/ OneHook, MaxRecipients = 1, MaxRetries = 0,
         MailInv, ReadInv, SoleInv, HiddenInv, [Next]_vars
  PROVE  HiddenInv'
<1>1. \A n \in Notifications : Moves(n)
  BY SoleMoves
<1> SUFFICES ASSUME NEW k \in Delivered'
    PROVE  /\ RowAfter(k).content # snapshot'[k[1]] => status'[k[1]] \in Overrides \cup Editable
           /\ status'[k[1]] \in Editable \cup {"CANCELLED"} =>
                RowAfter(k).status \in {"QUEUED", "FAILED", "CANCELLED"}
  BY DEF HiddenInv, ChangeIsNotHidden, RowAfter, RowOf
<1> DEFINE n == k[1]
<1>2. n \in Notifications /\ k = <<n, 1>>
  BY DEF Delivered, Keys
<1>3. CASE Stays(n)
  BY <1>2, <1>3 DEF Stays, RowKept, HiddenInv, ChangeIsNotHidden
<1>4. CASE Reopened(n)
  <2>1. k \in Delivered /\ RowAfter(k) = RowOf(k) /\ status'[n] \in Editable
    BY <1>2, <1>4 DEF Reopened, RowKept
  <2>2. status[n] \in Editable \cup {"CANCELLED"}
    BY <1>4, <2>1 DEF Reopened, SoleInv
  <2> QED BY <2>1, <2>2 DEF HiddenInv
<1>5. CASE TakenBack(n)
  <2>1. k \in Delivered /\ RowAfter(k) = RowOf(k) /\ status'[n] \in Overrides
    BY <1>2, <1>5 DEF TakenBack, RowKept, Overrides
  <2>2. status'[n] = "CANCELLED" => RowOf(k).status \in {"QUEUED", "FAILED", "CANCELLED"}
    <3> SUFFICES ASSUME status'[n] = "CANCELLED" PROVE RowOf(k).status \in {"QUEUED", "FAILED", "CANCELLED"}
      OBVIOUS
    <3>1. status[n] \in (NotificationStatuses \cup {"None"}) \ (PossiblySent \cup {"None"})
      BY <1>2, <1>5 DEF TakenBack, MailInv, NoteInv
    <3>2. status[n] \in {"QUEUED", "FAILED"} \cup Editable \cup {"CANCELLED"}
      BY <3>1 DEF NotificationStatuses, DeliveryStatuses, PossiblySent, Editable
    <3> QED BY <1>2, <2>1, <3>2 DEF SoleInv, HiddenInv, Overrides, Editable
  <2>3. status'[n] \notin Editable
    BY <2>1 DEF Overrides, Editable
  <2> QED BY <2>1, <2>2, <2>3
<1>6. CASE Follow(n)
  <2>1. k \in Delivered /\ RowAfter(k).content = RowOf(k).content /\ status'[n] = RowAfter(k).status
        /\ snapshot'[n] = snapshot[n]
        /\ (status[n] \in Claimable \/ (status[n] \notin Overrides /\ Sent(k)))
    BY <1>2, <1>6 DEF Follow
  <2>2. status[n] \notin Overrides \cup Editable
    <3>1. CASE status[n] \in Claimable
      BY <3>1 DEF Claimable, Overrides, Editable
    <3>2. CASE status[n] \notin Overrides /\ Sent(k)
      BY <2>1, <3>2 DEF Sent, HiddenInv, Successes
    <3> QED BY <2>1, <3>1, <3>2
  <2>3. RowAfter(k).content = snapshot'[n]
    BY <2>1, <2>2 DEF HiddenInv, ChangeIsNotHidden
  <2>4. RowAfter(k).status \notin Editable
    <3>1. PICK m \in 0..MaxRecipients : deliveries'[n] \in [1..m -> Row]
      BY <1>2, MailStep DEF MailInv, RestInv, TaskInv, DeliveryTables
    <3>2. k[2] \in 1..m
      BY <3>1 DEF Delivered
    <3> QED BY <3>1, <3>2 DEF RowAfter, Row, DeliveryStatuses, Editable
  <2> QED BY <2>1, <2>3, <2>4
<1>7. CASE Withheld(n)
  <2>1. k \in Delivered /\ status'[n] = status[n] /\ status[n] \in Overrides /\ Sent(k)
    BY <1>2, <1>7 DEF Withheld
  <2>2. status[n] \notin Editable \cup {"CANCELLED"}
    BY <2>1 DEF Sent, HiddenInv, Successes
  <2> QED BY <2>1, <2>2
<1>8. CASE ApprovedNow(n) \/ CancelledNow(n)
  BY <1>2, <1>8 DEF ApprovedNow, CancelledNow, Overrides, Editable
<1> QED BY <1>1, <1>2, <1>3, <1>4, <1>5, <1>6, <1>7, <1>8 DEF Moves

\* With one delivery per notification, no retries and a provider that reports
\* no failure of what it accepted or whose calls are handled one at a time: an
\* e-mail whose content is not that of the latest projection is marked for
\* correction, or cancelled, or not approved yet, whatever is cleared, deleted,
\* restored, claimed and reported in between.  One retry refutes this
\* (email_hidden_change.cfg).
THEOREM ChangeIsNotHiddenAlways ==
  (NoFailureReports \/ OneHook) /\ MaxRecipients = 1 /\ MaxRetries = 0 => (Spec => []ChangeIsNotHidden)
<1> SUFFICES ASSUME NoFailureReports \/ OneHook, MaxRecipients = 1, MaxRetries = 0
             PROVE  Spec => []ChangeIsNotHidden
  OBVIOUS
<1>1. Init => HiddenInv
  <2> SUFFICES ASSUME Init PROVE HiddenInv
    OBVIOUS
  <2>1. \A n \in Notifications : DOMAIN deliveries[n] = {}
    BY DEF Init
  <2>2. Delivered = {}
    BY <2>1 DEF Delivered, Keys
  <2> QED BY <2>2 DEF HiddenInv, ChangeIsNotHidden
<1>2. MailInv /\ ReadInv /\ SoleInv /\ HiddenInv /\ [Next]_vars => HiddenInv'
  BY HiddenStep
<1>3. HiddenInv => ChangeIsNotHidden
  BY DEF HiddenInv
<1>4. Spec => [](MailInv /\ ReadInv /\ SoleInv)
  BY SoleInvariant
<1> QED BY <1>1, <1>2, <1>3, <1>4, PTL DEF Spec
=============================================================================
