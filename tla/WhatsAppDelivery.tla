-------------------------- MODULE WhatsAppDelivery --------------------------
(***************************************************************************)
(* The WhatsApp messages that tell a customer of one receipt: the delivery *)
(* projected from the business event, the retries of explicit failures,    *)
(* the corrections of what was submitted and is not true any more, the     *)
(* dispatches that hand a delivery to the provider, and the provider's     *)
(* callbacks.                                                              *)
(*                                                                         *)
(* A text is the version of the receipt it was rendered from, or Gone for  *)
(* the correction of a removed receipt.  The transactions are Serializable *)
(* (whatsapp-transaction.ts), so each is one action.  Time is left out: a  *)
(* buffer ends and a claim expires whenever it may.  The sending switches  *)
(* are on, the phone is valid (a new phone counts as a new text) and the   *)
(* template is approved.                                                   *)
(***************************************************************************)
EXTENDS Integers, Sequences, FiniteSets

CONSTANTS
  Workers,      \* dispatches in flight
  TestMode,     \* the setting testMode: every delivery needs an approval
  Reports,      \* statuses the provider reports
  Revives,      \* whether it may deliver what it reported as failed
  MaxRows,      \* most deliveries
  MaxVersion    \* most versions of the receipt after the first

ASSUME SettingsAssumption ==
  /\ TestMode \in BOOLEAN /\ Revives \in BOOLEAN
  /\ Reports \subseteq {"SENT", "FAILED", "DELIVERED", "READ"}
ASSUME BoundsAssumption == MaxRows \in Nat /\ MaxVersion \in Nat

VARIABLES
  version,   \* what the receipt says
  source,    \* "Live", "Deleting" (a deletion request is pending) or "Removed"
  consent,   \* "Before" the event, "Out", or "Again" after an opt-out
  rows,      \* the WhatsAppDelivery rows in the order of createdAt
  seen,      \* pending rows as the administrator has them on the screen
  session,   \* what each dispatch works on
  messages,  \* external: the messages the provider accepted
  applied    \* WhatsAppWebhookEvent rows with an appliedAt

business == <<version, source, consent>>
vars == <<business, rows, seen, session, messages, applied>>

Gone     == -1
NoText   == -2
Texts    == {Gone} \cup 0..MaxVersion
Editable == {"PENDING", "QUEUED", "PAUSED"}
Submitted == {"ACCEPTED", "SENT", "DELIVERED", "READ", "UNCERTAIN"}
Idle     == [step |-> "Idle"]

Statuses == Editable \cup Submitted \cup {"SENDING", "FAILED", "CANCELLED"}

Rank ==
  [s \in Statuses |->
     CASE s \in Editable \cup {"CANCELLED"} -> -1
       [] s \in {"SENDING", "UNCERTAIN"} -> 0
       [] s = "ACCEPTED" -> 1
       [] s = "SENT" -> 2
       [] s = "FAILED" -> 3
       [] s = "DELIVERED" -> 4
       [] s = "READ" -> 5]

Live == IF source = "Removed" THEN Gone ELSE version

-----------------------------------------------------------------------------
(* Retries.                                                                *)

\* Fault: an uncertain delivery counts as failed.
AnyFailure(d) == d.status \in {"FAILED", "UNCERTAIN"}

\* isExplicitWhatsAppFailure
IsExplicitFailure(d) ==
  d.status = "FAILED" /\ d.code # "None" /\ (d.known # 0 \/ d.code = "PROVIDER_REJECTED")

\* The rows that row r retries, directly or not: they are in every set that
\* holds the row it retries and, of each row, the row that one retries.
Ancestors(rs, r) ==
  {a \in DOMAIN rs :
     \A S \in SUBSET DOMAIN rs :
       (\A b \in S \cup {r} : rs[b].retryOf \in S \cup {0}) => a \in S}

\* failedRetryAncestors
AncestorsFailed(rs, r) == \A a \in Ancestors(rs, r) : IsExplicitFailure(rs[a])

\* verifyFailedWhatsAppProvider: a GET of what the provider says now.
VerifiedFailed(rs, r) ==
  \A a \in Ancestors(rs, r) : rs[a].known # 0 => messages[rs[a].known].status = "FAILED"

-----------------------------------------------------------------------------
(* What a refresh makes of a row that may still be edited.                 *)

CancelledRow(d) == [d EXCEPT !.status = "CANCELLED", !.due = FALSE]
PausedRow(d)    == [d EXCEPT !.status = "PAUSED", !.approved = NoText, !.due = FALSE]

\* Fault: a changed text keeps the approval of the former one.
ApprovalKept(d, text, corrects) ==
  [d EXCEPT !.status = IF d.approval /\ d.approved = NoText THEN "PENDING" ELSE "QUEUED",
            !.due = FALSE, !.text = text, !.corrects = corrects]

\* A new text, or the end of a pause: a new buffer and a new approval.
Renewed(d, text, corrects) ==
  [d EXCEPT !.status = IF d.approval THEN "PENDING" ELSE "QUEUED", !.approved = NoText,
            !.due = FALSE, !.text = text, !.corrects = corrects]

\* The latest submitted correction of row r, 0 when there is none.
Baseline(rs, r) ==
  LET corrected == {c \in DOMAIN rs : r \in rs[c].correctionOf /\ rs[c].status \in Submitted}
  IN  CHOOSE c \in corrected \cup {0} : \A b \in corrected : b <= c

\* changedOriginal: what the customer was told last of row r is not true.
IsChanged(rs, r) ==
  LET base == Baseline(rs, r)
      told == IF base # 0 /\ r \in rs[base].corrects THEN rs[base].text ELSE rs[r].text
  IN  source # "Deleting" /\ told # Live

\* refreshCorrectionInTransaction
RefreshedCorrection(rs, r) ==
  LET d == rs[r]
      changes == {o \in d.correctionOf : IsChanged(rs, o)}
  IN  IF consent = "Out" THEN CancelledRow(d)
      ELSE IF source = "Deleting" THEN PausedRow(d)
      ELSE IF changes = {} THEN CancelledRow(d)
      ELSE IF d.text = Live /\ d.corrects = changes /\ d.status # "PAUSED" THEN d
      ELSE Renewed(d, Live, changes)

\* refreshWhatsAppInTransaction with pendingDeliveryUpdate
Refreshed(rs, r) ==
  LET d == rs[r]
  IN  IF d.status \notin Editable THEN d
      ELSE IF ~AncestorsFailed(rs, r) THEN CancelledRow(d)
      ELSE IF d.correctionOf # {} THEN RefreshedCorrection(rs, r)
      ELSE IF source = "Removed" \/ consent # "Before" THEN CancelledRow(d)
      ELSE IF source = "Deleting" THEN PausedRow([d EXCEPT !.text = version])
      ELSE IF d.text = version /\ d.status # "PAUSED" THEN d
      ELSE Renewed(d, version, {})

-----------------------------------------------------------------------------
\* updatedAt changes with the row: the administrator's screen is stale.
Write(r, d) == /\ rows' = [rows EXCEPT ![r] = d]
               /\ seen' = IF d = rows[r] THEN seen ELSE seen \ {r}

WriteAll(f(_)) == /\ rows' = [r \in DOMAIN rows |-> f(r)]
                  /\ seen' = {r \in seen : f(r) = rows[r]}

NewRow(retryOf, correctionOf, key, text) ==
  LET approval == TestMode \/ correctionOf # {}
  IN  [retryOf |-> retryOf, correctionOf |-> correctionOf, key |-> key, text |-> text,
       corrects |-> {}, approval |-> approval, approved |-> NoText, due |-> FALSE,
       status |-> IF approval THEN "PENDING" ELSE "QUEUED",
       claimed |-> FALSE, known |-> 0, code |-> "None"]

\* A row is created and refreshed by the same transaction.
Created(d) == LET rs == Append(rows, d) IN [rs EXCEPT ![Len(rs)] = Refreshed(rs, Len(rs))]

HasRoom == Len(rows) < MaxRows

\* projectWhatsAppBusinessEvents, enqueueWhatsAppInTransaction: the delivery
\* of the event, unless it has one.
Project ==
  /\ HasRoom /\ source # "Removed" /\ consent = "Before"
  /\ \A r \in DOMAIN rows : rows[r].correctionOf # {}
  /\ rows' = Created(NewRow(0, {}, {}, version))
  /\ UNCHANGED <<business, seen, session, messages, applied>>

\* The projector reconciles a pending row.
Reconcile(r) ==
  /\ Write(r, Refreshed(rows, r))
  /\ UNCHANGED <<business, session, messages, applied>>

\* Corrections that wait: findFirst with the editable statuses.
ActiveCorrections == {r \in DOMAIN rows : rows[r].correctionOf # {} /\ rows[r].status \in Editable}

\* projectWhatsAppCorrections: the submitted rows that are not true any more
\* share one correction, planned once per change and baseline.
Correct ==
  LET originals == {r \in DOMAIN rows : /\ rows[r].correctionOf = {}
                                        /\ rows[r].status \in Submitted
                                        /\ IsChanged(rows, r)}
      key == {<<r, Live, Baseline(rows, r)>> : r \in originals}
  IN  /\ originals # {} /\ \A r \in DOMAIN rows : rows[r].key # key
      /\ \/ \E a \in ActiveCorrections :
              LET rs == [rows EXCEPT ![a].key = key, ![a].correctionOf = originals,
                                     ![a].status = "PENDING", ![a].approved = NoText,
                                     ![a].due = FALSE]
              IN  Write(a, RefreshedCorrection(rs, a))
         \/ /\ ActiveCorrections = {} /\ HasRoom
            /\ rows' = Created(NewRow(0, originals, key, NoText)) /\ UNCHANGED seen
      /\ UNCHANGED <<business, session, messages, applied>>

BufferEnds(r) ==
  /\ rows[r].status \in {"PENDING", "QUEUED"} /\ ~rows[r].due
  /\ rows' = [rows EXCEPT ![r].due = TRUE]
  /\ UNCHANGED <<business, seen, session, messages, applied>>

-----------------------------------------------------------------------------
(* The administrator.                                                      *)

\* The page refreshes the row and shows it.
View(r) ==
  /\ r \notin seen /\ rows' = [rows EXCEPT ![r] = Refreshed(rows, r)]
  /\ rows'[r].status = "PENDING" /\ seen' = seen \cup {r}
  /\ UNCHANGED <<business, session, messages, applied>>

\* POST approve: the row that is refreshed must be the row that was seen.
Approve(r) ==
  /\ r \in seen
  /\ LET d == Refreshed(rows, r)
     IN  IF d = rows[r] /\ d.status = "PENDING"
         THEN Write(r, [d EXCEPT !.status = "QUEUED", !.approved = d.text])
         ELSE Write(r, d)
  /\ UNCHANGED <<business, session, messages, applied>>

\* cancelWhatsAppInTransaction
Cancel(r) ==
  /\ rows[r].status \in Editable /\ ~rows[r].claimed
  /\ Write(r, CancelledRow(rows[r]))
  /\ UNCHANGED <<business, session, messages, applied>>

\* retryFailedWhatsApp: rolled back unless the new row may still be sent.
Retry(r) ==
  /\ HasRoom
  /\ IsExplicitFailure(rows[r]) /\ AncestorsFailed(rows, r)
  /\ \A c \in DOMAIN rows : rows[c].retryOf # r
  /\ LET rs == Created(NewRow(r, rows[r].correctionOf, {}, rows[r].text))
     IN  VerifiedFailed(rs, Len(rs)) /\ rs[Len(rs)].status \in Editable /\ rows' = rs
  /\ UNCHANGED <<business, seen, session, messages, applied>>

-----------------------------------------------------------------------------
(* The business and the customer.                                          *)

\* The receipt, or a name, number or phone shown with it, is edited.
Edit ==
  /\ source # "Removed"
  /\ version' \in 0..MaxVersion \ {version}
  /\ UNCHANGED <<source, consent, rows, seen, session, messages, applied>>

\* pauseWhatsAppForDeletion with the filing of a deletion request
RequestDeletion ==
  /\ source = "Live" /\ source' = "Deleting"
  /\ LET paused(r) == IF /\ rows[r].status \in Editable /\ ~rows[r].claimed
                         /\ rows[r].correctionOf = {}
                      THEN PausedRow(rows[r]) ELSE rows[r]
     IN  WriteAll(paused)
  /\ UNCHANGED <<version, consent, session, messages, applied>>

DecideDeletion ==
  /\ source = "Deleting" /\ source' \in {"Live", "Removed"}
  /\ UNCHANGED <<version, consent, rows, seen, session, messages, applied>>

\* POST whatsapp-contacts
OptOut ==
  /\ consent # "Out" /\ consent' = "Out"
  /\ LET revoked(r) == IF rows[r].status \in Editable THEN CancelledRow(rows[r]) ELSE rows[r]
     IN  WriteAll(revoked)
  /\ UNCHANGED <<version, source, session, messages, applied>>

OptIn ==
  /\ consent = "Out" /\ consent' = "Again"
  /\ UNCHANGED <<version, source, rows, seen, session, messages, applied>>
-----------------------------------------------------------------------------
(* dispatchWhatsAppDelivery.  A row is claimed at most once: its token is   *)
(* only released with a status from which it is never claimed again.        *)

\* The first refresh, and the look at the ancestors here and at the provider.
Preview(w, r) ==
  /\ session[w] = Idle
  /\ Write(r, Refreshed(rows, r))
  /\ session' = IF /\ rows'[r].status = "QUEUED" /\ rows'[r].due
                   /\ AncestorsFailed(rows', r) /\ VerifiedFailed(rows', r)
                THEN [session EXCEPT ![w] = [step |-> "Previewed", row |-> r]] ELSE session
  /\ UNCHANGED <<business, messages, applied>>

\* The second refresh, in the transaction of the claim.
Candidate(r) == Refreshed(rows, r)

\* claimWhatsAppInTransaction
Claimable(d) ==
  /\ d.status = "QUEUED" /\ d.due /\ ~d.claimed
  /\ d.approval => d.approved # NoText
  /\ consent # "Out"

Claim(w) ==
  /\ session[w].step = "Previewed"
  /\ LET r == session[w].row
         d == Candidate(r)
     IN  IF Claimable(d)
         THEN /\ Write(r, [d EXCEPT !.status = "SENDING", !.claimed = TRUE, !.due = FALSE])
              /\ session' = [session EXCEPT ![w] =
                   [step |-> IF d.retryOf = 0 THEN "Checked" ELSE "Claimed", row |-> r,
                    text |-> d.text]]
         ELSE Write(r, d) /\ session' = [session EXCEPT ![w] = Idle]
  /\ UNCHANGED <<business, messages, applied>>

\* The row while this dispatch still holds it.
Held(r) == rows[r].status = "SENDING" /\ rows[r].claimed

\* A last look at the ancestors of a retry, outside of a transaction.
CheckAncestors(w) ==
  /\ session[w].step = "Claimed"
  /\ LET r == session[w].row
     IN  IF AncestorsFailed(rows, r)
         THEN session' = [session EXCEPT ![w].step = "Checked"] /\ UNCHANGED <<rows, seen>>
         ELSE /\ session' = [session EXCEPT ![w] = Idle]
              /\ Write(r, IF Held(r) THEN CancelledRow(rows[r]) ELSE rows[r])
  /\ UNCHANGED <<business, messages, applied>>

\* sendYCloudTemplate: the provider refuses the message, or accepts it and
\* answers, or the answer is lost, or the request never reached it.
Post(w) ==
  /\ session[w].step = "Checked"
  /\ \E answer \in {"Accepted", "Rejected", "Lost", "Unreached"} :
       /\ messages' = IF answer \in {"Accepted", "Lost"}
                      THEN Append(messages, [row |-> session[w].row, text |-> session[w].text,
                                             status |-> "ACCEPTED", past |-> {}, coded |-> FALSE])
                      ELSE messages
       /\ session' = [session EXCEPT ![w] =
            [step |-> "Answered", row |-> session[w].row,
             answer |-> IF answer \in {"Lost", "Unreached"} THEN "Uncertain" ELSE answer,
             message |-> IF answer = "Accepted" THEN Len(messages') ELSE 0]]
  /\ UNCHANGED <<business, rows, seen, applied>>

\* Fault: the answer is written over whatever the callbacks reported.
RecordOver(d, s) ==
  CASE s.answer = "Rejected" -> [d EXCEPT !.status = "FAILED", !.code = "PROVIDER_REJECTED", !.claimed = FALSE]
    [] s.answer = "Accepted" -> [d EXCEPT !.status = "ACCEPTED", !.known = s.message]
    [] OTHER -> [d EXCEPT !.status = "UNCERTAIN"]

\* What the answer makes of the row: nothing when a callback or the expiry of
\* the claim came first.
Recorded(d, s) ==
  IF ~(d.status = "SENDING" /\ d.claimed) THEN d
  ELSE CASE s.answer = "Rejected" ->
              [d EXCEPT !.status = "FAILED", !.code = "PROVIDER_REJECTED", !.claimed = FALSE]
         [] s.answer = "Accepted" -> [d EXCEPT !.status = "ACCEPTED", !.known = s.message]
         [] OTHER -> [d EXCEPT !.status = "UNCERTAIN"]

Record(w) ==
  /\ session[w].step = "Answered"
  /\ Write(session[w].row, Recorded(rows[session[w].row], session[w]))
  /\ session' = [session EXCEPT ![w] = Idle]
  /\ UNCHANGED <<business, messages, applied>>

\* The process dies: what it claimed stays claimed.
Crash(w) ==
  /\ session[w] # Idle /\ session' = [session EXCEPT ![w] = Idle]
  /\ UNCHANGED <<business, rows, seen, messages, applied>>

\* The trigger gives a claim of two minutes ago up, never back.
ExpireClaim(r) ==
  /\ rows[r].status = "SENDING"
  /\ Write(r, [rows[r] EXCEPT !.status = "UNCERTAIN"])
  /\ UNCHANGED <<business, session, messages, applied>>

-----------------------------------------------------------------------------
(* The provider and its callbacks, which arrive late, again, in any order.  *)

Follows(s, next) ==
  \/ next = "FAILED" /\ s \in {"ACCEPTED", "SENT"}
  \/ next # "FAILED" /\ s # "FAILED" /\ Rank[next] > Rank[s]
  \/ Revives /\ s = "FAILED" /\ next = "DELIVERED"

Provider(m) ==
  /\ \E s \in Reports, coded \in BOOLEAN :
       /\ Follows(messages[m].status, s) /\ (coded => s = "FAILED")
       /\ messages' = [messages EXCEPT ![m].status = s, ![m].past = @ \cup {s},
                                       ![m].coded = IF s = "FAILED" THEN coded ELSE @]
  /\ UNCHANGED <<business, rows, seen, session, applied>>

\* Fault: a callback is matched by the provider's identifier only.
MatchedById(d, m) == d.known = m

\* The row is found by the provider's identifier, or by ours before it is known.
Matched(d, m) == d.known \in {0, m}

\* storeYCloudDeliveryEvent: a status only progresses.
Webhook(m, s) ==
  /\ s \in messages[m].past /\ <<m, s>> \notin applied
  /\ LET r == messages[m].row
         d == rows[r]
     IN  /\ Matched(d, m) /\ Rank[d.status] >= 0
         /\ Write(r, IF Rank[s] > Rank[d.status]
                     THEN [d EXCEPT !.status = s, !.known = m,
                             !.code = IF s = "FAILED" /\ messages[m].coded THEN "REPORTED" ELSE "None"]
                     ELSE d)
  /\ applied' = applied \cup {<<m, s>>}
  /\ UNCHANGED <<business, session, messages>>

-----------------------------------------------------------------------------
Init ==
  /\ version = 0 /\ source = "Live" /\ consent = "Before"
  /\ rows = << >> /\ seen = {} /\ messages = << >> /\ applied = {}
  /\ session = [w \in Workers |-> Idle]

Next ==
  \/ Project \/ Correct \/ Edit \/ RequestDeletion \/ DecideDeletion \/ OptOut \/ OptIn
  \/ \E r \in DOMAIN rows : \/ Reconcile(r) \/ BufferEnds(r) \/ View(r) \/ Approve(r)
                            \/ Cancel(r) \/ Retry(r) \/ ExpireClaim(r)
                            \/ \E w \in Workers : Preview(w, r)
  \/ \E w \in Workers : Claim(w) \/ CheckAncestors(w) \/ Post(w) \/ Record(w) \/ Crash(w)
  \/ \E m \in DOMAIN messages : Provider(m) \/ \E s \in messages[m].past : Webhook(m, s)

\* The provider repeats a callback until it is answered with 200.
Fairness == \A m \in 1..MaxRows, s \in Reports : WF_vars(m \in DOMAIN messages /\ Webhook(m, s))

Spec == Init /\ [][Next]_vars
FairSpec == Spec /\ Fairness
=============================================================================
