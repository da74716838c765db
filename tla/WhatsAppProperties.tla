------------------------- MODULE WhatsAppProperties -------------------------
(***************************************************************************)
(* What the delivery of WhatsApp messages guarantees.                      *)
(***************************************************************************)
EXTENDS WhatsAppDelivery

\* Type correctness; a row is created with a text, retries an earlier row, and
\* corrects deliveries that are no corrections themselves.
TypeOK ==
  /\ version \in 0..MaxVersion /\ source \in {"Live", "Deleting", "Removed"}
  /\ consent \in {"Before", "Out", "Again"}
  /\ Len(rows) <= MaxRows /\ seen \subseteq {r \in DOMAIN rows : rows[r].status = "PENDING"}
  /\ \A r \in DOMAIN rows : /\ rows[r].retryOf < r
                            /\ \A o \in rows[r].correctionOf :
                                 o \in DOMAIN rows /\ rows[o].correctionOf = {}
                            /\ rows[r].corrects \subseteq rows[r].correctionOf
                            /\ rows[r].key = {} \/ rows[r].correctionOf # {}
                            /\ rows[r].text = NoText => rows[r].status \in {"CANCELLED", "PAUSED"}
  /\ \A m \in DOMAIN messages : messages[m].row \in DOMAIN rows
  /\ \A w \in Workers : session[w] = Idle \/ session[w].row \in DOMAIN rows

\* Two messages of one delivery and its retries reach the provider only when
\* it had reported the earlier as failed: through crashes, expired claims and
\* lost answers (claimWhatsAppInTransaction, retryFailedWhatsApp).
NoDuplicate ==
  \A m, n \in DOMAIN messages :
    m < n /\ messages[m].row \in {messages[n].row} \cup Ancestors(rows, messages[n].row)
      => "FAILED" \in messages[m].past

\* A delivery that needs an approval is queued or sent with the text the
\* administrator approved, and what the provider was given is that text
\* (the approval, the refreshes and the claim each rewrite the row).
ApprovalCoversText ==
  /\ \A r \in DOMAIN rows : rows[r].approval /\ rows[r].status \in {"QUEUED", "SENDING"} =>
       rows[r].approved = rows[r].text
  /\ \A m \in DOMAIN messages : LET d == rows[messages[m].row] IN
       d.approval => messages[m].text = d.approved

\* What the provider reported is never taken back, whatever the order of its
\* callbacks and of the answer to the dispatch.
ReportsAreKept ==
  \A e \in applied : Rank[rows[messages[e[1]].row].status] >= Rank[e[2]]

\* What a dispatch claims says what the business says at that moment, to a
\* customer who still agrees and whose receipt is not under review, and no
\* delivery it retries is known to have succeeded: whatever happened while
\* the provider was asked (dispatchWhatsAppDelivery refreshes twice).
ClaimedIsCurrent ==
  [][\A r \in DOMAIN rows : rows[r].status # "SENDING" /\ rows'[r].status = "SENDING" =>
       /\ rows'[r].text = Live /\ source # "Deleting" /\ consent # "Out"
       /\ \A a \in Ancestors(rows, r) : rows[a].status = "FAILED"]_vars

\* A message that reached the customer is known to have, even when its
\* dispatch died or lost the answer (storeYCloudDeliveryEvent matches by
\* externalId).
DeliveriesBecomeKnown ==
  \A m \in 1..MaxRows :
    (m \in DOMAIN messages /\ "DELIVERED" \in messages[m].past) ~>
      (m \in DOMAIN messages /\ rows[messages[m].row].status \in {"DELIVERED", "READ"})
=============================================================================
