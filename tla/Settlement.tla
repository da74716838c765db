----------------------------- MODULE Settlement -----------------------------
(***************************************************************************)
(* Receipts, the payment details that bundle them, the SWIFT transfers     *)
(* that pay the details, and the requests to delete any of the three.      *)
(*                                                                         *)
(* An action is one database transaction.  A handler that decides on data  *)
(* it read before its transaction, or that reads without a lock inside it, *)
(* takes two actions: the first leaves what it read in the session of the  *)
(* worker that runs it, the second commits.  Handlers that lock the row of *)
(* the payment detail before they read (lockSwiftDetail) take one.         *)
(***************************************************************************)
EXTENDS SwiftTransfer

CONSTANTS
  Receipts,      \* receipt identifiers
  LooseRows,     \* identifiers of item rows that link no receipt
  Details,       \* payment detail identifiers
  Swifts,        \* SWIFT identifiers
  Requests,      \* deletion request identifiers
  Workers,       \* server requests in flight
  Fees           \* values the setting SWIFT_MAX_FEE_PER_COPY takes

ASSUME FinitenessAssumption ==
  /\ IsFiniteSet(Receipts) /\ IsFiniteSet(LooseRows)
  /\ IsFiniteSet(Details) /\ IsFiniteSet(Swifts)
ASSUME FeesAssumption == Fees \subseteq Nat
ASSUME DisjointAssumption ==
  /\ Receipts \cap LooseRows = {}
  /\ Receipts \cap (Details \cup Swifts) = {}
  /\ Details \cap Swifts = {}

VARIABLES
  receiptStatus, \* Receipt.status, or "Unused" / "Deleted" for no row
  auto,          \* receipts whose note says a payment detail created them
  detailStatus,  \* Detail.status, or "Unused" / "Deleted" for no row
  total,         \* Detail.totalAmount
  items,         \* the DetailItem rows of each detail: receipt |-> amount
  swifts,        \* the Swift rows of each detail: swift |-> row
  issued,        \* SWIFT identifiers ever used; identifiers are not reused
  request,       \* the DeletionRequest table
  session        \* what each server request in flight has read

vars == <<receiptStatus, auto, detailStatus, total, items, swifts, issued,
          request, session>>

\* Everything but the requests and the handlers in flight.
ledger == <<receiptStatus, auto, detailStatus, total, items, swifts, issued>>
-----------------------------------------------------------------------------
NoRow           == {"Unused", "Deleted"}
ReceiptStatuses == {"SR_Received", "SIGNING_PENDING", "Waiting_SWIFT",
                    "Bank_Transfer", "RECEIVED"}
DetailStatuses  == {"Waiting_SWIFT", "Bank_Transfer", "RECEIVED", "ERROR"}

Slots   == Receipts \cup LooseRows
Targets == Receipts \cup Details \cup Swifts

ItemRows  == Rows(Slots, Amounts)
SwiftRows == Rows(Swifts, SwiftRow)

NoRequest == [status |-> "None"]
RequestRow ==
  {NoRequest} \cup
  [status : {"PENDING", "APPROVED", "REJECTED"}, target : Targets]

Idle == [op |-> "idle"]
Session ==
  {Idle}
  \cup [op : {"create"}, direct : BOOLEAN, rows : ItemRows, created : SUBSET Receipts]
  \cup [op : {"mark", "finalize"}, receipt : Receipts]
  \cup [op : {"request"}, target : Targets]
  \cup [op : {"reject"}, request : Requests]
  \cup [op : {"approve"}, request : Requests, found : BOOLEAN,
        linked : SUBSET Receipts, affected : SUBSET Details]

LiveReceipts == {r \in Receipts : receiptStatus[r] \notin NoRow}
LiveDetails  == {d \in Details : detailStatus[d] \notin NoRow}
Linked(itemRows) == DOMAIN itemRows \cap Receipts
LinkedTo(r)      == {d \in Details : r \in DOMAIN items[d]}
OwnerOf(s)       == {d \in Details : s \in DOMAIN swifts[d]}

\* The statuses of the receipts after updateMany over the identifiers ids: a
\* receipt that was deleted in the meantime matches no row.
SetStatus(ids, status) ==
  [r \in Receipts |-> IF r \in ids /\ receiptStatus[r] # "Deleted"
                        THEN status ELSE receiptStatus[r]]

\* ... and after syncSwiftTransferState, which spares unsigned receipts.
Synced(statuses, ids, summaryStatus) ==
  [r \in Receipts |->
     IF r \in ids /\ statuses[r] # "SIGNING_PENDING"
       THEN ReceiptStatusOf(summaryStatus) ELSE statuses[r]]
-----------------------------------------------------------------------------
Init ==
  /\ receiptStatus = [r \in Receipts |-> "Unused"]
  /\ auto = {}
  /\ detailStatus = [d \in Details |-> "Unused"]
  /\ total = [d \in Details |-> 0]
  /\ items = [d \in Details |-> NoRows]
  /\ swifts = [d \in Details |-> NoRows]
  /\ issued = {}
  /\ request = [q \in Requests |-> NoRequest]
  /\ session = [w \in Workers |-> Idle]

\* A worker begins a handler with what it read, ends it, or loses it: an
\* error, a crash or a closed connection drops whatever did not commit.
Begin(w, read) ==
  /\ session[w] = Idle
  /\ session' = [session EXCEPT ![w] = read]
  /\ UNCHANGED <<ledger, request>>

Finish(w) == session' = [session EXCEPT ![w] = Idle]

Abandon(w) ==
  /\ session[w] # Idle
  /\ Finish(w)
  /\ UNCHANGED <<ledger, request>>
-----------------------------------------------------------------------------
(***************************************************************************)
(* Receipts.                                                               *)
(***************************************************************************)
CreateReceipt(r) ==
  /\ receiptStatus[r] = "Unused"
  /\ receiptStatus' = [receiptStatus EXCEPT ![r] = "SR_Received"]
  /\ UNCHANGED <<auto, detailStatus, total, items, swifts, issued, request,
                 session>>

\* The receipt generator issues a receipt that waits for its signatures.
CreateUnsigned(r) ==
  /\ receiptStatus[r] = "Unused"
  /\ receiptStatus' = [receiptStatus EXCEPT ![r] = "SIGNING_PENDING"]
  /\ UNCHANGED <<auto, detailStatus, total, items, swifts, issued, request,
                 session>>

\* Finalising checks the status, writes three files, and only then commits.
BeginFinalize(w, r) ==
  /\ receiptStatus[r] = "SIGNING_PENDING"
  /\ Begin(w, [op |-> "finalize", receipt |-> r])

Finalize(w) ==
  /\ session[w].op = "finalize"
  /\ session[w].receipt \in LiveReceipts
  /\ receiptStatus' = [receiptStatus EXCEPT ![session[w].receipt] = "SR_Received"]
  /\ Finish(w)
  /\ UNCHANGED <<auto, detailStatus, total, items, swifts, issued, request>>

BeginMark(w, r) ==
  /\ r \in LiveReceipts
  /\ receiptStatus[r] \notin {"RECEIVED", "SIGNING_PENDING"}
  /\ Begin(w, [op |-> "mark", receipt |-> r])

\* A detail with SWIFTs must be complete; one without is complete once all
\* its receipts are.
MarkReceiptReceived(w, fee) ==
  LET r      == session[w].receipt
      marked == [receiptStatus EXCEPT ![r] = "RECEIVED"]
      paid   == {d \in LinkedTo(r) : DOMAIN swifts[d] # {}}
      done   == {d \in LinkedTo(r) :
                   d \in paid \/ \A x \in Linked(items[d]) : marked[x] = "RECEIVED"}
  IN
  /\ session[w].op = "mark"
  /\ r \in LiveReceipts
  /\ \A d \in paid : IsComplete(total[d], swifts[d], fee)
  /\ receiptStatus' =
       Synced(marked, UNION {Linked(items[d]) : d \in paid}, "RECEIVED")
  /\ detailStatus' =
       [d \in Details |-> IF d \in done THEN "RECEIVED" ELSE detailStatus[d]]
  /\ Finish(w)
  /\ UNCHANGED <<auto, total, items, swifts, issued, request>>
-----------------------------------------------------------------------------
(***************************************************************************)
(* Payment details.  processDetailItems resolves every item row to a       *)
(* receipt that exists, or to one that it creates in the transaction.      *)
(***************************************************************************)
Created(itemRows) == {r \in Linked(itemRows) : receiptStatus[r] = "Unused"}

Accessible(itemRows) ==
  \A r \in Linked(itemRows) : receiptStatus[r] \notin {"SIGNING_PENDING", "Deleted"}

\* Fault: the total is forgotten when the items are replaced.
SetItemsOnly(d, itemRows) ==
  /\ items' = [items EXCEPT ![d] = itemRows]
  /\ total' = total

SetItems(d, itemRows) ==
  /\ items' = [items EXCEPT ![d] = itemRows]
  /\ total' = [total EXCEPT ![d] = SumOf(itemRows)]

\* Fault: a completed payment detail can still be changed.
OpenAlways(d) == d \in LiveDetails

Open(d) == d \in LiveDetails /\ detailStatus[d] # "RECEIVED"

\* In direct mode an existing receipt must still be free.
BeginCreateDetail(w, direct, itemRows) ==
  /\ DOMAIN itemRows # {}
  /\ Accessible(itemRows)
  /\ direct => \A r \in Linked(itemRows) : receiptStatus[r] \in {"SR_Received", "Unused"}
  /\ Begin(w, [op |-> "create", direct |-> direct, rows |-> itemRows,
               created |-> Created(itemRows)])

\* Fault: an item row may reference a receipt that is gone.
ReferencesUnchecked(itemRows, created) ==
  \A r \in created : receiptStatus[r] = "Unused"

\* The foreign key of an item row holds when the row is inserted, and a
\* receipt created with the detail has a new identifier.
ReferencesHold(itemRows, created) ==
  /\ Linked(itemRows) \ created \subseteq LiveReceipts
  /\ \A r \in created : receiptStatus[r] = "Unused"

CreateDetail(w, d) ==
  /\ session[w].op = "create"
  /\ detailStatus[d] = "Unused"
  /\ ReferencesHold(session[w].rows, session[w].created)
  /\ auto' = auto \cup session[w].created
  /\ receiptStatus' = SetStatus(Linked(session[w].rows), "Waiting_SWIFT")
  /\ detailStatus' = [detailStatus EXCEPT ![d] = "Waiting_SWIFT"]
  /\ SetItems(d, session[w].rows)
  /\ Finish(w)
  /\ UNCHANGED <<swifts, issued, request>>

UpdateDetail(d, itemRows, fee) ==
  LET linked == Linked(itemRows)
      first  == SetStatus(linked, IF detailStatus[d] = "Bank_Transfer"
                                    THEN "Bank_Transfer" ELSE "Waiting_SWIFT")
      status == SummaryStatus(SumOf(itemRows), swifts[d], fee)
      paid   == DOMAIN swifts[d] # {}
  IN
  /\ Open(d)
  /\ DOMAIN itemRows # {}
  /\ ~IsOverpaid(SumOf(itemRows), swifts[d])
  /\ Accessible(itemRows)
  /\ auto' = auto \cup Created(itemRows)
  /\ SetItems(d, itemRows)
  /\ receiptStatus' = IF paid THEN Synced(first, linked, status) ELSE first
  /\ detailStatus' = [detailStatus EXCEPT ![d] = IF paid THEN status ELSE @]
  /\ UNCHANGED <<swifts, issued, request, session>>
-----------------------------------------------------------------------------
(***************************************************************************)
(* SWIFT transfers.  Every handler locks the detail, changes its rows and  *)
(* synchronises the detail and its receipts with the new rows.             *)
(***************************************************************************)
SyncSwiftTransferState(d, swiftRows, fee) ==
  LET status == SummaryStatus(total[d], swiftRows, fee) IN
  /\ swifts' = [swifts EXCEPT ![d] = swiftRows]
  /\ detailStatus' = [detailStatus EXCEPT ![d] = status]
  /\ receiptStatus' = Synced(receiptStatus, Linked(items[d]), status)
  /\ UNCHANGED <<auto, total, items>>

WithSwift(d, s, row) ==
  [x \in DOMAIN swifts[d] \cup {s} |-> IF x = s THEN row ELSE swifts[d][x]]

\* Fault: a signed SWIFT can be edited and signed again.
UnsignedOrNot(d, s) == s \in DOMAIN swifts[d]

Unsigned(d, s) == s \in DOMAIN swifts[d] /\ swifts[d][s].status # "RECEIVED"

CreateSwift(d, s, amount, fee) ==
  LET after == WithSwift(d, s, [amount |-> amount, status |-> "Bank_Transfer"]) IN
  /\ Open(d)
  /\ Transferred(swifts[d]) < total[d]
  /\ s \notin issued
  /\ Transferred(after) <= total[d]
  /\ SyncSwiftTransferState(d, after, fee)
  /\ issued' = issued \cup {s}
  /\ UNCHANGED <<request, session>>

UpdateSwift(d, s, amount, fee) ==
  LET after == WithSwift(d, s, [amount |-> amount, status |-> "Bank_Transfer"]) IN
  /\ Unsigned(d, s)
  /\ Open(d)
  /\ Transferred(after) <= total[d]
  /\ SyncSwiftTransferState(d, after, fee)
  /\ UNCHANGED <<issued, request, session>>

MarkSwiftReceived(d, s, fee) ==
  /\ Unsigned(d, s)
  /\ SyncSwiftTransferState(d,
       WithSwift(d, s, [swifts[d][s] EXCEPT !.status = "RECEIVED"]), fee)
  /\ UNCHANGED <<issued, request, session>>

\* Fault: a deleted SWIFT is not followed by a synchronisation.
DeleteSwiftOnly(d, s, fee) ==
  /\ s \in DOMAIN swifts[d]
  /\ swifts' = [swifts EXCEPT ![d] = Without(swifts[d], s)]
  /\ UNCHANGED <<receiptStatus, auto, detailStatus, total, items, issued,
                 request, session>>

DeleteSwift(d, s, fee) ==
  /\ s \in DOMAIN swifts[d]
  /\ SyncSwiftTransferState(d, Without(swifts[d], s), fee)
  /\ UNCHANGED <<issued, request, session>>
-----------------------------------------------------------------------------
(***************************************************************************)
(* Deletion requests.                                                      *)
(***************************************************************************)
Exists(t) ==
  \/ t \in LiveReceipts
  \/ t \in LiveDetails
  \/ t \in Swifts /\ OwnerOf(t) # {}

\* assertDeletionRequestableTarget: the status forbids it, except that an
\* administrator may ask to delete a received receipt.
Requestable(t, admin) ==
  /\ Exists(t)
  /\ t \in Receipts =>
       /\ receiptStatus[t] # "Bank_Transfer"
       /\ receiptStatus[t] = "RECEIVED" => admin
  /\ t \in Details => detailStatus[t] \notin {"RECEIVED", "Bank_Transfer"}

BeginRequest(w, t, admin) ==
  /\ \A q \in Requests : request[q].status # "None" => request[q].target # t
  /\ Requestable(t, admin)
  /\ Begin(w, [op |-> "request", target |-> t])

CreateRequest(w, q) ==
  /\ session[w].op = "request"
  /\ request[q].status = "None"
  /\ request' = [request EXCEPT ![q] =
                   [status |-> "PENDING", target |-> session[w].target]]
  /\ Finish(w)
  /\ UNCHANGED ledger

BeginReject(w, q) ==
  /\ request[q].status = "PENDING"
  /\ Begin(w, [op |-> "reject", request |-> q])

Reject(w) ==
  /\ session[w].op = "reject"
  /\ request' = [request EXCEPT ![session[w].request].status = "REJECTED"]
  /\ Finish(w)
  /\ UNCHANGED ledger

\* The approving transaction reads, without a lock, that the request is
\* pending, whether its target exists and, of a payment detail, its items, of
\* a receipt, the details that link it.
BeginApprove(w, q) ==
  LET t == request[q].target IN
  /\ request[q].status = "PENDING"
  /\ Begin(w, [op |-> "approve", request |-> q, found |-> Exists(t),
               linked |-> IF t \in Details THEN Linked(items[t]) ELSE {},
               affected |-> IF t \in Receipts THEN LinkedTo(t) ELSE {}])

\* The transaction that commits approves the request whatever it now says.
Approving(w, t) ==
  /\ session[w].op = "approve"
  /\ t = request[session[w].request].target
  /\ request' = [request EXCEPT ![session[w].request].status = "APPROVED"]
  /\ Finish(w)

\* Fault: a request is approved although its target is still there.
ApproveUnseen(w) ==
  \E t \in Targets : Approving(w, t) /\ UNCHANGED ledger

ApproveMissing(w) ==
  \E t \in Targets :
    /\ Approving(w, t)
    /\ ~session[w].found
    /\ UNCHANGED ledger

\* Every item of the receipt goes with it, but only the details that were
\* seen to link it get a new total and a new status.  They are synchronised one
\* after the other, so a receipt that several of them link keeps the status of
\* the last.  The transaction fails when a total no longer covers the SWIFTs.
ApproveReceiptDeletion(w, r, fee) ==
  LET hit     == session[w].affected
      left    == [d \in Details |-> Without(items[d], r)]
      sum     == [d \in hit |-> SumOf(left[d])]
      status  == [d \in hit |-> SummaryStatus(sum[d], swifts[d], fee)]
      touched == UNION {Linked(left[d]) : d \in hit}
  IN
  /\ Approving(w, r)
  /\ session[w].found
  /\ r \in LiveReceipts
  /\ hit \subseteq LiveDetails
  /\ \A d \in hit : ~IsOverpaid(sum[d], swifts[d])
  /\ items' = left
  /\ total' = [d \in Details |-> IF d \in hit THEN sum[d] ELSE total[d]]
  /\ detailStatus' = [d \in Details |-> IF d \in hit THEN status[d] ELSE detailStatus[d]]
  /\ \E last \in [touched -> hit] :
       /\ \A x \in touched : x \in DOMAIN left[last[x]]
       /\ receiptStatus' =
            [x \in Receipts |->
               IF x = r THEN "Deleted"
               ELSE IF x \in touched /\ receiptStatus[x] # "SIGNING_PENDING"
                      THEN ReceiptStatusOf(status[last[x]]) ELSE receiptStatus[x]]
  /\ UNCHANGED <<auto, swifts, issued>>

\* Receipts that a detail had created and that nothing else links.
Orphans(d, linked) == {r \in linked \cap auto : LinkedTo(r) \subseteq {d}}

\* Neither the lock nor the status of the detail is taken into account.  The
\* SWIFTs go with the detail; of its orphans, those that the same user created
\* go too.
ApproveDetailDeletion(w, d) ==
  LET linked == session[w].linked IN
  /\ Approving(w, d)
  /\ session[w].found
  /\ d \in LiveDetails
  /\ linked \subseteq LiveReceipts
  /\ items' = [items EXCEPT ![d] = NoRows]
  /\ swifts' = [swifts EXCEPT ![d] = NoRows]
  /\ total' = [total EXCEPT ![d] = 0]
  /\ detailStatus' = [detailStatus EXCEPT ![d] = "Deleted"]
  /\ \E orphans \in SUBSET Orphans(d, linked) :
       receiptStatus' = [r \in Receipts |->
                           IF r \in orphans THEN "Deleted"
                           ELSE IF r \in linked THEN "SR_Received"
                           ELSE receiptStatus[r]]
  /\ UNCHANGED <<auto, issued>>

ApproveSwiftDeletion(w, s, fee) ==
  /\ Approving(w, s)
  /\ session[w].found
  /\ \E d \in OwnerOf(s) :
       SyncSwiftTransferState(d, Without(swifts[d], s), fee)
  /\ UNCHANGED issued
-----------------------------------------------------------------------------
ReceiptStep ==
  \/ \E r \in Receipts : CreateReceipt(r) \/ CreateUnsigned(r)
  \/ \E w \in Workers, r \in Receipts : BeginFinalize(w, r) \/ BeginMark(w, r)
  \/ \E w \in Workers : Finalize(w)
  \/ \E w \in Workers, fee \in Fees : MarkReceiptReceived(w, fee)

DetailStep ==
  \/ \E w \in Workers, direct \in BOOLEAN, itemRows \in ItemRows :
       BeginCreateDetail(w, direct, itemRows)
  \/ \E w \in Workers, d \in Details : CreateDetail(w, d)
  \/ \E d \in Details, itemRows \in ItemRows, fee \in Fees :
       UpdateDetail(d, itemRows, fee)

SwiftStep ==
  \E d \in Details, s \in Swifts, fee \in Fees :
    \/ \E amount \in Amounts :
         CreateSwift(d, s, amount, fee) \/ UpdateSwift(d, s, amount, fee)
    \/ MarkSwiftReceived(d, s, fee)
    \/ DeleteSwift(d, s, fee)

RequestStep ==
  \E w \in Workers :
    \/ \E t \in Targets, admin \in BOOLEAN : BeginRequest(w, t, admin)
    \/ \E q \in Requests : CreateRequest(w, q) \/ BeginReject(w, q) \/ BeginApprove(w, q)
    \/ Reject(w)
    \/ ApproveMissing(w)
    \/ \E r \in Receipts, fee \in Fees : ApproveReceiptDeletion(w, r, fee)
    \/ \E d \in Details : ApproveDetailDeletion(w, d)
    \/ \E s \in Swifts, fee \in Fees : ApproveSwiftDeletion(w, s, fee)

Next ==
  \/ ReceiptStep
  \/ DetailStep
  \/ SwiftStep
  \/ RequestStep
  \/ \E w \in Workers : Abandon(w)

Spec == Init /\ [][Next]_vars
=============================================================================
