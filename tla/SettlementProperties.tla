------------------------ MODULE SettlementProperties ------------------------
(***************************************************************************)
(* What the settlement of payment details guarantees, and what its         *)
(* documentation and messages say of it.                                   *)
(***************************************************************************)
EXTENDS Settlement

\* Type correctness: every column holds one of the values its type allows.
TypeOK ==
  /\ receiptStatus \in [Receipts -> ReceiptStatuses \cup NoRow]
  /\ auto \subseteq Receipts
  /\ detailStatus \in [Details -> DetailStatuses \cup NoRow]
  /\ total \in [Details -> Nat]
  /\ items \in [Details -> ItemRows]
  /\ swifts \in [Details -> SwiftRows]
  /\ issued \subseteq Swifts
  /\ request \in [Requests -> RequestRow]
  /\ session \in [Workers -> Session]

\* The SWIFTs of a detail never add up to more than its total, whatever the
\* order in which totals are edited, receipts deleted and SWIFTs added
\* (assertAmount, applyDetailUpdate, approveReceiptDeletion).
NeverOverpaid ==
  \A d \in Details : Transferred(swifts[d]) <= total[d]

\* The stored total covers the stored items, after every edit and every
\* deletion of a receipt (createDetailRecord, applyDetailUpdate,
\* approveReceiptDeletion).
TotalCoversItems ==
  \A d \in Details : total[d] >= SumOf(items[d])

\* A detail with SWIFTs carries the status they imply under a fee setting
\* that was in force; one without is waiting or was completed by receipts
\* (syncSwiftTransferState is called after every change of its inputs).
StatusExplained ==
  \A d \in LiveDetails :
    IF DOMAIN swifts[d] = {}
      THEN detailStatus[d] \in {"Waiting_SWIFT", "RECEIVED"}
      ELSE \E fee \in Fees :
             detailStatus[d] = SummaryStatus(total[d], swifts[d], fee)

\* Items and SWIFTs belong to details that exist, and an item links a
\* receipt that exists and is signed.
LinksAreLive ==
  \A d \in Details :
    /\ d \notin LiveDetails => items[d] = NoRows /\ swifts[d] = NoRows
    /\ \A r \in Linked(items[d]) :
         receiptStatus[r] \notin NoRow \cup {"SIGNING_PENDING"}

\* An approved deletion request means that its target is gone, for good.
ApprovedTargetGone ==
  \A q \in Requests :
    request[q].status = "APPROVED" => ~Exists(request[q].target)
-----------------------------------------------------------------------------
\* Row b is row a, or a is gone.
OnlyDropped(before, after) ==
  \A k \in DOMAIN after : k \in DOMAIN before /\ after[k] = before[k]

\* Nobody edits the items or the SWIFTs of a RECEIVED detail: all that can
\* happen to them is deletion (the RECEIVED guards of applyDetailUpdate,
\* createSwiftRecord and applySwiftUpdate; markSwiftReceived has none, and
\* relies on a RECEIVED detail having no SWIFT left to sign).
FrozenStep ==
  \A d \in Details : detailStatus[d] = "RECEIVED" =>
    /\ OnlyDropped(items[d], items'[d])
    /\ OnlyDropped(swifts[d], swifts'[d])

ReceivedDetailIsFrozen == [][FrozenStep]_vars

\* A detail loses RECEIVED only in a step that deletes it, one of its SWIFTs
\* or a receipt (approveReceiptDeletion judges again the details that linked
\* the receipt when it looked).
UnreceivedStep ==
  \A d \in Details :
    detailStatus[d] = "RECEIVED" /\ detailStatus'[d] # "RECEIVED" =>
      \/ detailStatus'[d] = "Deleted"
      \/ \E s \in DOMAIN swifts[d] : s \notin DOMAIN swifts'[d]
      \/ \E r \in LiveReceipts : receiptStatus'[r] = "Deleted"

UnreceivedOnlyByDeletion == [][UnreceivedStep]_vars

\* A signed SWIFT keeps its amount and its signature until it is deleted.
SignedStep ==
  \A d \in Details : \A s \in DOMAIN swifts[d] :
    swifts[d][s].status = "RECEIVED" /\ s \in DOMAIN swifts'[d] =>
      swifts'[d][s] = swifts[d][s]

SignedSwiftIsFinal == [][SignedStep]_vars

\* The step that makes a detail RECEIVED leaves every receipt that only it
\* links RECEIVED as well, on each of the ways there: the last SWIFT is
\* signed, the last receipt is marked, a SWIFT or a receipt is deleted.
CompletionStep ==
  \A d \in Details :
    detailStatus[d] # "RECEIVED" /\ detailStatus'[d] = "RECEIVED" =>
      \A r \in Linked(items'[d]) :
        LinkedTo(r) \subseteq {d} => receiptStatus'[r] = "RECEIVED"

CompletionReceivesReceipts == [][CompletionStep]_vars

-----------------------------------------------------------------------------
Contract == INSTANCE PaymentContract WITH
  phase  <- detailStatus,
  due    <- total,
  paid   <- [d \in Details |-> Transferred(swifts[d])],
  copies <- [d \in Details |-> Cardinality(DOMAIN swifts[d])]

\* Every transaction does to each payment detail one of the things that the
\* contract allows, or nothing: no race of handlers leads outside of it.
ImplementsContract == Contract!Spec
-----------------------------------------------------------------------------
(***************************************************************************)
(* Statements of the repository that the code does not keep.               *)
(***************************************************************************)

\* "Deletion is forbidden in the RECEIVED state", a message of
\* deletion-service.ts about payment details.
ReceivedDetailNeverDeleted ==
  [][\A d \in Details :
        detailStatus[d] = "RECEIVED" => detailStatus'[d] # "Deleted"]_vars

\* "This request has been processed" (deletion-service.ts): the decision on
\* a request is final.
DecisionIsFinal ==
  [][\A q \in Requests :
        request[q].status \in {"APPROVED", "REJECTED"} => request'[q] = request[q]]_vars

\* "`totalAmount` continues to be derived from approved `items[]`", the design
\* of the edit requests; the log of the project lists as repaired that a
\* deleted receipt stayed in the total.
TotalIsSumOfItems ==
  \A d \in Details : total[d] = SumOf(items[d])
=============================================================================
