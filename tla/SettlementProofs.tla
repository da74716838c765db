-------------------------- MODULE SettlementProofs --------------------------
(***************************************************************************)
(* Theorems about Settlement, for any receipts, details, SWIFTs, requests, *)
(* workers, fees and amounts.                                              *)
(***************************************************************************)
EXTENDS SettlementProperties, SwiftTransferTheorems

-----------------------------------------------------------------------------
(***************************************************************************)
(* Tables of rows.                                                         *)
(***************************************************************************)
LEMMA RowsIntro ==
  ASSUME NEW K, NEW V, NEW S \in SUBSET K, NEW f \in [S -> V]
  PROVE  f \in Rows(K, V)
BY DEF Rows

LEMMA RowsElim ==
  ASSUME NEW K, NEW V, NEW f \in Rows(K, V)
  PROVE  DOMAIN f \subseteq K /\ f \in [DOMAIN f -> V]
BY DEF Rows

LEMMA NoRowsType ==
  ASSUME NEW K, NEW V
  PROVE  NoRows \in Rows(K, V) /\ DOMAIN NoRows = {}
<1>1. NoRows \in [{} -> V] /\ {} \in SUBSET K
  BY DEF NoRows
<1> QED
  BY <1>1, RowsIntro

LEMMA WithoutType ==
  ASSUME NEW K, NEW V, NEW f \in Rows(K, V), NEW k
  PROVE  /\ Without(f, k) \in Rows(K, V)
         /\ DOMAIN Without(f, k) = DOMAIN f \ {k}
         /\ \A x \in DOMAIN f \ {k} : Without(f, k)[x] = f[x]
<1>1. DOMAIN f \subseteq K /\ f \in [DOMAIN f -> V]
  BY RowsElim
<1>2. Without(f, k) \in [DOMAIN f \ {k} -> V]
  BY <1>1 DEF Without
<1>3. DOMAIN f \ {k} \in SUBSET K
  BY <1>1
<1>4. Without(f, k) \in Rows(K, V)
  BY <1>2, <1>3, RowsIntro
<1> QED
  BY <1>4 DEF Without

LEMMA WithSwiftType ==
  ASSUME NEW d \in Details, NEW s \in Swifts, NEW row \in SwiftRow,
         swifts \in [Details -> SwiftRows]
  PROVE  /\ WithSwift(d, s, row) \in SwiftRows
         /\ DOMAIN WithSwift(d, s, row) = DOMAIN swifts[d] \cup {s}
<1> DEFINE S == DOMAIN swifts[d] \cup {s}
<1>1. swifts[d] \in Rows(Swifts, SwiftRow)
  BY DEF SwiftRows
<1>2. DOMAIN swifts[d] \subseteq Swifts /\ swifts[d] \in [DOMAIN swifts[d] -> SwiftRow]
  BY <1>1, RowsElim
<1>3. WithSwift(d, s, row) \in [S -> SwiftRow]
  BY <1>2 DEF WithSwift
<1>4. S \in SUBSET Swifts
  BY <1>2
<1>5. WithSwift(d, s, row) \in SwiftRows
  BY <1>3, <1>4, RowsIntro DEF SwiftRows
<1> QED
  BY <1>5 DEF WithSwift

LEMMA SummaryStatusType ==
  ASSUME NEW t, NEW sw, NEW fee
  PROVE  SummaryStatus(t, sw, fee) \in DetailStatuses
BY DEF SummaryStatus, DetailStatuses

LEMMA SyncedType ==
  ASSUME NEW statuses \in [Receipts -> ReceiptStatuses \cup NoRow], NEW ids, NEW st
  PROVE  Synced(statuses, ids, st) \in [Receipts -> ReceiptStatuses \cup NoRow]
<1>1. ReceiptStatusOf(st) \in ReceiptStatuses
  BY DEF ReceiptStatusOf, ReceiptStatuses
<1> QED
  BY <1>1 DEF Synced

LEMMA SlotsFinite == IsFiniteSet(Slots)
BY FinitenessAssumption, FS_Union DEF Slots

LEMMA ItemSumType ==
  ASSUME NEW itemRows \in ItemRows
  PROVE  SumOf(itemRows) \in Nat
BY SlotsFinite, SumOfType DEF ItemRows

-----------------------------------------------------------------------------
(***************************************************************************)
(* Type correctness.  A session that decides on a request needs the        *)
(* request to have been filed.                                             *)
(***************************************************************************)
SessionsRefer ==
  \A w \in Workers :
    session[w].op \in {"reject", "approve"} =>
      request[session[w].request].status # "None"

TypeInv == TypeOK /\ SessionsRefer

LEMMA TypeInit == Init => TypeInv
<1> SUFFICES ASSUME Init PROVE TypeInv
  OBVIOUS
<1>1. NoRows \in ItemRows /\ NoRows \in SwiftRows
  BY NoRowsType DEF ItemRows, SwiftRows
<1> QED
  BY <1>1 DEF Init, TypeInv, TypeOK, SessionsRefer, NoRow, RequestRow, Session, Idle

\* A worker that becomes idle keeps the sessions well-formed.
LEMMA FinishType ==
  ASSUME TypeInv, NEW w \in Workers, Finish(w),
         request' \in [Requests -> RequestRow],
         \A q \in Requests : request[q].status # "None" => request'[q].status # "None"
  PROVE  session' \in [Workers -> Session] /\ SessionsRefer'
<1>1. session' \in [Workers -> Session]
  BY DEF TypeInv, TypeOK, Finish, Session
<1>2. SessionsRefer'
  <2> SUFFICES ASSUME NEW v \in Workers, session'[v].op \in {"reject", "approve"}
               PROVE  request'[session'[v].request].status # "None"
    BY DEF SessionsRefer
  <2>1. v # w /\ session'[v] = session[v]
    BY DEF Finish, Idle, TypeInv, TypeOK
  <2>2. session[v].request \in Requests
    BY <2>1 DEF TypeInv, TypeOK, Session, Idle
  <2> QED
    BY <2>1, <2>2 DEF TypeInv, SessionsRefer
<1> QED
  BY <1>1, <1>2

\* A worker that begins a handler leaves everything else alone.
LEMMA BeginType ==
  ASSUME TypeInv, NEW w \in Workers, NEW read \in Session, Begin(w, read),
         read.op \in {"reject", "approve"} => request[read.request].status # "None"
  PROVE  TypeInv'
BY DEF TypeInv, TypeOK, SessionsRefer, Begin, ledger

\* SWIFT handlers keep the types when they leave well-typed rows.
LEMMA SyncType ==
  ASSUME TypeOK, NEW d \in Details, NEW after \in SwiftRows, NEW fee,
         SyncSwiftTransferState(d, after, fee)
  PROVE  /\ receiptStatus' \in [Receipts -> ReceiptStatuses \cup NoRow]
         /\ detailStatus' \in [Details -> DetailStatuses \cup NoRow]
         /\ swifts' \in [Details -> SwiftRows]
         /\ UNCHANGED <<auto, total, items>>
BY SummaryStatusType, SyncedType DEF TypeOK, SyncSwiftTransferState

LEMMA TypeReceiptStep == TypeInv /\ ReceiptStep => TypeInv'
<1> SUFFICES ASSUME TypeInv, ReceiptStep PROVE TypeInv'
  OBVIOUS
<1>1. ASSUME NEW r \in Receipts, CreateReceipt(r) \/ CreateUnsigned(r)
      PROVE  TypeInv'
  BY <1>1 DEF TypeInv, TypeOK, SessionsRefer, CreateReceipt, CreateUnsigned, ReceiptStatuses
<1>2. ASSUME NEW w \in Workers, NEW r \in Receipts, BeginFinalize(w, r) \/ BeginMark(w, r)
      PROVE  TypeInv'
  BY <1>2, BeginType DEF BeginFinalize, BeginMark, Session
<1>3. ASSUME NEW w \in Workers, Finalize(w)
      PROVE  TypeInv'
  <2>1. receiptStatus' \in [Receipts -> ReceiptStatuses \cup NoRow]
    BY <1>3 DEF Finalize, TypeInv, TypeOK, ReceiptStatuses
  <2> QED
    BY <1>3, <2>1, FinishType DEF Finalize, TypeInv, TypeOK
<1>4. ASSUME NEW w \in Workers, NEW fee \in Fees, MarkReceiptReceived(w, fee)
      PROVE  TypeInv'
  <2> DEFINE marked == [receiptStatus EXCEPT ![session[w].receipt] = "RECEIVED"]
  <2>1. marked \in [Receipts -> ReceiptStatuses \cup NoRow]
    BY DEF TypeInv, TypeOK, ReceiptStatuses
  <2>2. receiptStatus' \in [Receipts -> ReceiptStatuses \cup NoRow]
    BY <1>4, <2>1, SyncedType DEF MarkReceiptReceived
  <2>3. detailStatus' \in [Details -> DetailStatuses \cup NoRow]
    BY <1>4 DEF MarkReceiptReceived, TypeInv, TypeOK, DetailStatuses
  <2> QED
    BY <1>4, <2>2, <2>3, FinishType DEF MarkReceiptReceived, TypeInv, TypeOK
<1> QED
  BY <1>1, <1>2, <1>3, <1>4 DEF ReceiptStep

\* Storing the items of a detail stores a total of the right type.
LEMMA SetItemsType ==
  ASSUME TypeOK, NEW d \in Details, NEW itemRows \in ItemRows, SetItems(d, itemRows)
  PROVE  items' \in [Details -> ItemRows] /\ total' \in [Details -> Nat]
BY ItemSumType DEF TypeOK, SetItems

LEMMA TypeDetailStep == TypeInv /\ DetailStep => TypeInv'
<1> SUFFICES ASSUME TypeInv, DetailStep PROVE TypeInv'
  OBVIOUS
<1> USE DEF TypeInv
<1>1. ASSUME NEW w \in Workers, NEW direct \in BOOLEAN, NEW itemRows \in ItemRows,
             BeginCreateDetail(w, direct, itemRows)
      PROVE  TypeInv'
  <2>1. Created(itemRows) \in SUBSET Receipts
    BY DEF Created, Linked
  <2> QED
    BY <1>1, <2>1, BeginType DEF BeginCreateDetail, Session
<1>2. ASSUME NEW w \in Workers, NEW d \in Details, CreateDetail(w, d)
      PROVE  TypeInv'
  <2>1. session[w].rows \in ItemRows /\ session[w].created \subseteq Receipts
    BY <1>2 DEF CreateDetail, TypeOK, Session, Idle
  <2>2. items' \in [Details -> ItemRows] /\ total' \in [Details -> Nat]
    BY <1>2, <2>1, SetItemsType DEF CreateDetail
  <2>3. receiptStatus' \in [Receipts -> ReceiptStatuses \cup NoRow]
    BY <1>2 DEF CreateDetail, SetStatus, TypeOK, ReceiptStatuses
  <2>4. detailStatus' \in [Details -> DetailStatuses \cup NoRow]
    BY <1>2 DEF CreateDetail, TypeOK, DetailStatuses
  <2> QED
    BY <1>2, <2>1, <2>2, <2>3, <2>4, FinishType DEF CreateDetail, TypeOK
<1>3. ASSUME NEW d \in Details, NEW itemRows \in ItemRows, NEW fee \in Fees,
             UpdateDetail(d, itemRows, fee)
      PROVE  TypeInv'
  <2> DEFINE first  == SetStatus(Linked(itemRows), IF detailStatus[d] = "Bank_Transfer"
                                   THEN "Bank_Transfer" ELSE "Waiting_SWIFT")
             status == SummaryStatus(SumOf(itemRows), swifts[d], fee)
  <2>1. items' \in [Details -> ItemRows] /\ total' \in [Details -> Nat]
    BY <1>3, SetItemsType DEF UpdateDetail
  <2>2. first \in [Receipts -> ReceiptStatuses \cup NoRow]
    BY DEF SetStatus, TypeOK, ReceiptStatuses
  <2>3. Synced(first, Linked(itemRows), status) \in [Receipts -> ReceiptStatuses \cup NoRow]
    BY <2>2, SyncedType
  <2>4. receiptStatus' \in [Receipts -> ReceiptStatuses \cup NoRow]
    BY <1>3, <2>2, <2>3 DEF UpdateDetail
  <2>5. detailStatus' \in [Details -> DetailStatuses \cup NoRow]
    BY <1>3, SummaryStatusType DEF UpdateDetail, TypeOK
  <2>6. auto' \subseteq Receipts
    BY <1>3 DEF UpdateDetail, Created, Linked, TypeOK
  <2> QED
    BY <1>3, <2>1, <2>4, <2>5, <2>6 DEF UpdateDetail, TypeOK, SessionsRefer
<1> QED
  BY <1>1, <1>2, <1>3 DEF DetailStep

LEMMA TypeSwiftStep == TypeInv /\ SwiftStep => TypeInv'
<1> SUFFICES ASSUME TypeInv, NEW d \in Details, NEW s \in Swifts, NEW fee \in Fees,
                    \/ \E amount \in Amounts :
                         CreateSwift(d, s, amount, fee) \/ UpdateSwift(d, s, amount, fee)
                    \/ MarkSwiftReceived(d, s, fee)
                    \/ DeleteSwift(d, s, fee)
             PROVE  TypeInv'
  BY DEF SwiftStep
<1>1. ASSUME NEW after \in SwiftRows, SyncSwiftTransferState(d, after, fee),
             issued' \subseteq Swifts, UNCHANGED <<request, session>>
      PROVE  TypeInv'
  BY <1>1, SyncType DEF TypeInv, TypeOK, SessionsRefer
<1>2. swifts \in [Details -> SwiftRows] /\ issued \subseteq Swifts
  BY DEF TypeInv, TypeOK
<1>3. ASSUME NEW amount \in Amounts,
             CreateSwift(d, s, amount, fee) \/ UpdateSwift(d, s, amount, fee)
      PROVE  TypeInv'
  <2> DEFINE row == [amount |-> amount, status |-> "Bank_Transfer"]
  <2>1. row \in SwiftRow
    BY DEF SwiftRow, SwiftStatuses
  <2>2. WithSwift(d, s, row) \in SwiftRows
    BY <1>2, <2>1, WithSwiftType
  <2> QED
    BY <1>1, <1>2, <1>3, <2>2 DEF CreateSwift, UpdateSwift
<1>4. CASE MarkSwiftReceived(d, s, fee)
  <2> DEFINE row == [swifts[d][s] EXCEPT !.status = "RECEIVED"]
  <2>1. s \in DOMAIN swifts[d]
    BY <1>4 DEF MarkSwiftReceived, Unsigned
  <2>2. swifts[d][s] \in SwiftRow
    BY <1>2, <2>1, RowsElim DEF SwiftRows
  <2>3. row \in SwiftRow
    BY <2>2 DEF SwiftRow, SwiftStatuses
  <2>4. WithSwift(d, s, row) \in SwiftRows
    BY <1>2, <2>3, WithSwiftType
  <2> QED
    BY <1>1, <1>2, <1>4, <2>4 DEF MarkSwiftReceived
<1>5. CASE DeleteSwift(d, s, fee)
  <2>1. Without(swifts[d], s) \in SwiftRows
    BY <1>2, WithoutType DEF SwiftRows
  <2> QED
    BY <1>1, <1>2, <1>5, <2>1 DEF DeleteSwift
<1> QED
  BY <1>3, <1>4, <1>5

\* Every existing record is a possible target.
LEMMA OwnerType ==
  ASSUME TypeOK, NEW s, NEW d \in OwnerOf(s)
  PROVE  d \in Details /\ s \in DOMAIN swifts[d] /\ s \in Swifts
<1>1. d \in Details /\ s \in DOMAIN swifts[d]
  BY DEF OwnerOf
<1>2. DOMAIN swifts[d] \subseteq Swifts
  BY <1>1, RowsElim DEF TypeOK, SwiftRows
<1> QED
  BY <1>1, <1>2

\* Approving a request keeps it filed.
LEMMA ApprovingType ==
  ASSUME TypeInv, NEW w \in Workers, NEW t, Approving(w, t)
  PROVE  /\ session[w].request \in Requests
         /\ session[w].linked \subseteq Receipts
         /\ request' \in [Requests -> RequestRow]
         /\ session' \in [Workers -> Session]
         /\ SessionsRefer'
<1>1. session[w].request \in Requests /\ session[w].linked \subseteq Receipts
  BY DEF Approving, TypeInv, TypeOK, Session, Idle
<1>2. request[session[w].request].status # "None"
  BY DEF Approving, TypeInv, SessionsRefer
<1>3. request' \in [Requests -> RequestRow]
  BY <1>1, <1>2 DEF Approving, TypeInv, TypeOK, RequestRow, NoRequest
<1>4. \A q \in Requests : request[q].status # "None" => request'[q].status # "None"
  BY <1>1 DEF Approving, TypeInv, TypeOK, RequestRow, NoRequest
<1>5. Finish(w)
  BY DEF Approving
<1> QED
  BY <1>1, <1>3, <1>4, <1>5, FinishType

LEMMA TypeRequestStep == TypeInv /\ RequestStep => TypeInv'
<1> SUFFICES ASSUME TypeInv, NEW w \in Workers, RequestStep PROVE TypeInv'
  BY DEF RequestStep
<1>0. TypeOK
  BY DEF TypeInv
<1>1. ASSUME NEW v \in Workers, NEW t \in Targets, NEW admin \in BOOLEAN, BeginRequest(v, t, admin)
      PROVE  TypeInv'
  BY <1>1, BeginType DEF BeginRequest, Session
<1>2. ASSUME NEW v \in Workers, NEW q \in Requests, CreateRequest(v, q)
      PROVE  TypeInv'
  <2>1. session[v].target \in Targets
    BY <1>2, <1>0 DEF CreateRequest, TypeOK, Session, Idle
  <2>2. request' \in [Requests -> RequestRow]
    BY <1>2, <1>0, <2>1 DEF CreateRequest, TypeOK, RequestRow
  <2>3. \A p \in Requests : request[p].status # "None" => request'[p].status # "None"
    BY <1>2, <1>0 DEF CreateRequest, TypeOK
  <2>4. Finish(v) /\ UNCHANGED ledger
    BY <1>2 DEF CreateRequest
  <2>5. session' \in [Workers -> Session] /\ SessionsRefer'
    BY <2>2, <2>3, <2>4, FinishType
  <2> QED
    BY <1>0, <2>2, <2>4, <2>5 DEF TypeInv, TypeOK, ledger
<1>3. ASSUME NEW v \in Workers, NEW q \in Requests, BeginReject(v, q)
      PROVE  TypeInv'
  BY <1>3, BeginType DEF BeginReject, Session
<1>4. ASSUME NEW v \in Workers, NEW q \in Requests, BeginApprove(v, q)
      PROVE  TypeInv'
  <2> DEFINE linked == IF request[q].target \in Details
                         THEN Linked(items[request[q].target]) ELSE {}
             affected == IF request[q].target \in Receipts
                           THEN LinkedTo(request[q].target) ELSE {}
             read == [op |-> "approve", request |-> q,
                      found |-> Exists(request[q].target), linked |-> linked,
                      affected |-> affected]
  <2>1. linked \in SUBSET Receipts /\ affected \in SUBSET Details
    BY DEF Linked, LinkedTo
  <2>2. Exists(request[q].target) \in BOOLEAN
    BY DEF Exists
  <2>3. read \in Session
    BY <2>1, <2>2 DEF Session
  <2>4. Begin(v, read) /\ request[q].status # "None"
    BY <1>4 DEF BeginApprove
  <2> QED
    BY <2>3, <2>4, BeginType
<1>5. ASSUME NEW v \in Workers, Reject(v)
      PROVE  TypeInv'
  <2>1. session[v].request \in Requests
    BY <1>5, <1>0 DEF Reject, TypeOK, Session, Idle
  <2>2. request[session[v].request].status # "None"
    BY <1>5 DEF Reject, TypeInv, SessionsRefer
  <2>3. request' \in [Requests -> RequestRow]
    BY <1>5, <1>0, <2>1, <2>2 DEF Reject, TypeOK, RequestRow, NoRequest
  <2>4. \A p \in Requests : request[p].status # "None" => request'[p].status # "None"
    BY <1>5, <1>0, <2>1 DEF Reject, TypeOK, RequestRow, NoRequest
  <2>5. Finish(v) /\ UNCHANGED ledger
    BY <1>5 DEF Reject
  <2>6. session' \in [Workers -> Session] /\ SessionsRefer'
    BY <2>3, <2>4, <2>5, FinishType
  <2> QED
    BY <1>0, <2>3, <2>5, <2>6 DEF TypeInv, TypeOK, ledger
<1>6. ASSUME NEW v \in Workers, ApproveMissing(v)
      PROVE  TypeInv'
  <2>1. PICK t \in Targets : Approving(v, t) /\ UNCHANGED ledger
    BY <1>6 DEF ApproveMissing
  <2> QED
    BY <1>0, <2>1, ApprovingType DEF TypeInv, TypeOK, ledger
<1>7. ASSUME NEW v \in Workers, NEW r \in Receipts, NEW fee \in Fees,
             ApproveReceiptDeletion(v, r, fee)
      PROVE  TypeInv'
  <2> DEFINE hit    == session[v].affected
             left   == [d \in Details |-> Without(items[d], r)]
             sum    == [d \in hit |-> SumOf(left[d])]
             status == [d \in hit |-> SummaryStatus(sum[d], swifts[d], fee)]
             touched == UNION {Linked(left[d]) : d \in hit}
  <2>1. left \in [Details -> ItemRows]
    BY <1>0, WithoutType DEF TypeOK, ItemRows
  <2>2. hit \subseteq Details
    BY <1>7 DEF ApproveReceiptDeletion, LiveDetails
  <2>3. \A d \in Details : SumOf(left[d]) \in Nat
    BY <2>1, ItemSumType
  <2>4. items' = left
    BY <1>7 DEF ApproveReceiptDeletion
  <2>5. total' = [d \in Details |-> IF d \in hit THEN sum[d] ELSE total[d]]
    BY <1>7 DEF ApproveReceiptDeletion
  <2>6. total' \in [Details -> Nat]
    BY <1>0, <2>2, <2>3, <2>5 DEF TypeOK
  <2>7. detailStatus' = [d \in Details |-> IF d \in hit THEN status[d] ELSE detailStatus[d]]
    BY <1>7 DEF ApproveReceiptDeletion
  <2>8. detailStatus' \in [Details -> DetailStatuses \cup NoRow]
    BY <1>0, <2>2, <2>7, SummaryStatusType DEF TypeOK
  <2>9. PICK last \in [touched -> hit] :
          receiptStatus' =
            [x \in Receipts |->
               IF x = r THEN "Deleted"
               ELSE IF x \in touched /\ receiptStatus[x] # "SIGNING_PENDING"
                      THEN ReceiptStatusOf(status[last[x]]) ELSE receiptStatus[x]]
    BY <1>7 DEF ApproveReceiptDeletion
  <2>10. \A st : ReceiptStatusOf(st) \in ReceiptStatuses
    BY DEF ReceiptStatusOf, ReceiptStatuses
  <2>11. receiptStatus' \in [Receipts -> ReceiptStatuses \cup NoRow]
    BY <1>0, <2>9, <2>10 DEF TypeOK, NoRow
  <2>12. Approving(v, r) /\ UNCHANGED <<auto, swifts, issued>>
    BY <1>7 DEF ApproveReceiptDeletion
  <2> QED
    BY <1>0, <2>1, <2>4, <2>6, <2>8, <2>11, <2>12, ApprovingType DEF TypeInv, TypeOK
<1>8. ASSUME NEW v \in Workers, NEW d \in Details, ApproveDetailDeletion(v, d)
      PROVE  TypeInv'
  <2>1. NoRows \in ItemRows /\ NoRows \in SwiftRows
    BY NoRowsType DEF ItemRows, SwiftRows
  <2>2. receiptStatus' \in [Receipts -> ReceiptStatuses \cup NoRow]
    BY <1>8, <1>0 DEF ApproveDetailDeletion, TypeOK, NoRow, ReceiptStatuses
  <2>3. detailStatus' \in [Details -> DetailStatuses \cup NoRow]
    BY <1>8, <1>0 DEF ApproveDetailDeletion, TypeOK, NoRow
  <2>4. items' \in [Details -> ItemRows] /\ swifts' \in [Details -> SwiftRows]
        /\ total' \in [Details -> Nat]
    BY <1>8, <1>0, <2>1 DEF ApproveDetailDeletion, TypeOK
  <2>5. Approving(v, d) /\ UNCHANGED <<auto, issued>>
    BY <1>8 DEF ApproveDetailDeletion
  <2> QED
    BY <1>0, <2>2, <2>3, <2>4, <2>5, ApprovingType DEF TypeInv, TypeOK
<1>9. ASSUME NEW v \in Workers, NEW s \in Swifts, NEW fee \in Fees,
             ApproveSwiftDeletion(v, s, fee)
      PROVE  TypeInv'
  <2>1. PICK d \in OwnerOf(s) : SyncSwiftTransferState(d, Without(swifts[d], s), fee)
    BY <1>9 DEF ApproveSwiftDeletion
  <2>2. d \in Details
    BY DEF OwnerOf
  <2>3. Without(swifts[d], s) \in SwiftRows
    BY <1>0, <2>2, WithoutType DEF TypeOK, SwiftRows
  <2>4. Approving(v, s) /\ UNCHANGED issued
    BY <1>9 DEF ApproveSwiftDeletion
  <2> QED
    BY <1>0, <2>1, <2>2, <2>3, <2>4, SyncType, ApprovingType DEF TypeInv, TypeOK
<1> QED
  BY <1>1, <1>2, <1>3, <1>4, <1>5, <1>6, <1>7, <1>8, <1>9 DEF RequestStep

LEMMA TypeAbandon ==
  ASSUME TypeInv, NEW w \in Workers, Abandon(w)
  PROVE  TypeInv'
BY FinishType DEF TypeInv, TypeOK, Abandon, ledger

LEMMA TypeStep == TypeInv /\ [Next]_vars => TypeInv'
<1>1. TypeInv /\ UNCHANGED vars => TypeInv'
  BY DEF TypeInv, TypeOK, SessionsRefer, vars
<1> QED
  BY <1>1, TypeReceiptStep, TypeDetailStep, TypeSwiftStep, TypeRequestStep, TypeAbandon
     DEF Next

\* Every reachable state is well-typed, and a decision in flight is always
\* about a request that was filed.
THEOREM TypeCorrect == Spec => []TypeOK
<1>1. TypeInv => TypeOK
  BY DEF TypeInv
<1> QED
  BY <1>1, TypeInit, TypeStep, PTL DEF Spec

THEOREM TypeInvariant == Spec => []TypeInv
BY TypeInit, TypeStep, PTL DEF Spec

-----------------------------------------------------------------------------
(***************************************************************************)
(* The ledger stays consistent.  The four parts of Books need each other:  *)
(* a new detail is not overpaid because a detail that does not exist yet   *)
(* has no SWIFTs, and a status is explained because the SWIFTs it was      *)
(* computed from do not exceed the total.                                  *)
(***************************************************************************)
Books == NeverOverpaid /\ TotalCoversItems /\ StatusExplained /\ LinksAreLive

LedgerInv == TypeInv /\ Books

\* The statuses a linked receipt can have.
Signed == {"SR_Received", "Waiting_SWIFT", "Bank_Transfer", "RECEIVED"}

-----------------------------------------------------------------------------
LEMMA AmountsType ==
  ASSUME NEW sw \in SwiftRows
  PROVE  /\ AmountsOf(sw) \in Rows(Swifts, Amounts)
         /\ DOMAIN AmountsOf(sw) = DOMAIN sw
         /\ Transferred(sw) \in Nat
<1>1. DOMAIN sw \subseteq Swifts /\ sw \in [DOMAIN sw -> SwiftRow]
  BY RowsElim DEF SwiftRows
<1>2. AmountsOf(sw) \in [DOMAIN sw -> Amounts]
  BY <1>1 DEF AmountsOf, SwiftRow
<1>3. AmountsOf(sw) \in Rows(Swifts, Amounts)
  BY <1>1, <1>2, RowsIntro
<1>4. SumOf(AmountsOf(sw)) \in Nat
  BY <1>3, FinitenessAssumption, SumOfType
<1> QED
  BY <1>3, <1>4 DEF AmountsOf, Transferred

\* A table without rows is the empty table.
LEMMA EmptyIsNoRows ==
  ASSUME NEW K, NEW V, NEW f \in Rows(K, V), DOMAIN f = {}
  PROVE  f = NoRows
BY RowsElim, NoRowsType DEF NoRows

\* Without SWIFTs nothing was paid, and the status is Waiting_SWIFT.
LEMMA SummaryEmpty ==
  ASSUME NEW sw \in SwiftRows, DOMAIN sw = {}, NEW t \in Nat, NEW fee
  PROVE  Transferred(sw) = 0 /\ SummaryStatus(t, sw, fee) = "Waiting_SWIFT"
<1>1. AmountsOf(sw) = NoRows
  BY AmountsType, EmptyIsNoRows
<1>2. Transferred(sw) = 0
  BY <1>1, SumOfNoRows DEF Transferred
<1>3. ~IsOverpaid(t, sw) /\ ~IsComplete(t, sw, fee) /\ ~IsCovered(t, sw, fee)
  BY <1>2 DEF IsOverpaid, IsComplete, IsCovered
<1> QED
  BY <1>2, <1>3 DEF SummaryStatus

LEMMA SummaryComplete ==
  ASSUME NEW t, NEW sw, NEW fee, IsComplete(t, sw, fee)
  PROVE  SummaryStatus(t, sw, fee) = "RECEIVED"
BY DEF SummaryStatus, IsComplete, IsCovered

\* Whatever was not overpaid leaves every status but ERROR possible.
LEMMA SummaryNoError ==
  ASSUME NEW t \in Nat, NEW sw \in SwiftRows, NEW fee, Transferred(sw) <= t
  PROVE  SummaryStatus(t, sw, fee) \in {"RECEIVED", "Bank_Transfer", "Waiting_SWIFT"}
<1>1. ~IsOverpaid(t, sw)
  BY AmountsType DEF IsOverpaid
<1> QED
  BY <1>1 DEF SummaryStatus

\* Signing a SWIFT changes no amount; deleting one only lowers the sum.
LEMMA SignedSum ==
  ASSUME TypeOK, NEW d \in Details, NEW s \in DOMAIN swifts[d]
  PROVE  Transferred(WithSwift(d, s, [swifts[d][s] EXCEPT !.status = "RECEIVED"]))
           = Transferred(swifts[d])
<1> DEFINE row   == [swifts[d][s] EXCEPT !.status = "RECEIVED"]
           after == WithSwift(d, s, row)
<1>1. swifts[d] \in [DOMAIN swifts[d] -> SwiftRow]
  BY RowsElim DEF TypeOK, SwiftRows
<1>2. row.amount = swifts[d][s].amount
  BY <1>1 DEF SwiftRow
<1>3. DOMAIN after = DOMAIN swifts[d]
  BY DEF WithSwift
<1>4. \A x \in DOMAIN swifts[d] : after[x].amount = swifts[d][x].amount
  BY <1>2 DEF WithSwift
<1>5. AmountsOf(after) = AmountsOf(swifts[d])
  BY <1>3, <1>4 DEF AmountsOf
<1> QED
  BY <1>5 DEF Transferred

LEMMA DeletedSum ==
  ASSUME NEW sw \in SwiftRows, NEW s
  PROVE  Without(sw, s) \in SwiftRows /\ Transferred(Without(sw, s)) <= Transferred(sw)
<1>1. Without(sw, s) \in SwiftRows
  BY WithoutType DEF SwiftRows
<1>2. DOMAIN Without(sw, s) \subseteq DOMAIN sw
      /\ \A x \in DOMAIN Without(sw, s) : Without(sw, s)[x] = sw[x]
  BY DEF Without
<1>3. \A x \in DOMAIN AmountsOf(Without(sw, s)) :
        AmountsOf(Without(sw, s))[x] = AmountsOf(sw)[x]
  BY <1>2 DEF AmountsOf
<1>4. DOMAIN AmountsOf(Without(sw, s)) \subseteq DOMAIN AmountsOf(sw)
  BY <1>2 DEF AmountsOf
<1>5. SumOf(AmountsOf(Without(sw, s))) <= SumOf(AmountsOf(sw))
  BY <1>1, <1>3, <1>4, AmountsType, SumOfShrinks, FinitenessAssumption
<1> QED
  BY <1>1, <1>5 DEF Transferred

-----------------------------------------------------------------------------
LEMMA BooksInit == Init => Books
<1> SUFFICES ASSUME Init PROVE Books
  OBVIOUS
<1>1. NoRows \in SwiftRows /\ DOMAIN NoRows = {}
  BY NoRowsType DEF SwiftRows
<1>2. Transferred(NoRows) = 0
  BY <1>1, SummaryEmpty
<1> QED
  BY <1>1, <1>2, SumOfNoRows
     DEF Init, Books, NeverOverpaid, TotalCoversItems, StatusExplained, LinksAreLive,
         LiveDetails, Linked, NoRow

\* Handlers that begin, end or decide on a request only leave the books alone.
LEMMA BooksSame ==
  ASSUME Books, UNCHANGED ledger
  PROVE  Books'
BY DEF Books, NeverOverpaid, TotalCoversItems, StatusExplained, LinksAreLive,
       LiveDetails, Linked, Transferred, ledger

\* A step that only changes receipts, and leaves the linked ones signed.
LEMMA BooksReceipts ==
  ASSUME LedgerInv, UNCHANGED <<detailStatus, total, items, swifts>>,
         \A d \in Details : \A r \in Linked(items[d]) : receiptStatus'[r] \in Signed
  PROVE  Books'
<1>1. NeverOverpaid' /\ TotalCoversItems' /\ StatusExplained'
  BY DEF LedgerInv, Books, NeverOverpaid, TotalCoversItems, StatusExplained,
         LiveDetails, Transferred
<1>2. LinksAreLive'
  BY DEF LedgerInv, Books, LinksAreLive, LiveDetails, Linked, Signed, NoRow
<1> QED
  BY <1>1, <1>2 DEF Books

\* A linked receipt is signed, and stays signed when it is synchronised.
LEMMA LinkedSigned ==
  ASSUME LedgerInv, NEW d \in Details, NEW r \in Linked(items[d])
  PROVE  r \in Receipts /\ receiptStatus[r] \in Signed
BY DEF LedgerInv, Books, LinksAreLive, TypeInv, TypeOK, Linked, Signed, NoRow, ReceiptStatuses

LEMMA SyncedSigned ==
  ASSUME NEW statuses, NEW ids, NEW st, NEW r \in Receipts, statuses[r] \in Signed
  PROVE  Synced(statuses, ids, st)[r] \in Signed
BY DEF Synced, ReceiptStatusOf, Signed

\* The SWIFT handlers: a live detail gets rows that its total covers.
LEMMA BooksSync ==
  ASSUME LedgerInv, NEW d \in LiveDetails, NEW after \in SwiftRows, NEW fee \in Fees,
         Transferred(after) <= total[d],
         SyncSwiftTransferState(d, after, fee)
  PROVE  Books'
<1> DEFINE status == SummaryStatus(total[d], after, fee)
<1>1. d \in Details /\ total[d] \in Nat
  BY DEF LiveDetails, LedgerInv, TypeInv, TypeOK
<1>2. /\ total' = total /\ items' = items
      /\ swifts' = [swifts EXCEPT ![d] = after]
      /\ detailStatus' = [detailStatus EXCEPT ![d] = status]
      /\ receiptStatus' = Synced(receiptStatus, Linked(items[d]), status)
  BY DEF SyncSwiftTransferState
<1>3. /\ swifts \in [Details -> SwiftRows]
      /\ detailStatus \in [Details -> DetailStatuses \cup NoRow]
  BY DEF LedgerInv, TypeInv, TypeOK
<1>4. NeverOverpaid'
  BY <1>1, <1>2, <1>3 DEF LedgerInv, Books, NeverOverpaid, Transferred
<1>5. TotalCoversItems'
  BY <1>2 DEF LedgerInv, Books, TotalCoversItems
<1>6. status \in {"RECEIVED", "Bank_Transfer", "Waiting_SWIFT"}
  BY <1>1, SummaryNoError
<1>7. StatusExplained'
  <2> SUFFICES ASSUME NEW e \in LiveDetails'
               PROVE  IF DOMAIN swifts'[e] = {}
                        THEN detailStatus'[e] \in {"Waiting_SWIFT", "RECEIVED"}
                        ELSE \E f \in Fees :
                               detailStatus'[e] = SummaryStatus(total'[e], swifts'[e], f)
    BY DEF StatusExplained
  <2>1. CASE e = d /\ DOMAIN after = {}
    BY <2>1, <1>1, <1>2, <1>3, SummaryEmpty
  <2>2. CASE e = d /\ DOMAIN after # {}
    BY <2>2, <1>1, <1>2, <1>3
  <2>3. CASE e # d
    <3>1. e \in LiveDetails /\ e \in Details
      BY <2>3, <1>2, <1>3 DEF LiveDetails
    <3> QED
      BY <2>3, <3>1, <1>2, <1>3 DEF LedgerInv, Books, StatusExplained
  <2> QED
    BY <2>1, <2>2, <2>3
<1>8. LinksAreLive'
  <2>1. ASSUME NEW e \in Details, e \notin LiveDetails'
        PROVE  items'[e] = NoRows /\ swifts'[e] = NoRows
    <3>1. e # d /\ e \notin LiveDetails
      BY <2>1, <1>1, <1>2, <1>3, <1>6 DEF LiveDetails, NoRow
    <3> QED
      BY <3>1, <1>2, <1>3 DEF LedgerInv, Books, LinksAreLive
  <2>2. ASSUME NEW e \in Details, NEW r \in Linked(items'[e])
        PROVE  receiptStatus'[r] \in Signed
    BY <2>2, <1>2, LinkedSigned, SyncedSigned
  <2> QED
    BY <2>1, <2>2 DEF LinksAreLive, Signed, NoRow
<1> QED
  BY <1>4, <1>5, <1>7, <1>8 DEF Books

-----------------------------------------------------------------------------
LEMMA BooksReceiptStep == LedgerInv /\ ReceiptStep => Books'
<1> SUFFICES ASSUME LedgerInv, ReceiptStep PROVE Books'
  OBVIOUS
<1>0. TypeOK /\ Books
  BY DEF LedgerInv, TypeInv
<1>1. ASSUME NEW r \in Receipts, CreateReceipt(r) \/ CreateUnsigned(r)
      PROVE  Books'
  <2>1. ASSUME NEW d \in Details, NEW x \in Linked(items[d])
        PROVE  receiptStatus'[x] \in Signed
    <3>1. x \in Receipts /\ receiptStatus[x] \in Signed
      BY LinkedSigned
    <3>2. receiptStatus[r] = "Unused" /\ r # x
      BY <1>1, <3>1 DEF CreateReceipt, CreateUnsigned, Signed
    <3> QED
      BY <1>0, <1>1, <3>1, <3>2 DEF CreateReceipt, CreateUnsigned, TypeOK
  <2> QED
    BY <1>1, <2>1, BooksReceipts DEF CreateReceipt, CreateUnsigned
<1>2. ASSUME NEW w \in Workers, NEW r \in Receipts, BeginFinalize(w, r) \/ BeginMark(w, r)
      PROVE  Books'
  BY <1>0, <1>2, BooksSame DEF BeginFinalize, BeginMark, Begin
<1>3. ASSUME NEW w \in Workers, Finalize(w)
      PROVE  Books'
  <2>1. ASSUME NEW d \in Details, NEW x \in Linked(items[d])
        PROVE  receiptStatus'[x] \in Signed
    <3>1. x \in Receipts /\ receiptStatus[x] \in Signed
      BY LinkedSigned
    <3> QED
      BY <1>0, <1>3, <3>1 DEF Finalize, Signed, TypeOK
  <2> QED
    BY <1>3, <2>1, BooksReceipts DEF Finalize
<1>4. ASSUME NEW w \in Workers, NEW fee \in Fees, MarkReceiptReceived(w, fee)
      PROVE  Books'
  <2> DEFINE r      == session[w].receipt
             marked == [receiptStatus EXCEPT ![r] = "RECEIVED"]
             paid   == {d \in LinkedTo(r) : DOMAIN swifts[d] # {}}
             done   == {d \in LinkedTo(r) :
                          d \in paid \/ \A x \in Linked(items[d]) : marked[x] = "RECEIVED"}
  <2>1. /\ \A d \in paid : IsComplete(total[d], swifts[d], fee)
        /\ receiptStatus' = Synced(marked, UNION {Linked(items[d]) : d \in paid}, "RECEIVED")
        /\ detailStatus' = [d \in Details |-> IF d \in done THEN "RECEIVED" ELSE detailStatus[d]]
        /\ UNCHANGED <<total, items, swifts>>
    BY <1>4 DEF MarkReceiptReceived
  <2>2. NeverOverpaid' /\ TotalCoversItems'
    BY <1>0, <2>1 DEF Books, NeverOverpaid, TotalCoversItems, Transferred
  <2>3. ASSUME NEW d \in done
        PROVE  d \in LiveDetails
    <3>1. d \in Details /\ r \in DOMAIN items[d] /\ DOMAIN NoRows = {}
      BY NoRowsType DEF LinkedTo
    <3> QED
      BY <1>0, <3>1 DEF Books, LinksAreLive
  <2>4. StatusExplained'
    <3> SUFFICES ASSUME NEW d \in LiveDetails'
                 PROVE  IF DOMAIN swifts[d] = {}
                          THEN detailStatus'[d] \in {"Waiting_SWIFT", "RECEIVED"}
                          ELSE \E f \in Fees :
                                 detailStatus'[d] = SummaryStatus(total[d], swifts[d], f)
      BY <2>1 DEF StatusExplained
    <3>1. d \in Details
      BY DEF LiveDetails
    <3>2. CASE d \in paid
      BY <2>1, <3>1, <3>2, SummaryComplete
    <3>3. CASE d \in done \ paid
      BY <2>1, <3>1, <3>3
    <3>4. CASE d \notin done
      <4>1. detailStatus'[d] = detailStatus[d] /\ d \in LiveDetails
        BY <2>1, <3>1, <3>4 DEF LiveDetails
      <4> QED
        BY <1>0, <4>1 DEF Books, StatusExplained
    <3> QED
      BY <3>2, <3>3, <3>4
  <2>5. ASSUME NEW d \in Details, d \notin LiveDetails'
        PROVE  d \notin LiveDetails
    BY <2>1, <2>5 DEF LiveDetails, NoRow
  <2>6. ASSUME NEW d \in Details, NEW x \in Linked(items[d])
        PROVE  receiptStatus'[x] \in Signed
    <3>1. x \in Receipts /\ receiptStatus[x] \in Signed
      BY LinkedSigned
    <3>2. marked[x] \in Signed
      BY <1>0, <3>1 DEF Signed, TypeOK
    <3> QED
      BY <2>1, <3>1, <3>2, SyncedSigned
  <2>7. LinksAreLive'
    BY <1>0, <2>1, <2>5, <2>6 DEF Books, LinksAreLive, Signed, NoRow
  <2> QED
    BY <2>2, <2>4, <2>7 DEF Books
<1> QED
  BY <1>1, <1>2, <1>3, <1>4 DEF ReceiptStep

\* A detail that does not exist yet, or any more, was paid nothing.
LEMMA AbsentUnpaid ==
  ASSUME LedgerInv, NEW d \in Details, d \notin LiveDetails
  PROVE  /\ items[d] = NoRows /\ swifts[d] = NoRows
         /\ DOMAIN swifts[d] = {} /\ Transferred(swifts[d]) = 0
<1>1. items[d] = NoRows /\ swifts[d] = NoRows /\ DOMAIN NoRows = {}
  BY NoRowsType DEF LedgerInv, Books, LinksAreLive
<1>2. NoRows \in SwiftRows
  BY NoRowsType DEF SwiftRows
<1>3. Transferred(NoRows) = 0
  BY <1>1, <1>2, SummaryEmpty
<1> QED
  BY <1>1, <1>3

LEMMA BooksDetailStep == LedgerInv /\ DetailStep => Books'
<1> SUFFICES ASSUME LedgerInv, DetailStep PROVE Books'
  OBVIOUS
<1>0. TypeOK /\ Books
  BY DEF LedgerInv, TypeInv
<1>1. ASSUME NEW w \in Workers, NEW direct \in BOOLEAN, NEW itemRows \in ItemRows,
             BeginCreateDetail(w, direct, itemRows)
      PROVE  Books'
  BY <1>0, <1>1, BooksSame DEF BeginCreateDetail, Begin
<1>2. ASSUME NEW d \in Details, NEW itemRows \in ItemRows, NEW status,
             SetItems(d, itemRows), swifts' = swifts,
             detailStatus' = [detailStatus EXCEPT ![d] = status], status \notin NoRow,
             Transferred(swifts[d]) <= SumOf(itemRows),
             IF DOMAIN swifts[d] = {}
               THEN status \in {"Waiting_SWIFT", "RECEIVED"}
               ELSE \E f \in Fees : status = SummaryStatus(SumOf(itemRows), swifts[d], f),
             \A e \in Details : \A r \in Linked(items'[e]) : receiptStatus'[r] \in Signed
      PROVE  Books'
  <2>1. /\ items' = [items EXCEPT ![d] = itemRows]
        /\ total' = [total EXCEPT ![d] = SumOf(itemRows)]
    BY <1>2 DEF SetItems
  <2>2. NeverOverpaid' /\ TotalCoversItems'
    BY <1>0, <1>2, <2>1, ItemSumType
       DEF Books, NeverOverpaid, TotalCoversItems, Transferred, TypeOK
  <2>3. StatusExplained'
    BY <1>0, <1>2, <2>1 DEF Books, StatusExplained, LiveDetails, TypeOK
  <2>4. LinksAreLive'
    BY <1>0, <1>2, <2>1 DEF Books, LinksAreLive, LiveDetails, Signed, NoRow, TypeOK
  <2> QED
    BY <2>2, <2>3, <2>4 DEF Books
<1>3. ASSUME NEW w \in Workers, NEW d \in Details, CreateDetail(w, d)
      PROVE  Books'
  <2> DEFINE rows == session[w].rows
  <2>1. rows \in ItemRows /\ SumOf(rows) \in Nat
    BY <1>0, <1>3, ItemSumType DEF CreateDetail, TypeOK, Session, Idle
  <2>2. d \notin LiveDetails
    BY <1>3 DEF CreateDetail, LiveDetails, NoRow
  <2>3. DOMAIN swifts[d] = {} /\ Transferred(swifts[d]) = 0
    BY <2>2, AbsentUnpaid
  <2>4. ASSUME NEW e \in Details, NEW r \in Linked(items'[e])
        PROVE  receiptStatus'[r] \in Signed
    <3>1. r \in Receipts
      BY DEF Linked
    <3>2. CASE r \in Linked(rows)
      BY <1>3, <3>1, <3>2
         DEF CreateDetail, ReferencesHold, LiveReceipts, NoRow, SetStatus, Signed
    <3>3. CASE r \notin Linked(rows)
      <4>1. items'[e] = items[e]
        BY <1>0, <1>3, <3>3, <2>4 DEF CreateDetail, SetItems, TypeOK
      <4>2. receiptStatus[r] \in Signed
        BY <2>4, <4>1, LinkedSigned
      <4> QED
        BY <1>3, <3>1, <3>3, <4>2 DEF CreateDetail, SetStatus
    <3> QED
      BY <3>2, <3>3
  <2>5. /\ SetItems(d, rows) /\ swifts' = swifts
        /\ detailStatus' = [detailStatus EXCEPT ![d] = "Waiting_SWIFT"]
    BY <1>3 DEF CreateDetail
  <2>6. Transferred(swifts[d]) <= SumOf(rows)
    BY <2>1, <2>3
  <2>7. "Waiting_SWIFT" \notin NoRow
    BY DEF NoRow
  <2> QED
    BY <1>2, <2>1, <2>3, <2>4, <2>5, <2>6, <2>7
<1>4. ASSUME NEW d \in Details, NEW itemRows \in ItemRows, NEW fee \in Fees,
             UpdateDetail(d, itemRows, fee)
      PROVE  Books'
  <2> DEFINE linked == Linked(itemRows)
             first  == SetStatus(linked, IF detailStatus[d] = "Bank_Transfer"
                                           THEN "Bank_Transfer" ELSE "Waiting_SWIFT")
             sum    == SummaryStatus(SumOf(itemRows), swifts[d], fee)
             status == IF DOMAIN swifts[d] # {} THEN sum ELSE detailStatus[d]
  <2>1. SumOf(itemRows) \in Nat /\ swifts[d] \in SwiftRows
    BY <1>0, ItemSumType DEF TypeOK
  <2>2. Transferred(swifts[d]) <= SumOf(itemRows)
    BY <1>4, <2>1, AmountsType DEF UpdateDetail, IsOverpaid
  <2>3. d \in LiveDetails
    BY <1>4 DEF UpdateDetail, Open
  <2>4. IF DOMAIN swifts[d] = {}
          THEN status \in {"Waiting_SWIFT", "RECEIVED"}
          ELSE \E f \in Fees : status = SummaryStatus(SumOf(itemRows), swifts[d], f)
    BY <1>0, <2>3 DEF Books, StatusExplained
  <2>5. status \notin NoRow
    BY <2>1, <2>2, <2>3, SummaryNoError DEF LiveDetails, NoRow
  <2>6. /\ SetItems(d, itemRows) /\ swifts' = swifts
        /\ detailStatus' = [detailStatus EXCEPT ![d] = status]
        /\ receiptStatus' = IF DOMAIN swifts[d] # {} THEN Synced(first, linked, sum) ELSE first
    BY <1>4 DEF UpdateDetail
  <2>7. ASSUME NEW e \in Details, NEW r \in Linked(items'[e])
        PROVE  receiptStatus'[r] \in Signed
    <3>1. r \in Receipts
      BY DEF Linked
    <3>2. first[r] \in Signed
      <4>1. CASE r \in linked
        BY <1>4, <3>1, <4>1 DEF UpdateDetail, Accessible, SetStatus, Signed
      <4>2. CASE r \notin linked
        <5>1. items'[e] = items[e]
          BY <1>0, <2>6, <2>7, <4>2 DEF SetItems, TypeOK
        <5>2. receiptStatus[r] \in Signed
          BY <2>7, <5>1, LinkedSigned
        <5> QED
          BY <3>1, <4>2, <5>2 DEF SetStatus
      <4> QED
        BY <4>1, <4>2
    <3> QED
      BY <2>6, <3>1, <3>2, SyncedSigned
  <2> HIDE DEF status
  <2> QED
    BY <1>2, <2>2, <2>4, <2>5, <2>6, <2>7
<1> QED
  BY <1>1, <1>3, <1>4 DEF DetailStep

LEMMA BooksSwiftStep == LedgerInv /\ SwiftStep => Books'
<1> SUFFICES ASSUME LedgerInv, NEW d \in Details, NEW s \in Swifts, NEW fee \in Fees,
                    \/ \E amount \in Amounts :
                         CreateSwift(d, s, amount, fee) \/ UpdateSwift(d, s, amount, fee)
                    \/ MarkSwiftReceived(d, s, fee)
                    \/ DeleteSwift(d, s, fee)
             PROVE  Books'
  BY DEF SwiftStep
<1>0. TypeOK /\ Books
  BY DEF LedgerInv, TypeInv
<1>1. swifts \in [Details -> SwiftRows] /\ swifts[d] \in SwiftRows
  BY <1>0 DEF TypeOK
<1>2. /\ Transferred(swifts[d]) <= total[d]
      /\ Transferred(swifts[d]) \in Nat /\ total[d] \in Nat
  BY <1>0, <1>1, AmountsType DEF Books, NeverOverpaid, TypeOK
<1>3. s \in DOMAIN swifts[d] => d \in LiveDetails
  BY <1>0, NoRowsType DEF Books, LinksAreLive
<1>4. ASSUME NEW amount \in Amounts,
             CreateSwift(d, s, amount, fee) \/ UpdateSwift(d, s, amount, fee)
      PROVE  Books'
  <2> DEFINE row   == [amount |-> amount, status |-> "Bank_Transfer"]
             after == WithSwift(d, s, row)
  <2>1. row \in SwiftRow
    BY DEF SwiftRow, SwiftStatuses
  <2>2. after \in SwiftRows
    BY <1>1, <2>1, WithSwiftType
  <2>3. /\ d \in LiveDetails /\ Transferred(after) <= total[d]
        /\ SyncSwiftTransferState(d, after, fee)
    BY <1>4 DEF CreateSwift, UpdateSwift, Open
  <2> QED
    BY <2>2, <2>3, BooksSync
<1>5. CASE MarkSwiftReceived(d, s, fee)
  <2> DEFINE row   == [swifts[d][s] EXCEPT !.status = "RECEIVED"]
             after == WithSwift(d, s, row)
  <2>1. s \in DOMAIN swifts[d] /\ SyncSwiftTransferState(d, after, fee)
    BY <1>5 DEF MarkSwiftReceived, Unsigned
  <2>2. swifts[d][s] \in SwiftRow
    BY <1>1, <2>1, RowsElim DEF SwiftRows
  <2>3. row \in SwiftRow
    BY <2>2 DEF SwiftRow, SwiftStatuses
  <2>4. after \in SwiftRows
    BY <1>1, <2>3, WithSwiftType
  <2>5. Transferred(after) = Transferred(swifts[d])
    BY <1>0, <2>1, SignedSum
  <2>6. d \in LiveDetails /\ Transferred(after) <= total[d]
    BY <1>2, <1>3, <2>1, <2>5
  <2> QED
    BY <2>1, <2>4, <2>6, BooksSync
<1>6. CASE DeleteSwift(d, s, fee)
  <2>1. /\ Without(swifts[d], s) \in SwiftRows
        /\ Transferred(Without(swifts[d], s)) <= Transferred(swifts[d])
    BY <1>1, DeletedSum
  <2>2. Transferred(Without(swifts[d], s)) <= total[d]
    BY <1>2, <2>1, AmountsType
  <2>3. d \in LiveDetails /\ SyncSwiftTransferState(d, Without(swifts[d], s), fee)
    BY <1>3, <1>6 DEF DeleteSwift
  <2> QED
    BY <2>1, <2>2, <2>3, BooksSync
<1> QED
  BY <1>4, <1>5, <1>6

-----------------------------------------------------------------------------
\* A deleted receipt leaves no item; the details that were seen to link it
\* are judged again, the others keep their total and their status.
LEMMA BooksReceiptDeletion ==
  ASSUME LedgerInv, NEW w \in Workers, NEW r \in Receipts, NEW fee \in Fees,
         ApproveReceiptDeletion(w, r, fee)
  PROVE  Books'
<1> DEFINE hit     == session[w].affected
           left    == [d \in Details |-> Without(items[d], r)]
           sum     == [d \in hit |-> SumOf(left[d])]
           status  == [d \in hit |-> SummaryStatus(sum[d], swifts[d], fee)]
           touched == UNION {Linked(left[d]) : d \in hit}
<1>0. TypeOK /\ Books
  BY DEF LedgerInv, TypeInv
<1>1. /\ \A d \in hit : ~IsOverpaid(sum[d], swifts[d])
      /\ items' = left
      /\ total' = [d \in Details |-> IF d \in hit THEN sum[d] ELSE total[d]]
      /\ detailStatus' = [d \in Details |-> IF d \in hit THEN status[d] ELSE detailStatus[d]]
      /\ swifts' = swifts
  BY DEF ApproveReceiptDeletion
<1>2. PICK last \in [touched -> hit] :
        receiptStatus' =
          [x \in Receipts |->
             IF x = r THEN "Deleted"
             ELSE IF x \in touched /\ receiptStatus[x] # "SIGNING_PENDING"
                    THEN ReceiptStatusOf(status[last[x]]) ELSE receiptStatus[x]]
  BY DEF ApproveReceiptDeletion
<1>3. hit \subseteq LiveDetails /\ hit \subseteq Details
  BY DEF ApproveReceiptDeletion, LiveDetails
<1>4. ASSUME NEW d \in Details
      PROVE  /\ left[d] \in ItemRows /\ SumOf(left[d]) \in Nat
             /\ swifts[d] \in SwiftRows /\ Transferred(swifts[d]) \in Nat
  BY <1>0, WithoutType, ItemSumType, AmountsType DEF TypeOK, ItemRows
<1>5. ASSUME NEW d \in hit
      PROVE  sum[d] \in Nat /\ Transferred(swifts[d]) <= sum[d]
  <2>1. sum[d] = SumOf(left[d]) /\ d \in Details
    BY <1>3
  <2>2. sum[d] \in Nat /\ Transferred(swifts[d]) \in Nat
    BY <1>4, <2>1
  <2>3. ~(Transferred(swifts[d]) > sum[d])
    BY <1>1 DEF IsOverpaid
  <2> QED
    BY <2>2, <2>3
<1>6. ASSUME NEW d \in Details
      PROVE  SumOf(left[d]) <= SumOf(items[d])
  <2>1. items[d] \in Rows(Slots, Amounts) /\ left[d] \in Rows(Slots, Amounts)
    BY <1>0, <1>4 DEF TypeOK, ItemRows
  <2>2. DOMAIN left[d] \subseteq DOMAIN items[d]
        /\ \A k \in DOMAIN left[d] : left[d][k] = items[d][k]
    BY DEF Without
  <2> QED
    BY <2>1, <2>2, SlotsFinite, SumOfShrinks
<1>7. ASSUME NEW d \in hit
      PROVE  status[d] \in {"RECEIVED", "Bank_Transfer", "Waiting_SWIFT"}
  BY <1>3, <1>4, <1>5, SummaryNoError
<1>8. ASSUME NEW d \in Details, items[d] = NoRows
      PROVE  left[d] = NoRows
  <2>1. left[d] \in Rows(Slots, Amounts) /\ DOMAIN left[d] = {}
    BY <1>4, <1>8, NoRowsType DEF ItemRows, Without
  <2> QED
    BY <2>1, EmptyIsNoRows
<1>9. NeverOverpaid'
  BY <1>0, <1>1, <1>5 DEF Books, NeverOverpaid, Transferred
<1>10. TotalCoversItems'
  <2> SUFFICES ASSUME NEW d \in Details PROVE total'[d] >= SumOf(items'[d])
    BY DEF TotalCoversItems
  <2>1. /\ items'[d] = left[d] /\ total'[d] = IF d \in hit THEN sum[d] ELSE total[d]
        /\ d \in hit => sum[d] = SumOf(left[d])
    BY <1>1
  <2>2. SumOf(left[d]) \in Nat /\ SumOf(items[d]) \in Nat /\ total[d] \in Nat
    BY <1>0, <1>4, ItemSumType DEF TypeOK
  <2>3. total[d] >= SumOf(items[d]) /\ SumOf(left[d]) <= SumOf(items[d])
    BY <1>0, <1>6 DEF Books, TotalCoversItems
  <2> QED
    BY <2>1, <2>2, <2>3
<1>11. StatusExplained'
  <2> SUFFICES ASSUME NEW d \in LiveDetails'
               PROVE  IF DOMAIN swifts'[d] = {}
                        THEN detailStatus'[d] \in {"Waiting_SWIFT", "RECEIVED"}
                        ELSE \E f \in Fees :
                               detailStatus'[d] = SummaryStatus(total'[d], swifts'[d], f)
    BY DEF StatusExplained
  <2>1. d \in Details
    BY DEF LiveDetails
  <2>2. CASE d \in hit /\ DOMAIN swifts[d] = {}
    <3>1. status[d] = "Waiting_SWIFT"
      BY <1>4, <1>5, <2>1, <2>2, SummaryEmpty
    <3> QED
      BY <1>1, <2>1, <2>2, <3>1
  <2>3. CASE d \in hit /\ DOMAIN swifts[d] # {}
    BY <1>1, <2>1, <2>3
  <2>4. CASE d \notin hit
    <3>1. detailStatus'[d] = detailStatus[d] /\ total'[d] = total[d] /\ d \in LiveDetails
      BY <1>1, <2>1, <2>4 DEF LiveDetails
    <3> QED
      BY <1>0, <1>1, <3>1 DEF Books, StatusExplained
  <2> QED
    BY <2>2, <2>3, <2>4
<1>12. LinksAreLive'
  <2>1. ASSUME NEW d \in Details, d \notin LiveDetails'
        PROVE  items'[d] = NoRows /\ swifts'[d] = NoRows
    <3>1. d \notin hit
      BY <1>1, <1>7, <2>1 DEF LiveDetails, NoRow
    <3>2. d \notin LiveDetails
      BY <1>1, <2>1, <3>1 DEF LiveDetails
    <3>3. items[d] = NoRows /\ swifts[d] = NoRows
      BY <1>0, <3>2 DEF Books, LinksAreLive
    <3> QED
      BY <1>1, <1>8, <3>3
  <2>2. ASSUME NEW d \in Details, NEW x \in Linked(items'[d])
        PROVE  receiptStatus'[x] \in Signed
    <3>1. x \in Linked(items[d]) /\ x # r
      BY <1>1, <2>2 DEF Linked, Without
    <3>2. x \in Receipts /\ receiptStatus[x] \in Signed
      BY <3>1, LinkedSigned
    <3>3. \A st : ReceiptStatusOf(st) \in Signed
      BY DEF ReceiptStatusOf, Signed
    <3> QED
      BY <1>2, <3>1, <3>2, <3>3
  <2> QED
    BY <2>1, <2>2 DEF LinksAreLive, Signed, NoRow
<1> QED
  BY <1>9, <1>10, <1>11, <1>12 DEF Books

\* A deleted detail leaves no rows; its receipts are free or gone.
LEMMA BooksDetailDeletion ==
  ASSUME LedgerInv, NEW w \in Workers, NEW d \in Details, ApproveDetailDeletion(w, d)
  PROVE  Books'
<1>0. TypeOK /\ Books
  BY DEF LedgerInv, TypeInv
<1>1. /\ items' = [items EXCEPT ![d] = NoRows]
      /\ swifts' = [swifts EXCEPT ![d] = NoRows]
      /\ total' = [total EXCEPT ![d] = 0]
      /\ detailStatus' = [detailStatus EXCEPT ![d] = "Deleted"]
  BY DEF ApproveDetailDeletion
<1>2. PICK orphans \in SUBSET Orphans(d, session[w].linked) :
        receiptStatus' = [r \in Receipts |->
                            IF r \in orphans THEN "Deleted"
                            ELSE IF r \in session[w].linked THEN "SR_Received"
                            ELSE receiptStatus[r]]
  BY DEF ApproveDetailDeletion
<1>3. NoRows \in SwiftRows /\ DOMAIN NoRows = {}
  BY NoRowsType DEF SwiftRows
<1>4. Transferred(NoRows) = 0
  BY <1>3, SummaryEmpty
<1>5. NeverOverpaid' /\ TotalCoversItems'
  BY <1>0, <1>1, <1>4, SumOfNoRows DEF Books, NeverOverpaid, TotalCoversItems, Transferred, TypeOK
<1>6. StatusExplained'
  BY <1>0, <1>1 DEF Books, StatusExplained, LiveDetails, TypeOK, NoRow
<1>7. LinksAreLive'
  <2>1. ASSUME NEW e \in Details, e \notin LiveDetails'
        PROVE  items'[e] = NoRows /\ swifts'[e] = NoRows
    BY <1>0, <1>1, <2>1 DEF Books, LinksAreLive, LiveDetails, TypeOK
  <2>2. ASSUME NEW e \in Details, NEW x \in Linked(items'[e])
        PROVE  receiptStatus'[x] \in Signed
    <3>1. e # d /\ x \in Linked(items[e])
      BY <1>0, <1>1, <1>3, <2>2 DEF Linked, TypeOK
    <3>2. x \in Receipts /\ receiptStatus[x] \in Signed
      BY <3>1, LinkedSigned
    <3>3. e \in LinkedTo(x)
      BY <3>1 DEF LinkedTo, Linked
    <3>4. x \notin orphans
      BY <3>1, <3>3 DEF Orphans
    <3> QED
      BY <1>2, <3>2, <3>4 DEF Signed
  <2> QED
    BY <2>1, <2>2 DEF LinksAreLive, Signed, NoRow
<1> QED
  BY <1>5, <1>6, <1>7 DEF Books

LEMMA BooksSwiftDeletion ==
  ASSUME LedgerInv, NEW w \in Workers, NEW s \in Swifts, NEW fee \in Fees,
         ApproveSwiftDeletion(w, s, fee)
  PROVE  Books'
<1>0. TypeOK /\ Books
  BY DEF LedgerInv, TypeInv
<1>1. PICK d \in OwnerOf(s) : SyncSwiftTransferState(d, Without(swifts[d], s), fee)
  BY DEF ApproveSwiftDeletion
<1>2. d \in Details /\ s \in DOMAIN swifts[d]
  BY DEF OwnerOf
<1>3. d \in LiveDetails
  BY <1>0, <1>2, NoRowsType DEF Books, LinksAreLive
<1>4. swifts[d] \in SwiftRows /\ Transferred(swifts[d]) <= total[d] /\ total[d] \in Nat
  BY <1>0, <1>2 DEF Books, NeverOverpaid, TypeOK
<1>5. /\ Without(swifts[d], s) \in SwiftRows
      /\ Transferred(Without(swifts[d], s)) <= Transferred(swifts[d])
  BY <1>4, DeletedSum
<1>6. Transferred(Without(swifts[d], s)) <= total[d]
  BY <1>4, <1>5, AmountsType
<1> QED
  BY <1>1, <1>3, <1>5, <1>6, BooksSync

LEMMA BooksRequestStep == LedgerInv /\ RequestStep => Books'
<1> SUFFICES ASSUME LedgerInv, RequestStep PROVE Books'
  OBVIOUS
<1>1. ASSUME UNCHANGED ledger PROVE Books'
  BY <1>1, BooksSame DEF LedgerInv
<1>2. ASSUME NEW w \in Workers,
             \/ \E t \in Targets, admin \in BOOLEAN : BeginRequest(w, t, admin)
             \/ \E q \in Requests : CreateRequest(w, q) \/ BeginReject(w, q) \/ BeginApprove(w, q)
             \/ Reject(w) \/ ApproveMissing(w)
      PROVE  UNCHANGED ledger
  BY <1>2 DEF BeginRequest, CreateRequest, BeginReject, BeginApprove, Reject, ApproveMissing, Begin
<1> QED
  BY <1>1, <1>2, BooksReceiptDeletion, BooksDetailDeletion, BooksSwiftDeletion
     DEF RequestStep

LEMMA LedgerInit == Init => LedgerInv
BY TypeInit, BooksInit DEF LedgerInv

LEMMA LedgerStep == LedgerInv /\ [Next]_vars => LedgerInv'
<1> SUFFICES ASSUME LedgerInv, [Next]_vars PROVE LedgerInv'
  OBVIOUS
<1>1. TypeInv'
  BY TypeStep DEF LedgerInv
<1>2. ASSUME UNCHANGED vars PROVE Books'
  <2>1. UNCHANGED ledger
    BY <1>2 DEF vars, ledger
  <2> QED
    BY <2>1, BooksSame DEF LedgerInv
<1>3. ASSUME NEW w \in Workers, Abandon(w) PROVE Books'
  BY <1>3, BooksSame DEF LedgerInv, Abandon
<1>4. Books'
  BY <1>2, <1>3, BooksReceiptStep, BooksDetailStep, BooksSwiftStep, BooksRequestStep
     DEF Next
<1> QED
  BY <1>1, <1>4 DEF LedgerInv
-----------------------------------------------------------------------------
THEOREM LedgerInvariant == Spec => []LedgerInv
BY LedgerInit, LedgerStep, PTL DEF Spec

\* However handlers interleave, no payment detail is paid more than its
\* total.
THEOREM NeverOverpaidAlways == Spec => []NeverOverpaid
<1>1. LedgerInv => NeverOverpaid
  BY DEF LedgerInv, Books
<1> QED
  BY <1>1, LedgerInvariant, PTL

\* The stored total always covers the stored items.
THEOREM TotalAlways == Spec => []TotalCoversItems
<1>1. LedgerInv => TotalCoversItems
  BY DEF LedgerInv, Books
<1> QED
  BY <1>1, LedgerInvariant, PTL

\* The status of a detail always follows from its amounts under some fee
\* setting that was in force.
THEOREM StatusAlwaysExplained == Spec => []StatusExplained
<1>1. LedgerInv => StatusExplained
  BY DEF LedgerInv, Books
<1> QED
  BY <1>1, LedgerInvariant, PTL

\* No item or SWIFT outlives its detail, and no detail links a receipt that
\* is unsigned or deleted.
THEOREM LinksAlwaysLive == Spec => []LinksAreLive
<1>1. LedgerInv => LinksAreLive
  BY DEF LedgerInv, Books
<1> QED
  BY <1>1, LedgerInvariant, PTL

-----------------------------------------------------------------------------
(***************************************************************************)
(* What no step ever does to a payment detail that was received and to a   *)
(* SWIFT that was signed.  Both follow from the ledger invariant: signing  *)
(* a SWIFT does not look at the status of its detail, and cannot disturb   *)
(* one that is RECEIVED only because such a detail has no SWIFT to sign.   *)
(***************************************************************************)
\* Every SWIFT that a detail holds was issued, so a new one is held by none.
IssuedInv == \A d \in Details : DOMAIN swifts[d] \subseteq issued

LEMMA IssuedInit == Init => IssuedInv
BY NoRowsType DEF Init, IssuedInv

LEMMA IssuedSync ==
  ASSUME TypeOK, IssuedInv, NEW d \in Details, NEW after, NEW fee,
         SyncSwiftTransferState(d, after, fee),
         DOMAIN after \subseteq issued', issued \subseteq issued'
  PROVE  IssuedInv'
BY DEF TypeOK, IssuedInv, SyncSwiftTransferState

LEMMA IssuedStep == TypeInv /\ IssuedInv /\ [Next]_vars => IssuedInv'
<1> SUFFICES ASSUME TypeInv, IssuedInv, [Next]_vars PROVE IssuedInv'
  OBVIOUS
<1>0. TypeOK
  BY DEF TypeInv
<1>1. ASSUME UNCHANGED <<swifts, issued>> PROVE IssuedInv'
  BY <1>1 DEF IssuedInv
<1>2. ASSUME ReceiptStep \/ DetailStep \/ (\E w \in Workers : Abandon(w)) \/ UNCHANGED vars
      PROVE  UNCHANGED <<swifts, issued>>
  BY <1>2 DEF ReceiptStep, CreateReceipt, CreateUnsigned, BeginFinalize, BeginMark, Begin,
         Finalize, MarkReceiptReceived, DetailStep, BeginCreateDetail, CreateDetail,
         UpdateDetail, Abandon, ledger, vars
<1>3. CASE SwiftStep
  <2> SUFFICES ASSUME NEW d \in Details, NEW s \in Swifts, NEW fee \in Fees,
                      \/ \E amount \in Amounts :
                           CreateSwift(d, s, amount, fee) \/ UpdateSwift(d, s, amount, fee)
                      \/ MarkSwiftReceived(d, s, fee)
                      \/ DeleteSwift(d, s, fee)
               PROVE  IssuedInv'
    BY <1>3 DEF SwiftStep
  <2>1. \A row : DOMAIN WithSwift(d, s, row) = DOMAIN swifts[d] \cup {s}
    BY DEF WithSwift
  <2>2. DOMAIN Without(swifts[d], s) \subseteq DOMAIN swifts[d] /\ DOMAIN swifts[d] \subseteq issued
    BY DEF Without, IssuedInv
  <2> QED
    BY <1>0, <2>1, <2>2, IssuedSync
       DEF CreateSwift, UpdateSwift, MarkSwiftReceived, DeleteSwift, Unsigned
<1>4. CASE RequestStep
  <2>1. ASSUME NEW w \in Workers, NEW s \in Swifts, NEW fee \in Fees,
               ApproveSwiftDeletion(w, s, fee)
        PROVE  IssuedInv'
    <3>1. PICK d \in OwnerOf(s) : SyncSwiftTransferState(d, Without(swifts[d], s), fee)
      BY <2>1 DEF ApproveSwiftDeletion
    <3>2. d \in Details /\ DOMAIN Without(swifts[d], s) \subseteq issued
      BY DEF Without, OwnerOf, IssuedInv
    <3> QED
      BY <1>0, <2>1, <3>1, <3>2, IssuedSync DEF ApproveSwiftDeletion
  <2>2. ASSUME NEW w \in Workers, NEW d \in Details, ApproveDetailDeletion(w, d)
        PROVE  IssuedInv'
    BY <1>0, <2>2, NoRowsType DEF ApproveDetailDeletion, TypeOK, IssuedInv
  <2>3. ASSUME NEW w \in Workers,
               \/ \E t \in Targets, admin \in BOOLEAN : BeginRequest(w, t, admin)
               \/ \E q \in Requests : CreateRequest(w, q) \/ BeginReject(w, q) \/ BeginApprove(w, q)
               \/ Reject(w) \/ ApproveMissing(w)
               \/ \E r \in Receipts, fee \in Fees : ApproveReceiptDeletion(w, r, fee)
        PROVE  UNCHANGED <<swifts, issued>>
    BY <2>3 DEF BeginRequest, CreateRequest, BeginReject, BeginApprove, Reject,
                ApproveMissing, ApproveReceiptDeletion, Begin, ledger
  <2> QED
    BY <1>1, <1>4, <2>1, <2>2, <2>3 DEF RequestStep
<1> QED
  BY <1>1, <1>2, <1>3, <1>4 DEF Next

-----------------------------------------------------------------------------
\* A RECEIVED detail has signed SWIFTs only.
LEMMA ReceivedAllSigned ==
  ASSUME LedgerInv, NEW d \in Details, detailStatus[d] = "RECEIVED",
         NEW s \in DOMAIN swifts[d]
  PROVE  swifts[d][s].status = "RECEIVED"
<1>1. d \in LiveDetails /\ DOMAIN swifts[d] # {}
  BY DEF LiveDetails, NoRow
<1>2. PICK fee \in Fees : "RECEIVED" = SummaryStatus(total[d], swifts[d], fee)
  BY <1>1 DEF LedgerInv, Books, StatusExplained
<1>3. IsComplete(total[d], swifts[d], fee)
  <2>1. SUFFICES ASSUME ~IsComplete(total[d], swifts[d], fee) PROVE FALSE
    OBVIOUS
  <2>2. SummaryStatus(total[d], swifts[d], fee) \in {"ERROR", "Bank_Transfer", "Waiting_SWIFT"}
    BY <2>1 DEF SummaryStatus
  <2> QED
    BY <1>2, <2>2
<1> QED
  BY <1>3 DEF IsComplete, AllReceived

\* What synchronising does to the rows of the detail d and of the others.
LEMMA SyncSteps ==
  ASSUME TypeOK, NEW d \in Details, NEW after, NEW fee,
         SyncSwiftTransferState(d, after, fee)
  PROVE  /\ items' = items
         /\ swifts'[d] = after
         /\ \A e \in Details \ {d} : swifts'[e] = swifts[e] /\ detailStatus'[e] = detailStatus[e]
BY DEF TypeOK, SyncSwiftTransferState

LEMMA SyncDeletes ==
  ASSUME TypeOK, NEW d \in Details, NEW s \in DOMAIN swifts[d], NEW fee,
         SyncSwiftTransferState(d, Without(swifts[d], s), fee)
  PROVE  FrozenStep /\ UnreceivedStep /\ SignedStep
<1>1. /\ DOMAIN Without(swifts[d], s) = DOMAIN swifts[d] \ {s}
      /\ \A x \in DOMAIN swifts[d] \ {s} : Without(swifts[d], s)[x] = swifts[d][x]
  BY DEF Without
<1> QED
  BY <1>1, SyncSteps DEF FrozenStep, UnreceivedStep, SignedStep, OnlyDropped

\* A detail that is not RECEIVED gets a row for an unsigned or a new SWIFT.
LEMMA SyncWrites ==
  ASSUME TypeOK, NEW d \in Details, NEW s \in Swifts, NEW row, NEW fee,
         detailStatus[d] # "RECEIVED",
         s \in DOMAIN swifts[d] => swifts[d][s].status # "RECEIVED",
         SyncSwiftTransferState(d, WithSwift(d, s, row), fee)
  PROVE  FrozenStep /\ UnreceivedStep /\ SignedStep
<1>1. \A x \in DOMAIN swifts[d] \ {s} : WithSwift(d, s, row)[x] = swifts[d][x]
  BY DEF WithSwift
<1>2. FrozenStep /\ UnreceivedStep
  BY SyncSteps DEF FrozenStep, UnreceivedStep, OnlyDropped
<1>3. SignedStep
  BY <1>1, SyncSteps DEF SignedStep
<1> QED
  BY <1>2, <1>3

-----------------------------------------------------------------------------
\* A step that keeps items and SWIFTs, and takes RECEIVED from no detail.
LEMMA StepsSame ==
  ASSUME TypeOK, UNCHANGED <<items, swifts>>,
         \A d \in Details : detailStatus[d] = "RECEIVED" => detailStatus'[d] = "RECEIVED"
  PROVE  FrozenStep /\ UnreceivedStep /\ SignedStep
BY DEF FrozenStep, UnreceivedStep, SignedStep, OnlyDropped

\* A step that writes one detail that is not RECEIVED and no SWIFT.
LEMMA StepsWriteItems ==
  ASSUME TypeOK, NEW d \in Details, NEW itemRows, SetItems(d, itemRows), swifts' = swifts,
         detailStatus[d] # "RECEIVED",
         \A e \in Details \ {d} : detailStatus'[e] = detailStatus[e]
  PROVE  FrozenStep /\ UnreceivedStep /\ SignedStep
BY DEF TypeOK, SetItems, FrozenStep, UnreceivedStep, SignedStep, OnlyDropped

LEMMA StepsSwift ==
  LedgerInv /\ IssuedInv /\ SwiftStep => FrozenStep /\ UnreceivedStep /\ SignedStep
<1> SUFFICES ASSUME LedgerInv, IssuedInv,
                    NEW d \in Details, NEW s \in Swifts, NEW fee \in Fees,
                    \/ \E amount \in Amounts :
                         CreateSwift(d, s, amount, fee) \/ UpdateSwift(d, s, amount, fee)
                    \/ MarkSwiftReceived(d, s, fee)
                    \/ DeleteSwift(d, s, fee)
             PROVE  FrozenStep /\ UnreceivedStep /\ SignedStep
  BY DEF SwiftStep
<1>0. TypeOK
  BY DEF LedgerInv, TypeInv
<1>1. ASSUME NEW amount \in Amounts, CreateSwift(d, s, amount, fee)
      PROVE  FrozenStep /\ UnreceivedStep /\ SignedStep
  <2>1. s \notin DOMAIN swifts[d]
    BY <1>1 DEF CreateSwift, IssuedInv
  <2> QED
    BY <1>0, <1>1, <2>1, SyncWrites DEF CreateSwift, Open
<1>2. ASSUME NEW amount \in Amounts, UpdateSwift(d, s, amount, fee)
      PROVE  FrozenStep /\ UnreceivedStep /\ SignedStep
  BY <1>0, <1>2, SyncWrites DEF UpdateSwift, Open, Unsigned
<1>3. CASE MarkSwiftReceived(d, s, fee)
  <2>1. s \in DOMAIN swifts[d] /\ swifts[d][s].status # "RECEIVED"
    BY <1>3 DEF MarkSwiftReceived, Unsigned
  <2>2. detailStatus[d] # "RECEIVED"
    BY <2>1, ReceivedAllSigned
  <2> QED
    BY <1>0, <1>3, <2>1, <2>2, SyncWrites DEF MarkSwiftReceived
<1>4. CASE DeleteSwift(d, s, fee)
  BY <1>0, <1>4, SyncDeletes DEF DeleteSwift
<1> QED
  BY <1>1, <1>2, <1>3, <1>4

LEMMA StepsReceipt ==
  LedgerInv /\ ReceiptStep => FrozenStep /\ UnreceivedStep /\ SignedStep
<1> SUFFICES ASSUME LedgerInv, ReceiptStep
             PROVE  /\ UNCHANGED <<items, swifts>>
                    /\ \A d \in Details :
                         detailStatus[d] = "RECEIVED" => detailStatus'[d] = "RECEIVED"
  BY StepsSame DEF LedgerInv, TypeInv
<1> QED
  BY DEF ReceiptStep, CreateReceipt, CreateUnsigned, BeginFinalize, BeginMark, Begin, ledger,
         Finalize, MarkReceiptReceived

LEMMA StepsDetail ==
  LedgerInv /\ DetailStep => FrozenStep /\ UnreceivedStep /\ SignedStep
<1> SUFFICES ASSUME LedgerInv, DetailStep PROVE FrozenStep /\ UnreceivedStep /\ SignedStep
  OBVIOUS
<1>0. TypeOK
  BY DEF LedgerInv, TypeInv
<1>1. ASSUME NEW w \in Workers, NEW direct \in BOOLEAN, NEW itemRows \in ItemRows,
             BeginCreateDetail(w, direct, itemRows)
      PROVE  FrozenStep /\ UnreceivedStep /\ SignedStep
  BY <1>0, <1>1, StepsSame DEF BeginCreateDetail, Begin, ledger
<1>2. ASSUME NEW w \in Workers, NEW d \in Details, CreateDetail(w, d)
      PROVE  FrozenStep /\ UnreceivedStep /\ SignedStep
  <2>1. /\ detailStatus[d] # "RECEIVED" /\ swifts' = swifts
        /\ SetItems(d, session[w].rows)
        /\ \A e \in Details \ {d} : detailStatus'[e] = detailStatus[e]
    BY <1>0, <1>2 DEF CreateDetail, TypeOK
  <2> QED
    BY <1>0, <2>1, StepsWriteItems
<1>3. ASSUME NEW d \in Details, NEW itemRows \in ItemRows, NEW fee \in Fees,
             UpdateDetail(d, itemRows, fee)
      PROVE  FrozenStep /\ UnreceivedStep /\ SignedStep
  <2>1. /\ detailStatus[d] # "RECEIVED" /\ swifts' = swifts
        /\ SetItems(d, itemRows)
        /\ \A e \in Details \ {d} : detailStatus'[e] = detailStatus[e]
    BY <1>0, <1>3 DEF UpdateDetail, Open, TypeOK
  <2> QED
    BY <1>0, <2>1, StepsWriteItems
<1> QED
  BY <1>1, <1>2, <1>3 DEF DetailStep

LEMMA StepsRequest ==
  LedgerInv /\ RequestStep => FrozenStep /\ UnreceivedStep /\ SignedStep
<1> SUFFICES ASSUME LedgerInv, RequestStep PROVE FrozenStep /\ UnreceivedStep /\ SignedStep
  OBVIOUS
<1>0. TypeOK
  BY DEF LedgerInv, TypeInv
<1>1. ASSUME NEW w \in Workers,
             \/ \E t \in Targets, admin \in BOOLEAN : BeginRequest(w, t, admin)
             \/ \E q \in Requests : CreateRequest(w, q) \/ BeginReject(w, q) \/ BeginApprove(w, q)
             \/ Reject(w) \/ ApproveMissing(w)
      PROVE  FrozenStep /\ UnreceivedStep /\ SignedStep
  <2>1. UNCHANGED ledger
    BY <1>1 DEF BeginRequest, CreateRequest, BeginReject, BeginApprove, Reject,
                ApproveMissing, Begin
  <2> QED
    BY <1>0, <2>1, StepsSame DEF ledger
<1>2. ASSUME NEW w \in Workers, NEW r \in Receipts, NEW fee \in Fees,
             ApproveReceiptDeletion(w, r, fee)
      PROVE  FrozenStep /\ UnreceivedStep /\ SignedStep
  <2>1. /\ items' = [d \in Details |-> Without(items[d], r)]
        /\ swifts' = swifts
        /\ r \in LiveReceipts /\ receiptStatus'[r] = "Deleted"
    BY <1>2 DEF ApproveReceiptDeletion
  <2>2. \A d \in Details : OnlyDropped(items[d], items'[d])
    BY <2>1 DEF OnlyDropped, Without
  <2> QED
    BY <2>1, <2>2 DEF FrozenStep, UnreceivedStep, SignedStep, OnlyDropped
<1>3. ASSUME NEW w \in Workers, NEW d \in Details, ApproveDetailDeletion(w, d)
      PROVE  FrozenStep /\ UnreceivedStep /\ SignedStep
  <2>1. DOMAIN NoRows = {}
    BY DEF NoRows
  <2> QED
    BY <1>0, <1>3, <2>1
       DEF ApproveDetailDeletion, TypeOK, FrozenStep, UnreceivedStep, SignedStep, OnlyDropped
<1>4. ASSUME NEW w \in Workers, NEW s \in Swifts, NEW fee \in Fees,
             ApproveSwiftDeletion(w, s, fee)
      PROVE  FrozenStep /\ UnreceivedStep /\ SignedStep
  <2>1. PICK d \in OwnerOf(s) : SyncSwiftTransferState(d, Without(swifts[d], s), fee)
    BY <1>4 DEF ApproveSwiftDeletion
  <2> QED
    BY <1>0, <2>1, SyncDeletes DEF OwnerOf
<1> QED
  BY <1>1, <1>2, <1>3, <1>4 DEF RequestStep

LEMMA StepsNext ==
  LedgerInv /\ IssuedInv /\ [Next]_vars => [FrozenStep /\ UnreceivedStep /\ SignedStep]_vars
<1>1. ASSUME LedgerInv, NEW w \in Workers, Abandon(w)
      PROVE  FrozenStep /\ UnreceivedStep /\ SignedStep
  BY <1>1, StepsSame DEF LedgerInv, TypeInv, Abandon, ledger
<1> QED
  BY <1>1, StepsReceipt, StepsDetail, StepsSwift, StepsRequest DEF Next

-----------------------------------------------------------------------------
LEMMA StepsAlways == Spec => [][FrozenStep /\ UnreceivedStep /\ SignedStep]_vars
<1>1. LedgerInv => TypeInv
  BY DEF LedgerInv
<1>2. Spec => []IssuedInv
  BY <1>1, TypeInvariant, IssuedInit, IssuedStep, PTL DEF Spec
<1>3. Spec => []LedgerInv /\ []IssuedInv /\ [][Next]_vars
  BY <1>2, LedgerInvariant, PTL DEF Spec
<1> QED
  BY <1>3, StepsNext, PTL

\* The items and the SWIFTs of a received detail can be deleted, and nothing
\* else can happen to them.
THEOREM ReceivedIsFrozen == Spec => ReceivedDetailIsFrozen
<1>1. [FrozenStep /\ UnreceivedStep /\ SignedStep]_vars => [FrozenStep]_vars
  OBVIOUS
<1> QED
  BY <1>1, StepsAlways, PTL DEF ReceivedDetailIsFrozen

\* A detail stops being received only when it, a SWIFT of it or a receipt is
\* deleted.
THEOREM UnreceivedByDeletion == Spec => UnreceivedOnlyByDeletion
<1>1. [FrozenStep /\ UnreceivedStep /\ SignedStep]_vars => [UnreceivedStep]_vars
  OBVIOUS
<1> QED
  BY <1>1, StepsAlways, PTL DEF UnreceivedOnlyByDeletion

\* A signed SWIFT is never edited and never loses its signature.
THEOREM SignedIsFinal == Spec => SignedSwiftIsFinal
<1>1. [FrozenStep /\ UnreceivedStep /\ SignedStep]_vars => [SignedStep]_vars
  OBVIOUS
<1> QED
  BY <1>1, StepsAlways, PTL DEF SignedSwiftIsFinal
-----------------------------------------------------------------------------
(***************************************************************************)
(* The step that completes a payment detail receives its receipts.         *)
(***************************************************************************)
\* Synchronising a completed detail receives every receipt it links.
LEMMA SyncedReceived ==
  ASSUME NEW statuses, NEW ids, NEW r \in Receipts, r \in ids,
         statuses[r] # "SIGNING_PENDING"
  PROVE  Synced(statuses, ids, "RECEIVED")[r] = "RECEIVED"
BY DEF Synced, ReceiptStatusOf

LEMMA CompletionSync ==
  ASSUME LedgerInv, NEW d \in Details, NEW after, NEW fee,
         SyncSwiftTransferState(d, after, fee)
  PROVE  CompletionStep
<1> SUFFICES ASSUME NEW e \in Details,
                    detailStatus[e] # "RECEIVED" /\ detailStatus'[e] = "RECEIVED",
                    NEW r \in Linked(items'[e])
             PROVE  receiptStatus'[r] = "RECEIVED"
  BY DEF CompletionStep
<1> DEFINE status == SummaryStatus(total[d], after, fee)
<1>1. /\ items' = items
      /\ detailStatus' = [detailStatus EXCEPT ![d] = status]
      /\ receiptStatus' = Synced(receiptStatus, Linked(items[d]), status)
  BY DEF SyncSwiftTransferState
<1>2. e = d /\ status = "RECEIVED"
  BY <1>1 DEF LedgerInv, TypeInv, TypeOK
<1>3. r \in Linked(items[d]) /\ r \in Receipts /\ receiptStatus[r] \in Signed
  BY <1>1, <1>2, LinkedSigned
<1> QED
  BY <1>1, <1>2, <1>3, SyncedReceived DEF Signed

LEMMA CompletionMark ==
  ASSUME LedgerInv, NEW w \in Workers, NEW fee \in Fees, MarkReceiptReceived(w, fee)
  PROVE  CompletionStep
<1> DEFINE r      == session[w].receipt
           marked == [receiptStatus EXCEPT ![r] = "RECEIVED"]
           paid   == {d \in LinkedTo(r) : DOMAIN swifts[d] # {}}
           done   == {d \in LinkedTo(r) :
                        d \in paid \/ \A x \in Linked(items[d]) : marked[x] = "RECEIVED"}
           ids    == UNION {Linked(items[d]) : d \in paid}
<1> SUFFICES ASSUME NEW d \in Details,
                    detailStatus[d] # "RECEIVED" /\ detailStatus'[d] = "RECEIVED",
                    NEW x \in Linked(items'[d])
             PROVE  receiptStatus'[x] = "RECEIVED"
  BY DEF CompletionStep
<1>1. /\ receiptStatus' = Synced(marked, ids, "RECEIVED")
      /\ detailStatus' = [e \in Details |-> IF e \in done THEN "RECEIVED" ELSE detailStatus[e]]
      /\ items' = items
  BY DEF MarkReceiptReceived
<1>2. d \in done
  BY <1>1
<1>3. x \in Linked(items[d]) /\ x \in Receipts /\ receiptStatus[x] \in Signed
  BY <1>1, LinkedSigned
<1>4. marked[x] # "SIGNING_PENDING"
  BY <1>3 DEF LedgerInv, TypeInv, TypeOK, Signed
<1>5. CASE d \in paid
  <2>1. x \in ids
    BY <1>3, <1>5
  <2> QED
    BY <1>1, <1>3, <1>4, <2>1, SyncedReceived
<1>6. CASE d \notin paid
  <2>1. marked[x] = "RECEIVED"
    BY <1>2, <1>3, <1>6
  <2> QED
    BY <1>1, <1>3, <2>1 DEF Synced, ReceiptStatusOf
<1> QED
  BY <1>5, <1>6

LEMMA CompletionUpdate ==
  ASSUME LedgerInv, NEW d \in Details, NEW itemRows \in ItemRows, NEW fee \in Fees,
         UpdateDetail(d, itemRows, fee)
  PROVE  CompletionStep
<1> DEFINE linked == Linked(itemRows)
           first  == SetStatus(linked, IF detailStatus[d] = "Bank_Transfer"
                                         THEN "Bank_Transfer" ELSE "Waiting_SWIFT")
           status == SummaryStatus(SumOf(itemRows), swifts[d], fee)
<1> SUFFICES ASSUME NEW e \in Details,
                    detailStatus[e] # "RECEIVED" /\ detailStatus'[e] = "RECEIVED",
                    NEW r \in Linked(items'[e])
             PROVE  receiptStatus'[r] = "RECEIVED"
  BY DEF CompletionStep
<1>1. /\ items' = [items EXCEPT ![d] = itemRows]
      /\ detailStatus' = [detailStatus EXCEPT ![d] = IF DOMAIN swifts[d] # {} THEN status ELSE @]
      /\ receiptStatus' = IF DOMAIN swifts[d] # {} THEN Synced(first, linked, status) ELSE first
      /\ Accessible(itemRows)
  BY DEF UpdateDetail, SetItems
<1>2. e = d /\ DOMAIN swifts[d] # {} /\ status = "RECEIVED"
  BY <1>1 DEF LedgerInv, TypeInv, TypeOK
<1>3. r \in linked /\ r \in Receipts
  BY <1>1, <1>2 DEF LedgerInv, TypeInv, TypeOK, Linked
<1>4. first[r] # "SIGNING_PENDING"
  BY <1>1, <1>3 DEF Accessible, SetStatus
<1> QED
  BY <1>1, <1>2, <1>3, <1>4, SyncedReceived

\* A receipt that only this detail links gets the status of this detail.
LEMMA CompletionReceiptDeletion ==
  ASSUME LedgerInv, NEW w \in Workers, NEW r \in Receipts, NEW fee \in Fees,
         ApproveReceiptDeletion(w, r, fee)
  PROVE  CompletionStep
<1> DEFINE hit     == session[w].affected
           left    == [d \in Details |-> Without(items[d], r)]
           sum     == [d \in hit |-> SumOf(left[d])]
           status  == [d \in hit |-> SummaryStatus(sum[d], swifts[d], fee)]
           touched == UNION {Linked(left[d]) : d \in hit}
<1> SUFFICES ASSUME NEW d \in Details,
                    detailStatus[d] # "RECEIVED" /\ detailStatus'[d] = "RECEIVED",
                    NEW x \in Linked(items'[d]), LinkedTo(x) \subseteq {d}
             PROVE  receiptStatus'[x] = "RECEIVED"
  BY DEF CompletionStep
<1>1. /\ items' = left
      /\ detailStatus' = [e \in Details |-> IF e \in hit THEN status[e] ELSE detailStatus[e]]
      /\ hit \subseteq Details
  BY DEF ApproveReceiptDeletion, LiveDetails
<1>2. PICK last \in [touched -> hit] :
        /\ \A y \in touched : y \in DOMAIN left[last[y]]
        /\ receiptStatus' =
             [y \in Receipts |->
                IF y = r THEN "Deleted"
                ELSE IF y \in touched /\ receiptStatus[y] # "SIGNING_PENDING"
                       THEN ReceiptStatusOf(status[last[y]]) ELSE receiptStatus[y]]
  BY DEF ApproveReceiptDeletion
<1>3. d \in hit /\ status[d] = "RECEIVED"
  BY <1>1
<1>4. x \in Linked(left[d]) /\ x \in Linked(items[d]) /\ x # r
  BY <1>1 DEF Linked, Without
<1>5. x \in Receipts /\ receiptStatus[x] \in Signed
  BY <1>4, LinkedSigned
<1>6. x \in touched
  BY <1>3, <1>4
<1>7. last[x] = d
  <2>1. last[x] \in Details /\ x \in DOMAIN left[last[x]]
    BY <1>1, <1>2, <1>6
  <2>2. x \in DOMAIN items[last[x]]
    BY <2>1 DEF Without
  <2> QED
    BY <2>1, <2>2 DEF LinkedTo
<1> QED
  BY <1>2, <1>3, <1>4, <1>5, <1>6, <1>7 DEF Signed, ReceiptStatusOf

LEMMA CompletionNext == LedgerInv /\ [Next]_vars => [CompletionStep]_vars
<1> SUFFICES ASSUME LedgerInv, Next PROVE CompletionStep
  OBVIOUS
<1>0. TypeOK
  BY DEF LedgerInv, TypeInv
<1>1. ASSUME UNCHANGED detailStatus PROVE CompletionStep
  BY <1>1 DEF CompletionStep
<1>2. ASSUME NEW d \in Details, NEW s, NEW fee, NEW amount,
             \/ CreateSwift(d, s, amount, fee) \/ UpdateSwift(d, s, amount, fee)
             \/ MarkSwiftReceived(d, s, fee) \/ DeleteSwift(d, s, fee)
      PROVE  CompletionStep
  BY <1>2, CompletionSync DEF CreateSwift, UpdateSwift, MarkSwiftReceived, DeleteSwift
<1>3. ASSUME NEW w \in Workers, NEW s, NEW fee, ApproveSwiftDeletion(w, s, fee)
      PROVE  CompletionStep
  BY <1>3, CompletionSync DEF ApproveSwiftDeletion, OwnerOf
<1>4. ASSUME NEW w \in Workers, NEW d \in Details,
             CreateDetail(w, d) \/ ApproveDetailDeletion(w, d)
      PROVE  CompletionStep
  BY <1>0, <1>4 DEF CreateDetail, ApproveDetailDeletion, CompletionStep, TypeOK
<1>5. ASSUME NEW w \in Workers,
             \/ \E r \in Receipts : BeginFinalize(w, r) \/ BeginMark(w, r)
             \/ Finalize(w) \/ Abandon(w)
             \/ \E direct \in BOOLEAN, itemRows \in ItemRows : BeginCreateDetail(w, direct, itemRows)
             \/ \E t \in Targets, admin \in BOOLEAN : BeginRequest(w, t, admin)
             \/ \E q \in Requests : CreateRequest(w, q) \/ BeginReject(w, q) \/ BeginApprove(w, q)
             \/ Reject(w) \/ ApproveMissing(w)
      PROVE  UNCHANGED detailStatus
  BY <1>5 DEF BeginFinalize, BeginMark, Finalize, Abandon, BeginCreateDetail, BeginRequest,
              CreateRequest, BeginReject, BeginApprove, Reject, ApproveMissing, Begin, ledger
<1>6. ASSUME NEW r \in Receipts, CreateReceipt(r) \/ CreateUnsigned(r)
      PROVE  UNCHANGED detailStatus
  BY <1>6 DEF CreateReceipt, CreateUnsigned
<1>7. CASE ReceiptStep
  BY <1>1, <1>5, <1>6, <1>7, CompletionMark DEF ReceiptStep
<1>8. CASE DetailStep
  BY <1>1, <1>4, <1>5, <1>8, CompletionUpdate DEF DetailStep
<1>9. CASE SwiftStep
  BY <1>2, <1>9 DEF SwiftStep
<1>10. CASE RequestStep
  BY <1>1, <1>3, <1>4, <1>5, <1>10, CompletionReceiptDeletion DEF RequestStep
<1> QED
  BY <1>1, <1>5, <1>7, <1>8, <1>9, <1>10 DEF Next

\* Whichever step completes a detail, the receipts that only it links are
\* received with it.
THEOREM CompletionIsShared == Spec => CompletionReceivesReceipts
BY LedgerInvariant, CompletionNext, PTL DEF CompletionReceivesReceipts, Spec
-----------------------------------------------------------------------------
(***************************************************************************)
(* An approved deletion request has no surviving target.  What was once    *)
(* there and is gone stays gone: no handler revives a deleted row, and an  *)
(* identifier is not reused.  A request that found no target is therefore  *)
(* approved rightly even when it commits much later.                       *)
(***************************************************************************)
Existed(t) ==
  \/ t \in Receipts /\ receiptStatus[t] # "Unused"
  \/ t \in Details /\ detailStatus[t] # "Unused"
  \/ t \in Swifts /\ t \in issued

Gone(t) == Existed(t) /\ ~Exists(t)

\* A SWIFT belongs to one detail at most.
OneOwner == \A s \in Swifts : \A d, e \in OwnerOf(s) : d = e

RequestsInv ==
  /\ \A q \in Requests :
       /\ request[q].status # "None" => Existed(request[q].target)
       /\ request[q].status = "APPROVED" => Gone(request[q].target)
  /\ \A w \in Workers :
       /\ session[w].op = "request" => Existed(session[w].target)
       /\ session[w].op = "approve" /\ ~session[w].found =>
            Gone(request[session[w].request].target)

GoneInv == LedgerInv /\ IssuedInv /\ OneOwner /\ RequestsInv

\* What a step may do to a receipt, to a detail and to the owner of a SWIFT.
ReceiptsLast ==
  \A r \in Receipts :
    /\ receiptStatus[r] # "Unused" => receiptStatus'[r] # "Unused"
    /\ receiptStatus[r] = "Deleted" => receiptStatus'[r] = "Deleted"

DetailsLast ==
  \A d \in Details :
    /\ detailStatus[d] # "Unused" => detailStatus'[d] # "Unused"
    /\ detailStatus[d] = "Deleted" => detailStatus'[d] = "Deleted"

SwiftsLast ==
  /\ issued \subseteq issued'
  /\ \A s \in Swifts :
       \/ OwnerOf(s)' \subseteq OwnerOf(s)
       \/ s \notin issued /\ \E d \in Details : OwnerOf(s)' \subseteq {d}

Lasts == ReceiptsLast /\ DetailsLast /\ SwiftsLast

-----------------------------------------------------------------------------
\* A step that leaves the books alone.
LEMMA LastsSame ==
  ASSUME UNCHANGED <<receiptStatus, detailStatus, swifts, issued>>
  PROVE  Lasts
BY DEF Lasts, ReceiptsLast, DetailsLast, SwiftsLast, OwnerOf

\* Synchronising writes the statuses of records that exist.
LEMMA LastsSync ==
  ASSUME LedgerInv, NEW d \in LiveDetails, NEW after, NEW fee,
         SyncSwiftTransferState(d, after, fee)
  PROVE  ReceiptsLast /\ DetailsLast
<1> DEFINE status == SummaryStatus(total[d], after, fee)
<1>0. TypeOK
  BY DEF LedgerInv, TypeInv
<1>1. /\ d \in Details /\ detailStatus[d] \notin NoRow
      /\ detailStatus' = [detailStatus EXCEPT ![d] = status]
      /\ receiptStatus' = Synced(receiptStatus, Linked(items[d]), status)
  BY DEF SyncSwiftTransferState, LiveDetails
<1>2. DetailsLast
  BY <1>0, <1>1, SummaryStatusType DEF DetailsLast, NoRow, TypeOK, DetailStatuses
<1>3. \A st : ReceiptStatusOf(st) # "Unused"
  BY DEF ReceiptStatusOf
<1>4. \A r \in Linked(items[d]) : receiptStatus[r] # "Deleted"
  BY <1>1, LinkedSigned DEF Signed
<1>5. ReceiptsLast
  BY <1>1, <1>3, <1>4 DEF ReceiptsLast, Synced
<1> QED
  BY <1>2, <1>5

\* Replacing the rows of one detail changes the owner of no other SWIFT.
LEMMA LastsOwner ==
  ASSUME TypeOK, IssuedInv, NEW d \in Details, NEW after,
         swifts' = [swifts EXCEPT ![d] = after], issued \subseteq issued',
         \A s \in DOMAIN after :
           \/ s \in DOMAIN swifts[d]
           \/ s \notin issued
  PROVE  SwiftsLast
<1>1. ASSUME NEW s \in Swifts
      PROVE  \/ OwnerOf(s)' \subseteq OwnerOf(s)
             \/ s \notin issued /\ OwnerOf(s)' \subseteq {d}
  <2>1. OwnerOf(s)' \subseteq OwnerOf(s) \cup {d}
    BY DEF TypeOK, OwnerOf
  <2>2. CASE s \in DOMAIN after => s \in DOMAIN swifts[d]
    BY <2>1, <2>2 DEF TypeOK, OwnerOf
  <2>3. CASE s \notin issued
    <3>1. OwnerOf(s) = {}
      BY <2>3 DEF OwnerOf, IssuedInv
    <3> QED
      BY <2>1, <2>3, <3>1
  <2> QED
    BY <2>2, <2>3
<1> QED
  BY <1>1 DEF SwiftsLast

LEMMA LastsReceiptStep == LedgerInv /\ ReceiptStep => Lasts
<1> SUFFICES ASSUME LedgerInv, ReceiptStep PROVE Lasts
  OBVIOUS
<1>0. TypeOK /\ Books
  BY DEF LedgerInv, TypeInv
<1>1. ASSUME NEW r \in Receipts, CreateReceipt(r) \/ CreateUnsigned(r)
      PROVE  Lasts
  BY <1>0, <1>1 DEF CreateReceipt, CreateUnsigned, TypeOK, Lasts, ReceiptsLast, DetailsLast,
                    SwiftsLast, OwnerOf
<1>2. ASSUME NEW w \in Workers, NEW r \in Receipts, BeginFinalize(w, r) \/ BeginMark(w, r)
      PROVE  Lasts
  BY <1>2, LastsSame DEF BeginFinalize, BeginMark, Begin, ledger
<1>3. ASSUME NEW w \in Workers, Finalize(w)
      PROVE  Lasts
  BY <1>0, <1>3 DEF Finalize, LiveReceipts, NoRow, TypeOK, Lasts, ReceiptsLast, DetailsLast,
                    SwiftsLast, OwnerOf
<1>4. ASSUME NEW w \in Workers, NEW fee \in Fees, MarkReceiptReceived(w, fee)
      PROVE  Lasts
  <2> DEFINE r      == session[w].receipt
             marked == [receiptStatus EXCEPT ![r] = "RECEIVED"]
             paid   == {d \in LinkedTo(r) : DOMAIN swifts[d] # {}}
             done   == {d \in LinkedTo(r) :
                          d \in paid \/ \A x \in Linked(items[d]) : marked[x] = "RECEIVED"}
             ids    == UNION {Linked(items[d]) : d \in paid}
  <2>1. /\ r \in LiveReceipts
        /\ receiptStatus' = Synced(marked, ids, "RECEIVED")
        /\ detailStatus' = [d \in Details |-> IF d \in done THEN "RECEIVED" ELSE detailStatus[d]]
        /\ UNCHANGED <<swifts, issued>>
    BY <1>4 DEF MarkReceiptReceived
  <2>2. \A d \in done : d \in LiveDetails
    BY <1>0, NoRowsType DEF Books, LinksAreLive, LinkedTo
  <2>3. DetailsLast
    BY <2>1, <2>2 DEF DetailsLast, LiveDetails, NoRow
  <2>4. \A x \in ids : x \in Receipts /\ receiptStatus[x] \in Signed
    BY LinkedSigned DEF LinkedTo
  <2>5. ReceiptsLast
    <3> SUFFICES ASSUME NEW x \in Receipts
                 PROVE  /\ receiptStatus[x] # "Unused" => receiptStatus'[x] # "Unused"
                        /\ receiptStatus[x] = "Deleted" => receiptStatus'[x] = "Deleted"
      BY DEF ReceiptsLast
    <3>1. /\ receiptStatus[x] # "Unused" => marked[x] # "Unused"
          /\ receiptStatus[x] = "Deleted" => marked[x] = "Deleted"
      BY <1>0, <2>1 DEF TypeOK, LiveReceipts, NoRow
    <3>2. receiptStatus'[x] = marked[x] \/ (x \in ids /\ receiptStatus'[x] = "RECEIVED")
      BY <2>1 DEF Synced, ReceiptStatusOf
    <3> QED
      BY <2>4, <3>1, <3>2 DEF Signed
  <2>6. SwiftsLast
    BY <2>1 DEF SwiftsLast, OwnerOf
  <2> QED
    BY <2>3, <2>5, <2>6 DEF Lasts
<1> QED
  BY <1>1, <1>2, <1>3, <1>4 DEF ReceiptStep

LEMMA LastsDetailStep == LedgerInv /\ DetailStep => Lasts
<1> SUFFICES ASSUME LedgerInv, DetailStep PROVE Lasts
  OBVIOUS
<1>0. TypeOK
  BY DEF LedgerInv, TypeInv
<1>1. ASSUME NEW w \in Workers, NEW direct \in BOOLEAN, NEW itemRows \in ItemRows,
             BeginCreateDetail(w, direct, itemRows)
      PROVE  Lasts
  BY <1>1, LastsSame DEF BeginCreateDetail, Begin, ledger
<1>2. ASSUME NEW w \in Workers, NEW d \in Details, CreateDetail(w, d)
      PROVE  Lasts
  <2>1. ReceiptsLast
    BY <1>2 DEF CreateDetail, SetStatus, ReceiptsLast
  <2>2. DetailsLast /\ SwiftsLast
    BY <1>0, <1>2 DEF CreateDetail, DetailsLast, SwiftsLast, OwnerOf, TypeOK
  <2> QED
    BY <2>1, <2>2 DEF Lasts
<1>3. ASSUME NEW d \in Details, NEW itemRows \in ItemRows, NEW fee \in Fees,
             UpdateDetail(d, itemRows, fee)
      PROVE  Lasts
  <2> DEFINE linked == Linked(itemRows)
             first  == SetStatus(linked, IF detailStatus[d] = "Bank_Transfer"
                                           THEN "Bank_Transfer" ELSE "Waiting_SWIFT")
             status == SummaryStatus(SumOf(itemRows), swifts[d], fee)
  <2>1. /\ receiptStatus' = IF DOMAIN swifts[d] # {} THEN Synced(first, linked, status) ELSE first
        /\ detailStatus' = [detailStatus EXCEPT ![d] = IF DOMAIN swifts[d] # {} THEN status ELSE @]
        /\ Accessible(itemRows) /\ d \in LiveDetails
        /\ UNCHANGED <<swifts, issued>>
    BY <1>3 DEF UpdateDetail, Open
  <2>2. DetailsLast
    BY <1>0, <2>1, SummaryStatusType
       DEF DetailsLast, LiveDetails, NoRow, TypeOK, DetailStatuses
  <2>3. ReceiptsLast
    <3>1. \A st : ReceiptStatusOf(st) # "Unused"
      BY DEF ReceiptStatusOf
    <3>2. \A r \in linked : receiptStatus[r] # "Deleted"
      BY <2>1 DEF Accessible
    <3>3. \A r \in Receipts :
            /\ receiptStatus[r] # "Unused" => first[r] # "Unused"
            /\ receiptStatus[r] = "Deleted" => first[r] = "Deleted"
      BY <3>2 DEF SetStatus
    <3>4. \A r \in Receipts :
            /\ first[r] # "Unused" => Synced(first, linked, status)[r] # "Unused"
            /\ r \notin linked => Synced(first, linked, status)[r] = first[r]
      BY <3>1 DEF Synced
    <3> QED
      BY <2>1, <3>2, <3>3, <3>4 DEF ReceiptsLast
  <2>4. SwiftsLast
    BY <2>1 DEF SwiftsLast, OwnerOf
  <2> QED
    BY <2>2, <2>3, <2>4 DEF Lasts
<1> QED
  BY <1>1, <1>2, <1>3 DEF DetailStep

LEMMA LastsSwiftStep == LedgerInv /\ IssuedInv /\ SwiftStep => Lasts
<1> SUFFICES ASSUME LedgerInv, IssuedInv,
                    NEW d \in Details, NEW s \in Swifts, NEW fee \in Fees,
                    \/ \E amount \in Amounts :
                         CreateSwift(d, s, amount, fee) \/ UpdateSwift(d, s, amount, fee)
                    \/ MarkSwiftReceived(d, s, fee)
                    \/ DeleteSwift(d, s, fee)
             PROVE  Lasts
  BY DEF SwiftStep
<1>0. TypeOK /\ Books
  BY DEF LedgerInv, TypeInv
<1>1. s \in DOMAIN swifts[d] => d \in LiveDetails
  BY <1>0, NoRowsType DEF Books, LinksAreLive
<1>2. PICK after :
        /\ SyncSwiftTransferState(d, after, fee)
        /\ d \in LiveDetails
        /\ issued \subseteq issued'
        /\ \A x \in DOMAIN after : x \in DOMAIN swifts[d] \/ x \notin issued
  <2>1. \A row : DOMAIN WithSwift(d, s, row) = DOMAIN swifts[d] \cup {s}
    BY DEF WithSwift
  <2>2. DOMAIN Without(swifts[d], s) \subseteq DOMAIN swifts[d]
    BY DEF Without
  <2> QED
    BY <1>1, <2>1, <2>2 DEF CreateSwift, UpdateSwift, MarkSwiftReceived, DeleteSwift, Unsigned, Open
<1>3. ReceiptsLast /\ DetailsLast
  BY <1>2, LastsSync
<1>4. SwiftsLast
  BY <1>0, <1>2, LastsOwner DEF SyncSwiftTransferState
<1> QED
  BY <1>3, <1>4 DEF Lasts

\* What the three ways to approve a request do to its target.
LEMMA LastsReceiptDeletion ==
  ASSUME LedgerInv, NEW w \in Workers, NEW r \in Receipts, NEW fee \in Fees,
         ApproveReceiptDeletion(w, r, fee)
  PROVE  Lasts /\ receiptStatus[r] # "Unused" /\ receiptStatus'[r] = "Deleted"
<1> DEFINE hit     == session[w].affected
           left    == [d \in Details |-> Without(items[d], r)]
           sum     == [d \in hit |-> SumOf(left[d])]
           status  == [d \in hit |-> SummaryStatus(sum[d], swifts[d], fee)]
           touched == UNION {Linked(left[d]) : d \in hit}
<1>1. /\ r \in LiveReceipts /\ hit \subseteq LiveDetails
      /\ detailStatus' = [d \in Details |-> IF d \in hit THEN status[d] ELSE detailStatus[d]]
      /\ UNCHANGED <<swifts, issued>>
  BY DEF ApproveReceiptDeletion
<1>2. PICK last \in [touched -> hit] :
        receiptStatus' =
          [x \in Receipts |->
             IF x = r THEN "Deleted"
             ELSE IF x \in touched /\ receiptStatus[x] # "SIGNING_PENDING"
                    THEN ReceiptStatusOf(status[last[x]]) ELSE receiptStatus[x]]
  BY DEF ApproveReceiptDeletion
<1>3. \A st : ReceiptStatusOf(st) # "Unused"
  BY DEF ReceiptStatusOf
<1>4. ASSUME NEW x \in touched PROVE receiptStatus[x] # "Deleted"
  <2>1. PICK d \in hit : x \in Linked(left[d])
    BY <1>4
  <2>2. d \in Details /\ x \in Linked(items[d])
    BY <1>1, <2>1 DEF LiveDetails, Linked, Without
  <2> QED
    BY <2>2, LinkedSigned DEF Signed
<1>5. ReceiptsLast
  BY <1>2, <1>3, <1>4 DEF ReceiptsLast
<1>6. \A d \in hit : status[d] \notin NoRow
  BY SummaryStatusType DEF DetailStatuses, NoRow
<1>7. DetailsLast
  BY <1>1, <1>6 DEF DetailsLast, LiveDetails, NoRow
<1>8. SwiftsLast
  BY <1>1 DEF SwiftsLast, OwnerOf
<1> QED
  BY <1>1, <1>2, <1>5, <1>7, <1>8 DEF Lasts, LiveReceipts, NoRow

LEMMA LastsDetailDeletion ==
  ASSUME LedgerInv, IssuedInv, NEW w \in Workers, NEW d \in Details, ApproveDetailDeletion(w, d)
  PROVE  Lasts /\ detailStatus[d] # "Unused" /\ detailStatus'[d] = "Deleted"
<1>0. TypeOK
  BY DEF LedgerInv, TypeInv
<1>1. /\ d \in LiveDetails /\ session[w].linked \subseteq LiveReceipts
      /\ swifts' = [swifts EXCEPT ![d] = NoRows]
      /\ detailStatus' = [detailStatus EXCEPT ![d] = "Deleted"]
      /\ issued' = issued
  BY DEF ApproveDetailDeletion
<1>2. PICK orphans \in SUBSET Orphans(d, session[w].linked) :
        receiptStatus' = [r \in Receipts |->
                            IF r \in orphans THEN "Deleted"
                            ELSE IF r \in session[w].linked THEN "SR_Received"
                            ELSE receiptStatus[r]]
  BY DEF ApproveDetailDeletion
<1>3. ReceiptsLast
  BY <1>1, <1>2 DEF ReceiptsLast, LiveReceipts, NoRow
<1>4. DetailsLast
  BY <1>0, <1>1 DEF DetailsLast, TypeOK
<1>5. SwiftsLast
  BY <1>0, <1>1, NoRowsType, LastsOwner
<1> QED
  BY <1>0, <1>1, <1>3, <1>4, <1>5 DEF Lasts, LiveDetails, NoRow, TypeOK

LEMMA LastsSwiftDeletion ==
  ASSUME LedgerInv, IssuedInv, OneOwner, NEW w \in Workers, NEW s \in Swifts, NEW fee \in Fees,
         ApproveSwiftDeletion(w, s, fee)
  PROVE  Lasts /\ s \in issued /\ OwnerOf(s)' = {}
<1>0. TypeOK /\ Books
  BY DEF LedgerInv, TypeInv
<1>1. PICK d \in OwnerOf(s) : SyncSwiftTransferState(d, Without(swifts[d], s), fee)
  BY DEF ApproveSwiftDeletion
<1>2. d \in Details /\ s \in DOMAIN swifts[d] /\ issued' = issued
  BY DEF OwnerOf, ApproveSwiftDeletion
<1>3. d \in LiveDetails
  BY <1>0, <1>2, NoRowsType DEF Books, LinksAreLive
<1>4. swifts' = [swifts EXCEPT ![d] = Without(swifts[d], s)]
      /\ DOMAIN Without(swifts[d], s) = DOMAIN swifts[d] \ {s}
  BY <1>1 DEF SyncSwiftTransferState, Without
<1>5. Lasts
  BY <1>0, <1>1, <1>2, <1>3, <1>4, LastsSync, LastsOwner DEF Lasts
<1>6. OwnerOf(s) = {d}
  BY <1>1 DEF OneOwner
<1>7. OwnerOf(s)' = {}
  BY <1>0, <1>4, <1>6 DEF OwnerOf, TypeOK
<1> QED
  BY <1>2, <1>5, <1>7 DEF IssuedInv

LEMMA LastsRequestStep == LedgerInv /\ IssuedInv /\ OneOwner /\ RequestStep => Lasts
<1> SUFFICES ASSUME LedgerInv, IssuedInv, OneOwner, RequestStep PROVE Lasts
  OBVIOUS
<1>1. ASSUME NEW w \in Workers,
             \/ \E t \in Targets, admin \in BOOLEAN : BeginRequest(w, t, admin)
             \/ \E q \in Requests : CreateRequest(w, q) \/ BeginReject(w, q) \/ BeginApprove(w, q)
             \/ Reject(w) \/ ApproveMissing(w)
      PROVE  Lasts
  BY <1>1, LastsSame DEF BeginRequest, CreateRequest, BeginReject, BeginApprove, Reject,
                         ApproveMissing, Begin, ledger
<1> QED
  BY <1>1, LastsReceiptDeletion, LastsDetailDeletion, LastsSwiftDeletion DEF RequestStep

LEMMA LastsNext == LedgerInv /\ IssuedInv /\ OneOwner /\ [Next]_vars => Lasts
<1>1. ASSUME NEW w \in Workers, Abandon(w) PROVE Lasts
  BY <1>1, LastsSame DEF Abandon, ledger
<1>2. UNCHANGED vars => Lasts
  BY LastsSame DEF vars
<1> QED
  BY <1>1, <1>2, LastsReceiptStep, LastsDetailStep, LastsSwiftStep, LastsRequestStep DEF Next

-----------------------------------------------------------------------------
\* Hence what existed has existed, and what is gone stays gone.
LEMMA GoneStays ==
  ASSUME IssuedInv, Lasts, NEW t \in Targets
  PROVE  (Existed(t) => Existed(t)') /\ (Gone(t) => Gone(t)')
<1>1. Existed(t) => Existed(t)'
  BY DEF Existed, Lasts, ReceiptsLast, DetailsLast, SwiftsLast
<1>2. ASSUME Gone(t) PROVE ~Exists(t)'
  <2>1. CASE t \in Receipts
    <3>1. receiptStatus[t] = "Deleted" /\ t \notin Details /\ t \notin Swifts
      BY <1>2, <2>1, DisjointAssumption DEF Gone, Existed, Exists, LiveReceipts, NoRow
    <3>2. receiptStatus'[t] = "Deleted"
      BY <2>1, <3>1 DEF Lasts, ReceiptsLast
    <3> QED
      BY <3>1, <3>2 DEF Exists, LiveReceipts, LiveDetails, NoRow
  <2>2. CASE t \in Details
    <3>1. detailStatus[t] = "Deleted" /\ t \notin Receipts /\ t \notin Swifts
      BY <1>2, <2>2, DisjointAssumption DEF Gone, Existed, Exists, LiveDetails, NoRow
    <3>2. detailStatus'[t] = "Deleted"
      BY <2>2, <3>1 DEF Lasts, DetailsLast
    <3> QED
      BY <3>1, <3>2 DEF Exists, LiveReceipts, LiveDetails, NoRow
  <2>3. CASE t \in Swifts
    <3>1. t \in issued /\ OwnerOf(t) = {} /\ t \notin Receipts /\ t \notin Details
      BY <1>2, <2>3, DisjointAssumption DEF Gone, Existed, Exists
    <3>2. OwnerOf(t)' = {}
      BY <2>3, <3>1 DEF Lasts, SwiftsLast
    <3> QED
      BY <3>1, <3>2 DEF Exists, LiveReceipts, LiveDetails
  <2> QED
    BY <2>1, <2>2, <2>3 DEF Targets
<1> QED
  BY <1>1, <1>2 DEF Gone

LEMMA OneOwnerStays ==
  ASSUME OneOwner, Lasts
  PROVE  OneOwner'
<1> SUFFICES ASSUME NEW s \in Swifts, NEW d \in OwnerOf(s)', NEW e \in OwnerOf(s)'
             PROVE  d = e
  BY DEF OneOwner
<1> QED
  BY DEF OneOwner, Lasts, SwiftsLast

\* A request names a target, and so does a session that files one; a session
\* that decides names a request.
Named ==
  /\ \A q \in Requests : request[q].status # "None" => request[q].target \in Targets
  /\ \A w \in Workers :
       /\ session[w].op = "request" => session[w].target \in Targets
       /\ session[w].op \in {"reject", "approve"} =>
            /\ session[w].request \in Requests
            /\ request[session[w].request].status # "None"

LEMMA NamedTargets == TypeInv => Named
<1>1. TypeInv => \A q \in Requests :
                   request[q].status # "None" => request[q].target \in Targets
  BY DEF TypeInv, TypeOK, RequestRow, NoRequest
<1>2. TypeInv => \A w \in Workers :
        /\ session[w].op = "request" => session[w].target \in Targets
        /\ session[w].op \in {"reject", "approve"} => session[w].request \in Requests
  BY DEF TypeInv, TypeOK, Session, Idle
<1> QED
  BY <1>1, <1>2 DEF TypeInv, SessionsRefer, Named

LEMMA NamedAfter == TypeInv' => Named'
BY NamedTargets, PTL

\* What a step may do to the requests and the sessions: a request keeps its
\* target, is filed for a target that existed, and is approved when its target
\* is gone; a session begins with what it read.
RequestsMove ==
  /\ \A q \in Requests :
       /\ request[q].status # "None" => request'[q].target = request[q].target
       /\ request'[q].status # "None" =>
            \/ request[q].status # "None"
            \/ \E t \in Targets : request'[q].target = t /\ Existed(t)
       /\ request'[q].status = "APPROVED" =>
            \/ request[q].status = "APPROVED"
            \/ \E t \in Targets : request'[q].target = t /\ Gone(t)'
  /\ \A w \in Workers :
       \/ session'[w] = session[w]
       \/ session'[w].op \notin {"request", "approve"}
       \/ /\ session'[w].op = "request"
          /\ \E t \in Targets : session'[w].target = t /\ Existed(t)
       \/ /\ session'[w].op = "approve"
          /\ \E q \in Requests :
               /\ session'[w].request = q /\ request[q].status # "None"
               /\ ~session'[w].found => Gone(request[q].target)

LEMMA RequestsStay ==
  ASSUME GoneInv, TypeInv', Lasts, RequestsMove
  PROVE  RequestsInv'
<1>1. Named /\ Named' /\ IssuedInv /\ RequestsInv
  BY NamedTargets, NamedAfter DEF GoneInv, LedgerInv
<1>2. ASSUME NEW q \in Requests, request'[q].status # "None",
             NEW t \in Targets, request'[q].target = t
      PROVE  Existed(t)' /\ (request'[q].status = "APPROVED" => Gone(t)')
  <2>1. Existed(t)
    BY <1>1, <1>2 DEF RequestsMove, RequestsInv
  <2>2. request'[q].status = "APPROVED" => Gone(t) \/ Gone(t)'
    BY <1>1, <1>2 DEF RequestsMove, RequestsInv
  <2> QED
    BY <1>1, <2>1, <2>2, GoneStays
<1>3. ASSUME NEW w \in Workers, session'[w].op = "request",
             NEW t \in Targets, session'[w].target = t
      PROVE  Existed(t)'
  <2>1. Existed(t)
    BY <1>1, <1>3 DEF RequestsMove, RequestsInv
  <2> QED
    BY <1>1, <2>1, GoneStays
<1>4. ASSUME NEW w \in Workers, session'[w].op = "approve", ~session'[w].found,
             NEW q \in Requests, session'[w].request = q,
             NEW t \in Targets, request'[q].target = t
      PROVE  Gone(t)'
  <2>1. request[q].status # "None" /\ Gone(request[q].target)
    BY <1>1, <1>4 DEF RequestsMove, RequestsInv, Named
  <2>2. request[q].target = t
    BY <2>1, <1>4 DEF RequestsMove
  <2> QED
    BY <1>1, <2>1, <2>2, GoneStays
<1>5. ASSUME NEW q \in Requests, request'[q].status # "None"
      PROVE  /\ Existed(request[q].target)'
             /\ request'[q].status = "APPROVED" => Gone(request[q].target)'
  <2>1. PICK t \in Targets : request'[q].target = t
    BY <1>1, <1>5 DEF Named
  <2> QED
    BY <1>2, <1>5, <2>1
<1>6. ASSUME NEW w \in Workers, session'[w].op = "request"
      PROVE  Existed(session[w].target)'
  <2>1. PICK t \in Targets : session'[w].target = t
    BY <1>1, <1>6 DEF Named
  <2> QED
    BY <1>3, <1>6, <2>1
<1>7. ASSUME NEW w \in Workers, session'[w].op = "approve", ~session'[w].found
      PROVE  Gone(request[session[w].request].target)'
  <2>1. PICK q \in Requests : session'[w].request = q /\ request'[q].status # "None"
    BY <1>1, <1>7 DEF Named
  <2>2. PICK t \in Targets : request'[q].target = t
    BY <1>1, <2>1 DEF Named
  <2> QED
    BY <1>4, <1>7, <2>1, <2>2
<1> QED
  BY <1>5, <1>6, <1>7 DEF RequestsInv

\* What exists has existed; a pending request for a target that is not there
\* any more is for one that is gone.
LEMMA ExistsExisted ==
  ASSUME IssuedInv, NEW t \in Targets, Exists(t)
  PROVE  Existed(t)
BY DEF Exists, Existed, LiveReceipts, LiveDetails, NoRow, OwnerOf, IssuedInv

LEMMA MovesFinish ==
  ASSUME TypeInv, NEW w \in Workers, Finish(w), request' = request
  PROVE  RequestsMove
BY DEF TypeInv, TypeOK, Finish, Idle, RequestsMove

\* The request that a session approves is approved rightly.
LEMMA MovesApprove ==
  ASSUME GoneInv, NEW w \in Workers, NEW t \in Targets, Approving(w, t), Gone(t)'
  PROVE  RequestsMove
<1>1. TypeInv /\ TypeOK /\ Named
  BY NamedTargets DEF GoneInv, LedgerInv, TypeInv
<1>2. PICK p \in Requests : session[w].request = p /\ request[p].status # "None"
  BY <1>1 DEF Approving, Named
<1>3. /\ request[p].target = t /\ session' = [session EXCEPT ![w] = Idle]
      /\ request' = [request EXCEPT ![p].status = "APPROVED"]
  BY <1>2 DEF Approving, Finish
<1>4. request'[p].target = t /\ request'[p].status = "APPROVED"
  BY <1>1, <1>2, <1>3 DEF TypeOK, RequestRow, NoRequest
<1>5. \A q \in Requests \ {p} : request'[q] = request[q]
  BY <1>1, <1>3 DEF TypeOK
<1>6. \A v \in Workers : session'[v] = session[v] \/ session'[v].op \notin {"request", "approve"}
  BY <1>1, <1>3 DEF TypeOK, Idle
<1> QED
  BY <1>2, <1>3, <1>4, <1>5, <1>6 DEF RequestsMove

LEMMA MovesRequestStep == GoneInv /\ RequestStep => RequestsMove
<1> SUFFICES ASSUME GoneInv, RequestStep PROVE RequestsMove
  OBVIOUS
<1>0. TypeInv /\ TypeOK /\ Named /\ LedgerInv /\ IssuedInv /\ OneOwner /\ RequestsInv
  BY NamedTargets DEF GoneInv, LedgerInv, TypeInv
<1>1. ASSUME NEW w \in Workers, NEW t \in Targets, NEW admin \in BOOLEAN, BeginRequest(w, t, admin)
      PROVE  RequestsMove
  <2>1. Existed(t)
    BY <1>0, <1>1, ExistsExisted DEF BeginRequest, Requestable
  <2> QED
    BY <1>0, <1>1, <2>1 DEF BeginRequest, Begin, RequestsMove, TypeOK
<1>2. ASSUME NEW w \in Workers, NEW q \in Requests, CreateRequest(w, q)
      PROVE  RequestsMove
  <2>1. PICK t \in Targets : session[w].target = t /\ Existed(t)
    BY <1>0, <1>2 DEF CreateRequest, Named, RequestsInv
  <2>2. /\ request[q].status = "None"
        /\ request' = [request EXCEPT ![q] = [status |-> "PENDING", target |-> t]]
        /\ session' = [session EXCEPT ![w] = Idle]
    BY <1>2, <2>1 DEF CreateRequest, Finish
  <2>3. \A p \in Requests \ {q} : request'[p] = request[p]
    BY <1>0, <2>2 DEF TypeOK
  <2>4. request'[q].status = "PENDING" /\ request'[q].target = t
    BY <1>0, <2>2 DEF TypeOK
  <2>5. \A v \in Workers : session'[v] = session[v] \/ session'[v].op \notin {"request", "approve"}
    BY <1>0, <2>2 DEF TypeOK, Idle
  <2> QED
    BY <2>1, <2>2, <2>3, <2>4, <2>5 DEF RequestsMove
<1>3. ASSUME NEW w \in Workers, NEW q \in Requests, BeginReject(w, q)
      PROVE  RequestsMove
  BY <1>0, <1>3 DEF BeginReject, Begin, RequestsMove, TypeOK
<1>4. ASSUME NEW w \in Workers, NEW q \in Requests, BeginApprove(w, q)
      PROVE  RequestsMove
  <2> DEFINE t    == request[q].target
             read == [op |-> "approve", request |-> q, found |-> Exists(t),
                      linked |-> IF t \in Details THEN Linked(items[t]) ELSE {},
                      affected |-> IF t \in Receipts THEN LinkedTo(t) ELSE {}]
  <2>1. request[q].status # "None" /\ session' = [session EXCEPT ![w] = read] /\ request' = request
    BY <1>4 DEF BeginApprove, Begin
  <2>2. read.op = "approve" /\ read.request = q /\ (read.found <=> Exists(t))
    OBVIOUS
  <2>3. Existed(t)
    BY <1>0, <2>1 DEF RequestsInv
  <2>4. ~read.found => Gone(t)
    BY <2>2, <2>3 DEF Gone
  <2> HIDE DEF read
  <2>5. \A v \in Workers : session'[v] = session[v] \/ session'[v] = read
    BY <1>0, <2>1 DEF TypeOK
  <2> QED
    BY <2>1, <2>2, <2>4, <2>5 DEF RequestsMove
<1>5. ASSUME NEW w \in Workers, Reject(w)
      PROVE  RequestsMove
  <2>1. PICK p \in Requests : session[w].request = p /\ request[p].status # "None"
    BY <1>0, <1>5 DEF Reject, Named
  <2>2. /\ request' = [request EXCEPT ![p].status = "REJECTED"]
        /\ session' = [session EXCEPT ![w] = Idle]
    BY <1>5, <2>1 DEF Reject, Finish
  <2>3. \A q \in Requests \ {p} : request'[q] = request[q]
    BY <1>0, <2>2 DEF TypeOK
  <2>4. request'[p].target = request[p].target /\ request'[p].status = "REJECTED"
    BY <1>0, <2>1, <2>2 DEF TypeOK, RequestRow, NoRequest
  <2>5. \A v \in Workers : session'[v] = session[v] \/ session'[v].op \notin {"request", "approve"}
    BY <1>0, <2>2 DEF TypeOK, Idle
  <2> QED
    BY <2>1, <2>2, <2>3, <2>4, <2>5 DEF RequestsMove
<1>6. ASSUME NEW w \in Workers, ApproveMissing(w)
      PROVE  RequestsMove
  <2>1. PICK t \in Targets : Approving(w, t) /\ UNCHANGED ledger
    BY <1>6 DEF ApproveMissing
  <2>2. session[w].op = "approve" /\ ~session[w].found /\ t = request[session[w].request].target
    BY <1>6, <2>1 DEF ApproveMissing, Approving
  <2>3. Gone(t)
    BY <1>0, <2>2 DEF RequestsInv
  <2>4. Lasts
    BY <2>1, LastsSame DEF ledger
  <2>5. Gone(t)'
    BY <1>0, <2>3, <2>4, GoneStays
  <2> QED
    BY <2>1, <2>5, MovesApprove
<1>7. ASSUME NEW w \in Workers, NEW r \in Receipts, NEW fee \in Fees,
             ApproveReceiptDeletion(w, r, fee)
      PROVE  RequestsMove
  <2>1. r \in Targets /\ r \notin Details /\ r \notin Swifts /\ Approving(w, r)
    BY <1>7, DisjointAssumption DEF Targets, ApproveReceiptDeletion
  <2>2. receiptStatus'[r] = "Deleted"
    BY <1>0, <1>7, LastsReceiptDeletion
  <2>3. Gone(r)'
    BY <2>1, <2>2 DEF Gone, Existed, Exists, LiveReceipts, LiveDetails, NoRow
  <2> QED
    BY <2>1, <2>3, MovesApprove
<1>8. ASSUME NEW w \in Workers, NEW d \in Details, ApproveDetailDeletion(w, d)
      PROVE  RequestsMove
  <2>1. d \in Targets /\ d \notin Receipts /\ d \notin Swifts /\ Approving(w, d)
    BY <1>8, DisjointAssumption DEF Targets, ApproveDetailDeletion
  <2>2. detailStatus'[d] = "Deleted"
    BY <1>0, <1>8, LastsDetailDeletion
  <2>3. Gone(d)'
    BY <2>1, <2>2 DEF Gone, Existed, Exists, LiveReceipts, LiveDetails, NoRow
  <2> QED
    BY <2>1, <2>3, MovesApprove
<1>9. ASSUME NEW w \in Workers, NEW s \in Swifts, NEW fee \in Fees,
             ApproveSwiftDeletion(w, s, fee)
      PROVE  RequestsMove
  <2>1. s \in Targets /\ s \notin Receipts /\ s \notin Details /\ Approving(w, s)
    BY <1>9, DisjointAssumption DEF Targets, ApproveSwiftDeletion
  <2>2. s \in issued' /\ OwnerOf(s)' = {}
    BY <1>0, <1>9, LastsSwiftDeletion DEF ApproveSwiftDeletion
  <2>3. Gone(s)'
    BY <2>1, <2>2 DEF Gone, Existed, Exists, LiveReceipts, LiveDetails
  <2> QED
    BY <2>1, <2>3, MovesApprove
<1> QED
  BY <1>1, <1>2, <1>3, <1>4, <1>5, <1>6, <1>7, <1>8, <1>9 DEF RequestStep

LEMMA MovesNext == GoneInv /\ [Next]_vars => RequestsMove
<1> SUFFICES ASSUME GoneInv, [Next]_vars PROVE RequestsMove
  OBVIOUS
<1>0. TypeInv /\ TypeOK
  BY DEF GoneInv, LedgerInv, TypeInv
<1>1. ASSUME UNCHANGED <<request, session>> PROVE RequestsMove
  BY <1>1 DEF RequestsMove
<1>2. ASSUME NEW w \in Workers, NEW read, Begin(w, read), read.op \notin {"request", "approve"}
      PROVE  RequestsMove
  BY <1>0, <1>2 DEF Begin, RequestsMove, TypeOK
<1>3. CASE ReceiptStep
  <2>1. ASSUME NEW r \in Receipts, CreateReceipt(r) \/ CreateUnsigned(r) PROVE RequestsMove
    BY <1>1, <2>1 DEF CreateReceipt, CreateUnsigned
  <2>2. ASSUME NEW w \in Workers, NEW r \in Receipts, BeginFinalize(w, r) \/ BeginMark(w, r)
        PROVE  RequestsMove
    BY <1>2, <2>2 DEF BeginFinalize, BeginMark
  <2>3. ASSUME NEW w \in Workers, NEW fee \in Fees, Finalize(w) \/ MarkReceiptReceived(w, fee)
        PROVE  RequestsMove
    BY <1>0, <2>3, MovesFinish DEF Finalize, MarkReceiptReceived
  <2>4. ASSUME NEW w \in Workers, Finalize(w) PROVE RequestsMove
    BY <1>0, <2>4, MovesFinish DEF Finalize
  <2> QED
    BY <1>3, <2>1, <2>2, <2>3, <2>4 DEF ReceiptStep
<1>4. CASE DetailStep
  <2>1. ASSUME NEW w \in Workers, NEW direct \in BOOLEAN, NEW itemRows \in ItemRows,
               BeginCreateDetail(w, direct, itemRows)
        PROVE  RequestsMove
    BY <1>2, <2>1 DEF BeginCreateDetail
  <2>2. ASSUME NEW w \in Workers, NEW d \in Details, CreateDetail(w, d) PROVE RequestsMove
    BY <1>0, <2>2, MovesFinish DEF CreateDetail
  <2> QED
    BY <1>1, <1>4, <2>1, <2>2 DEF DetailStep, UpdateDetail
<1>5. CASE SwiftStep
  BY <1>1, <1>5 DEF SwiftStep, CreateSwift, UpdateSwift, MarkSwiftReceived, DeleteSwift
<1>6. ASSUME NEW w \in Workers, Abandon(w) PROVE RequestsMove
  BY <1>0, <1>6, MovesFinish DEF Abandon
<1> QED
  BY <1>1, <1>3, <1>4, <1>5, <1>6, MovesRequestStep DEF Next, vars

-----------------------------------------------------------------------------
LEMMA GoneInit == Init => GoneInv
<1>1. Init => OneOwner /\ RequestsInv
  BY NoRowsType DEF Init, OneOwner, OwnerOf, RequestsInv, NoRequest, Idle
<1> QED
  BY <1>1, LedgerInit, IssuedInit DEF GoneInv

LEMMA GoneStep == GoneInv /\ [Next]_vars => GoneInv'
<1> SUFFICES ASSUME GoneInv, [Next]_vars PROVE GoneInv'
  OBVIOUS
<1>1. LedgerInv /\ IssuedInv /\ OneOwner /\ TypeInv
  BY DEF GoneInv, LedgerInv
<1>2. LedgerInv' /\ IssuedInv' /\ TypeInv'
  BY <1>1, LedgerStep, IssuedStep DEF LedgerInv
<1>3. Lasts /\ RequestsMove
  BY <1>1, LastsNext, MovesNext
<1> QED
  BY <1>1, <1>2, <1>3, OneOwnerStays, RequestsStay DEF GoneInv

THEOREM GoneInvariant == Spec => []GoneInv
BY GoneInit, GoneStep, PTL DEF Spec

\* However late an approval commits, its target is gone, and stays gone.
THEOREM ApprovedIsGone == Spec => []ApprovedTargetGone
<1>1. GoneInv => ApprovedTargetGone
  BY DEF GoneInv, RequestsInv, ApprovedTargetGone, Gone
<1> QED
  BY <1>1, GoneInvariant, PTL
-----------------------------------------------------------------------------
(***************************************************************************)
(* Settlement implements PaymentContract.  The initial states map to       *)
(* initial ones, and every step does to each detail one of the things the  *)
(* contract allows.  That it leaves the detail balanced is what the ledger *)
(* invariant says of the state the step leads to.                          *)
(***************************************************************************)
Copies(d) == Cardinality(DOMAIN swifts[d])

LEMMA CopiesType ==
  ASSUME TypeOK, NEW d \in Details
  PROVE  /\ IsFiniteSet(DOMAIN swifts[d])
         /\ Copies(d) \in Nat /\ (Copies(d) = 0 <=> DOMAIN swifts[d] = {})
         /\ Transferred(swifts[d]) \in Nat /\ total[d] \in Nat
<1>1. swifts[d] \in SwiftRows /\ total[d] \in Nat
  BY DEF TypeOK
<1>2. DOMAIN swifts[d] \subseteq Swifts
  BY <1>1, RowsElim DEF SwiftRows
<1>3. IsFiniteSet(DOMAIN swifts[d])
  BY <1>2, FS_Subset, FinitenessAssumption
<1> QED
  BY <1>1, <1>3, AmountsType, FS_CardinalityType, FS_EmptySet DEF Copies

\* A detail waits for SWIFTs exactly when what it was paid does not cover it.
LEMMA SummaryWaits ==
  ASSUME NEW t, NEW sw, NEW fee, ~IsOverpaid(t, sw)
  PROVE  SummaryStatus(t, sw, fee) = "Waiting_SWIFT" <=> ~IsCovered(t, sw, fee)
BY DEF SummaryStatus, IsComplete

\* A detail that exists is in a phase of the contract.
Phases == LedgerInv => \A d \in LiveDetails : d \in Details /\ detailStatus[d] \in Contract!Exists

LEMMA PhaseOf == Phases
<1> SUFFICES ASSUME LedgerInv, NEW d \in LiveDetails
             PROVE  d \in Details /\ detailStatus[d] \in Contract!Exists
  BY DEF Phases
<1>1. /\ d \in Details /\ total[d] \in Nat /\ swifts[d] \in SwiftRows
      /\ Transferred(swifts[d]) <= total[d]
  BY DEF LiveDetails, LedgerInv, TypeInv, TypeOK, Books, NeverOverpaid
<1>2. \A fee : SummaryStatus(total[d], swifts[d], fee) \in {"RECEIVED", "Bank_Transfer", "Waiting_SWIFT"}
  BY <1>1, SummaryNoError
<1>3. detailStatus[d] \in {"RECEIVED", "Bank_Transfer", "Waiting_SWIFT"}
  BY <1>2 DEF LedgerInv, Books, StatusExplained
<1> QED
  BY <1>1, <1>3 DEF Contract!Exists, Contract!Open

\* The books of a detail that exists balance as the contract says.
Balances == LedgerInv => \A d \in LiveDetails : Contract!Balanced(d)

LEMMA BalancesHold == Balances
<1> SUFFICES ASSUME LedgerInv, NEW d \in LiveDetails PROVE Contract!Balanced(d)
  BY DEF Balances
<1>1. d \in Details /\ TypeOK /\ Books
  BY DEF LiveDetails, LedgerInv, TypeInv
<1>2. /\ IsFiniteSet(DOMAIN swifts[d]) /\ Copies(d) \in Nat
      /\ (Copies(d) = 0 <=> DOMAIN swifts[d] = {})
      /\ Transferred(swifts[d]) \in Nat /\ total[d] \in Nat
  BY <1>1, CopiesType
<1>3. Transferred(swifts[d]) <= total[d]
  BY <1>1 DEF Books, NeverOverpaid
<1>4. ASSUME NEW fee
      PROVE  Contract!Covered(d, fee) <=>
               total[d] > 0 /\ total[d] - Transferred(swifts[d]) <= fee * Copies(d)
  BY <1>1 DEF Contract!Covered, Copies
<1>5. Contract!PhaseJustified(d)
  <2>1. CASE DOMAIN swifts[d] = {}
    BY <1>1, <1>2, <2>1 DEF Contract!PhaseJustified, Copies
  <2>2. CASE DOMAIN swifts[d] # {}
    <3>1. PICK fee \in Fees : detailStatus[d] = SummaryStatus(total[d], swifts[d], fee)
      BY <1>1, <2>2 DEF Books, StatusExplained
    <3>2. ~IsOverpaid(total[d], swifts[d])
      BY <1>2, <1>3 DEF IsOverpaid
    <3>3. IsCovered(total[d], swifts[d], fee) <=> Contract!Covered(d, fee)
      BY <1>4, <2>2, <3>2 DEF IsCovered, Copies
    <3>4. (detailStatus[d] = "Waiting_SWIFT") <=> ~Contract!Covered(d, fee)
      BY <3>1, <3>2, <3>3, SummaryWaits
    <3> QED
      BY <1>1, <3>4 DEF Contract!PhaseJustified
  <2> QED
    BY <2>1, <2>2
<1> QED
  BY <1>1, <1>3, <1>5 DEF Contract!Balanced

\* Both hold after a step as well as before it.
LEMMA AfterStep == Phases' /\ Balances'
BY PhaseOf, BalancesHold, PTL

-----------------------------------------------------------------------------
\* What the contract says of one detail, in the terms of Settlement.
Does(d) ==
  \/ Contract!Stay(d) \/ Contract!Issue(d) \/ Contract!Amend(d) \/ Contract!Pay(d)
  \/ Contract!Sign(d) \/ Contract!CompleteByReceipts(d) \/ Contract!Withdraw(d)
  \/ Contract!Remove(d)

LEMMA DoesStay ==
  ASSUME NEW d \in Details, detailStatus'[d] = detailStatus[d], total'[d] = total[d],
         swifts'[d] = swifts[d]
  PROVE  Does(d)
BY DEF Does, Contract!Stay, Contract!SameMoney, Transferred

\* A step that is about one detail.
LEMMA DoesOne ==
  ASSUME NEW d \in Details, Does(d),
         \A e \in Details \ {d} : /\ detailStatus'[e] = detailStatus[e]
                                  /\ total'[e] = total[e] /\ swifts'[e] = swifts[e]
  PROVE  Contract!Next
<1>1. \A e \in Details : Does(e)
  BY DoesStay
<1> QED
  BY <1>1 DEF Contract!Next, Does

LEMMA DoesNothing ==
  ASSUME UNCHANGED <<detailStatus, total, swifts>>
  PROVE  Contract!Next
<1>1. \A e \in Details : Does(e)
  BY DoesStay
<1> QED
  BY <1>1 DEF Contract!Next, Does
-----------------------------------------------------------------------------
\* What a SWIFT handler leaves of the detail it synchronises.
LEMMA SyncMoney ==
  ASSUME LedgerInv, LedgerInv', NEW d \in LiveDetails, NEW after \in SwiftRows, NEW fee,
         SyncSwiftTransferState(d, after, fee)
  PROVE  /\ d \in Details /\ detailStatus[d] \in Contract!Exists
         /\ swifts'[d] = after /\ total'[d] = total[d]
         /\ detailStatus'[d] = SummaryStatus(total[d], after, fee)
         /\ detailStatus'[d] \in Contract!Exists /\ Contract!Balanced(d)'
         /\ \A e \in Details \ {d} : /\ detailStatus'[e] = detailStatus[e]
                                     /\ total'[e] = total[e] /\ swifts'[e] = swifts[e]
<1>1. d \in Details /\ detailStatus[d] \in Contract!Exists
  BY PhaseOf DEF Phases
<1>2. /\ swifts' = [swifts EXCEPT ![d] = after] /\ total' = total
      /\ detailStatus' = [detailStatus EXCEPT ![d] = SummaryStatus(total[d], after, fee)]
  BY DEF SyncSwiftTransferState
<1>3. /\ swifts'[d] = after
      /\ detailStatus'[d] = SummaryStatus(total[d], after, fee)
      /\ \A e \in Details \ {d} : detailStatus'[e] = detailStatus[e] /\ swifts'[e] = swifts[e]
  BY <1>1, <1>2 DEF LedgerInv, TypeInv, TypeOK
<1>4. d \in LiveDetails'
  BY <1>1, <1>3, SummaryStatusType DEF LiveDetails, DetailStatuses, NoRow
<1> QED
  BY <1>1, <1>2, <1>3, <1>4, AfterStep DEF Phases, Balances

\* A new or an edited SWIFT is unsigned, so the detail stays open.
LEMMA WritePays ==
  ASSUME LedgerInv, LedgerInv', NEW d \in Details, NEW s \in Swifts, NEW amount \in Amounts,
         NEW fee, Open(d),
         SyncSwiftTransferState(d, WithSwift(d, s, [amount |-> amount, status |-> "Bank_Transfer"]), fee)
  PROVE  Contract!Next
<1> DEFINE row   == [amount |-> amount, status |-> "Bank_Transfer"]
           after == WithSwift(d, s, row)
<1>0. TypeOK
  BY DEF LedgerInv, TypeInv
<1>1. row \in SwiftRow
  BY DEF SwiftRow, SwiftStatuses
<1>2. after \in SwiftRows /\ DOMAIN after = DOMAIN swifts[d] \cup {s}
  BY <1>0, <1>1, WithSwiftType DEF TypeOK
<1>3. /\ detailStatus[d] \in Contract!Exists /\ detailStatus[d] # "RECEIVED"
      /\ swifts'[d] = after /\ total'[d] = total[d]
      /\ detailStatus'[d] = SummaryStatus(total[d], after, fee)
      /\ detailStatus'[d] \in Contract!Exists /\ Contract!Balanced(d)'
      /\ \A e \in Details \ {d} : /\ detailStatus'[e] = detailStatus[e]
                                  /\ total'[e] = total[e] /\ swifts'[e] = swifts[e]
  BY <1>2, SyncMoney DEF Open
<1>4. after[s].status = "Bank_Transfer"
  BY DEF WithSwift
<1>5. ~AllReceived(after)
  BY <1>2, <1>4 DEF AllReceived
<1>6. detailStatus'[d] # "RECEIVED"
  BY <1>3, <1>5 DEF SummaryStatus, IsComplete
<1>7. Cardinality(DOMAIN after) \in {Copies(d), Copies(d) + 1}
  <2>1. CASE s \in DOMAIN swifts[d]
    <3>1. DOMAIN after = DOMAIN swifts[d]
      BY <1>2, <2>1
    <3> QED
      BY <3>1 DEF Copies
  <2>2. CASE s \notin DOMAIN swifts[d]
    BY <1>0, <1>2, <2>2, CopiesType, FS_AddElement DEF Copies
  <2> QED
    BY <2>1, <2>2
<1>8. Contract!Pay(d)
  BY <1>3, <1>6, <1>7 DEF Contract!Pay, Contract!Open, Contract!Exists, Copies
<1> QED
  BY <1>3, <1>8, DoesOne DEF Does

LEMMA SignatureSigns ==
  ASSUME LedgerInv, LedgerInv', NEW d \in Details, NEW s \in Swifts, NEW fee,
         MarkSwiftReceived(d, s, fee)
  PROVE  Contract!Next
<1> DEFINE row   == [swifts[d][s] EXCEPT !.status = "RECEIVED"]
           after == WithSwift(d, s, row)
<1>0. TypeOK /\ Books
  BY DEF LedgerInv, TypeInv
<1>1. /\ s \in DOMAIN swifts[d] /\ swifts[d][s].status # "RECEIVED"
      /\ SyncSwiftTransferState(d, after, fee)
  BY DEF MarkSwiftReceived, Unsigned
<1>2. d \in LiveDetails
  BY <1>0, <1>1, NoRowsType DEF Books, LinksAreLive
<1>3. row \in SwiftRow
  <2>1. swifts[d][s] \in SwiftRow
    BY <1>0, <1>1, RowsElim DEF TypeOK, SwiftRows
  <2> QED
    BY <2>1 DEF SwiftRow, SwiftStatuses
<1>4. after \in SwiftRows /\ DOMAIN after = DOMAIN swifts[d]
  <2>1. swifts \in [Details -> SwiftRows]
    BY <1>0 DEF TypeOK
  <2>2. after \in SwiftRows
    BY <1>3, <2>1, WithSwiftType
  <2> QED
    BY <1>1, <2>2 DEF WithSwift
<1>5. Transferred(after) = Transferred(swifts[d])
  BY <1>0, <1>1, SignedSum
<1>6. /\ detailStatus[d] \in Contract!Exists
      /\ swifts'[d] = after /\ total'[d] = total[d]
      /\ detailStatus'[d] \in Contract!Exists /\ Contract!Balanced(d)'
      /\ \A e \in Details \ {d} : /\ detailStatus'[e] = detailStatus[e]
                                  /\ total'[e] = total[e] /\ swifts'[e] = swifts[e]
  BY <1>1, <1>2, <1>4, SyncMoney
<1>7. detailStatus[d] # "RECEIVED"
  BY <1>1, ReceivedAllSigned
<1>8. Copies(d) > 0
  BY <1>0, <1>1, CopiesType
<1>9. Transferred(swifts'[d]) = Transferred(swifts[d])
  BY <1>5, <1>6
<1>10. Contract!SameMoney(d)
  BY <1>4, <1>6, <1>9 DEF Contract!SameMoney, Transferred
<1>11. Contract!Sign(d)
  BY <1>6, <1>7, <1>8, <1>10 DEF Contract!Sign, Contract!Open, Contract!Exists, Copies
<1> QED
  BY <1>6, <1>11, DoesOne DEF Does

LEMMA DeletionWithdraws ==
  ASSUME LedgerInv, LedgerInv', NEW d \in Details, NEW s \in DOMAIN swifts[d], NEW fee,
         SyncSwiftTransferState(d, Without(swifts[d], s), fee)
  PROVE  Contract!Next
<1> DEFINE after == Without(swifts[d], s)
<1>0. TypeOK /\ Books
  BY DEF LedgerInv, TypeInv
<1>1. d \in LiveDetails
  BY <1>0, NoRowsType DEF Books, LinksAreLive
<1>2. /\ after \in SwiftRows /\ Transferred(after) <= Transferred(swifts[d])
      /\ DOMAIN after \subseteq DOMAIN swifts[d]
  BY <1>0, DeletedSum DEF TypeOK, Without
<1>3. /\ detailStatus[d] \in Contract!Exists
      /\ swifts'[d] = after /\ total'[d] = total[d]
      /\ detailStatus'[d] = SummaryStatus(total[d], after, fee)
      /\ detailStatus'[d] \in Contract!Exists /\ Contract!Balanced(d)'
      /\ \A e \in Details \ {d} : /\ detailStatus'[e] = detailStatus[e]
                                  /\ total'[e] = total[e] /\ swifts'[e] = swifts[e]
  BY <1>1, <1>2, SyncMoney
<1>4. IsFiniteSet(DOMAIN swifts[d]) /\ total[d] \in Nat
  BY <1>0, CopiesType
<1>5. IsFiniteSet(DOMAIN after) /\ Cardinality(DOMAIN after) <= Copies(d)
  BY <1>2, <1>4, FS_Subset DEF Copies
<1>6. Cardinality(DOMAIN after) = 0 => detailStatus'[d] = "Waiting_SWIFT"
  BY <1>2, <1>3, <1>4, <1>5, FS_EmptySet, SummaryEmpty
<1>7. Transferred(swifts'[d]) <= Transferred(swifts[d])
  BY <1>2, <1>3
<1>8. Contract!Withdraw(d)
  BY <1>3, <1>4, <1>5, <1>6, <1>7 DEF Contract!Withdraw, Copies, Transferred
<1> QED
  BY <1>3, <1>8, DoesOne DEF Does

LEMMA ImplSwiftStep == LedgerInv /\ LedgerInv' /\ SwiftStep => Contract!Next
<1> SUFFICES ASSUME LedgerInv, LedgerInv', NEW d \in Details, NEW s \in Swifts, NEW fee \in Fees,
                    \/ \E amount \in Amounts :
                         CreateSwift(d, s, amount, fee) \/ UpdateSwift(d, s, amount, fee)
                    \/ MarkSwiftReceived(d, s, fee)
                    \/ DeleteSwift(d, s, fee)
             PROVE  Contract!Next
  BY DEF SwiftStep
<1>1. ASSUME NEW amount \in Amounts,
             CreateSwift(d, s, amount, fee) \/ UpdateSwift(d, s, amount, fee)
      PROVE  Contract!Next
  BY <1>1, WritePays DEF CreateSwift, UpdateSwift
<1>2. CASE DeleteSwift(d, s, fee)
  BY <1>2, DeletionWithdraws DEF DeleteSwift
<1> QED
  BY <1>1, <1>2, SignatureSigns

-----------------------------------------------------------------------------
LEMMA ImplReceiptStep == LedgerInv /\ LedgerInv' /\ ReceiptStep => Contract!Next
<1> SUFFICES ASSUME LedgerInv, LedgerInv', ReceiptStep PROVE Contract!Next
  OBVIOUS
<1>0. TypeOK /\ Books
  BY DEF LedgerInv, TypeInv
<1>1. ASSUME NEW r \in Receipts, CreateReceipt(r) \/ CreateUnsigned(r)
      PROVE  Contract!Next
  BY <1>1, DoesNothing DEF CreateReceipt, CreateUnsigned
<1>2. ASSUME NEW w \in Workers,
             \/ \E r \in Receipts : BeginFinalize(w, r) \/ BeginMark(w, r)
             \/ Finalize(w)
      PROVE  Contract!Next
  BY <1>2, DoesNothing DEF BeginFinalize, BeginMark, Begin, ledger, Finalize
<1>3. ASSUME NEW w \in Workers, NEW fee \in Fees, MarkReceiptReceived(w, fee)
      PROVE  Contract!Next
  <2> DEFINE r      == session[w].receipt
             marked == [receiptStatus EXCEPT ![r] = "RECEIVED"]
             paid   == {d \in LinkedTo(r) : DOMAIN swifts[d] # {}}
             done   == {d \in LinkedTo(r) :
                          d \in paid \/ \A x \in Linked(items[d]) : marked[x] = "RECEIVED"}
  <2>1. /\ detailStatus' = [d \in Details |-> IF d \in done THEN "RECEIVED" ELSE detailStatus[d]]
        /\ UNCHANGED <<total, swifts>>
    BY <1>3 DEF MarkReceiptReceived
  <2>2. ASSUME NEW d \in Details PROVE Does(d)
    <3>1. CASE d \notin done \/ detailStatus[d] = "RECEIVED"
      BY <2>1, <3>1, DoesStay
    <3>2. CASE d \in done /\ detailStatus[d] # "RECEIVED"
      <4>1. d \in LiveDetails
        BY <1>0, <3>2, NoRowsType DEF Books, LinksAreLive, LinkedTo
      <4>2. detailStatus[d] \in Contract!Open
        BY <3>2, <4>1, PhaseOf DEF Phases, Contract!Exists
      <4>3. detailStatus'[d] = "RECEIVED" /\ d \in LiveDetails'
        BY <2>1, <3>2 DEF LiveDetails, NoRow
      <4>4. Contract!Balanced(d)' /\ "RECEIVED" \in Contract!Exists
        BY <4>3, AfterStep DEF Balances, Contract!Exists
      <4>5. Contract!SameMoney(d)
        BY <2>1 DEF Contract!SameMoney, Transferred
      <4>6. Copies(d) \in Nat
        BY <1>0, CopiesType
      <4>7. CASE Copies(d) = 0
        BY <4>2, <4>3, <4>5, <4>7 DEF Does, Contract!CompleteByReceipts, Copies
      <4>8. CASE Copies(d) > 0
        BY <4>2, <4>3, <4>4, <4>5, <4>8 DEF Does, Contract!Sign, Copies
      <4> QED
        BY <4>6, <4>7, <4>8
    <3> QED
      BY <3>1, <3>2
  <2> QED
    BY <2>2 DEF Contract!Next, Does
<1> QED
  BY <1>1, <1>2, <1>3 DEF ReceiptStep

LEMMA ImplDetailStep == LedgerInv /\ LedgerInv' /\ DetailStep => Contract!Next
<1> SUFFICES ASSUME LedgerInv, LedgerInv', DetailStep PROVE Contract!Next
  OBVIOUS
<1>0. TypeOK /\ Books
  BY DEF LedgerInv, TypeInv
<1>1. ASSUME NEW w \in Workers, NEW direct \in BOOLEAN, NEW itemRows \in ItemRows,
             BeginCreateDetail(w, direct, itemRows)
      PROVE  Contract!Next
  BY <1>1, DoesNothing DEF BeginCreateDetail, Begin, ledger
<1>2. ASSUME NEW w \in Workers, NEW d \in Details, CreateDetail(w, d)
      PROVE  Contract!Next
  <2>1. /\ detailStatus[d] = "Unused" /\ detailStatus'[d] = "Waiting_SWIFT" /\ swifts' = swifts
        /\ \A e \in Details \ {d} : detailStatus'[e] = detailStatus[e] /\ total'[e] = total[e]
    BY <1>0, <1>2 DEF CreateDetail, SetItems, TypeOK
  <2>2. DOMAIN swifts[d] = {} /\ Transferred(swifts[d]) = 0
    BY <2>1, AbsentUnpaid DEF LiveDetails, NoRow
  <2>3. Copies(d) = 0
    BY <1>0, <2>2, CopiesType
  <2>4. Contract!Balanced(d)'
    BY <2>1, AfterStep DEF Balances, LiveDetails, NoRow
  <2>5. Contract!Issue(d)
    BY <2>1, <2>2, <2>3, <2>4 DEF Contract!Issue, Copies, Transferred
  <2> QED
    BY <2>1, <2>5, DoesOne DEF Does
<1>3. ASSUME NEW d \in Details, NEW itemRows \in ItemRows, NEW fee \in Fees,
             UpdateDetail(d, itemRows, fee)
      PROVE  Contract!Next
  <2>1. /\ d \in LiveDetails /\ detailStatus[d] # "RECEIVED" /\ swifts' = swifts
        /\ DOMAIN swifts[d] = {} => detailStatus'[d] = detailStatus[d]
        /\ DOMAIN swifts[d] # {} => detailStatus'[d] = SummaryStatus(SumOf(itemRows), swifts[d], fee)
        /\ \A e \in Details \ {d} : detailStatus'[e] = detailStatus[e] /\ total'[e] = total[e]
    BY <1>0, <1>3 DEF UpdateDetail, Open, SetItems, TypeOK
  <2>2. detailStatus[d] \in Contract!Open
    BY <2>1, PhaseOf DEF Phases, Contract!Exists
  <2>3. d \in LiveDetails'
    BY <2>1, SummaryStatusType DEF LiveDetails, DetailStatuses, NoRow
  <2>4. detailStatus'[d] \in Contract!Exists /\ Contract!Balanced(d)'
    BY <2>3, AfterStep DEF Phases, Balances
  <2>5. Copies(d) = 0 => detailStatus'[d] = detailStatus[d]
    BY <1>0, <2>1, CopiesType
  <2>6. Contract!Amend(d)
    BY <2>1, <2>2, <2>4, <2>5 DEF Contract!Amend, Copies, Transferred
  <2> QED
    BY <2>1, <2>6, DoesOne DEF Does
<1> QED
  BY <1>1, <1>2, <1>3 DEF DetailStep

\* A deleted receipt is withdrawn from the details that were seen to link it.
LEMMA ImplReceiptDeletion ==
  ASSUME LedgerInv, LedgerInv', NEW w \in Workers, NEW r \in Receipts, NEW fee \in Fees,
         ApproveReceiptDeletion(w, r, fee)
  PROVE  Contract!Next
<1> DEFINE hit     == session[w].affected
           left    == [d \in Details |-> Without(items[d], r)]
           sum     == [d \in hit |-> SumOf(left[d])]
           status  == [d \in hit |-> SummaryStatus(sum[d], swifts[d], fee)]
<1>0. TypeOK /\ Books
  BY DEF LedgerInv, TypeInv
<1>1. /\ hit \subseteq LiveDetails /\ swifts' = swifts
      /\ total' = [d \in Details |-> IF d \in hit THEN sum[d] ELSE total[d]]
      /\ detailStatus' = [d \in Details |-> IF d \in hit THEN status[d] ELSE detailStatus[d]]
  BY DEF ApproveReceiptDeletion
<1>2. ASSUME NEW d \in Details PROVE Does(d)
  <2>1. CASE d \notin hit
    BY <1>1, <2>1, DoesStay
  <2>2. CASE d \in hit
    <3>1. /\ total'[d] = SumOf(left[d])
          /\ detailStatus'[d] = SummaryStatus(SumOf(left[d]), swifts[d], fee)
          /\ d \in LiveDetails
      BY <1>1, <2>2
    <3>2. detailStatus[d] \in Contract!Exists
      BY <3>1, PhaseOf DEF Phases
    <3>3. d \in LiveDetails'
      BY <3>1, SummaryStatusType DEF LiveDetails, DetailStatuses, NoRow
    <3>4. detailStatus'[d] \in Contract!Exists /\ Contract!Balanced(d)'
      BY <3>3, AfterStep DEF Phases, Balances
    <3>5. /\ left[d] \in Rows(Slots, Amounts) /\ items[d] \in Rows(Slots, Amounts)
          /\ SumOf(left[d]) \in Nat /\ SumOf(items[d]) \in Nat
          /\ DOMAIN left[d] \subseteq DOMAIN items[d]
          /\ \A k \in DOMAIN left[d] : left[d][k] = items[d][k]
      BY <1>0, WithoutType, ItemSumType DEF TypeOK, ItemRows, Without
    <3>6. SumOf(left[d]) <= SumOf(items[d])
      BY <3>5, SlotsFinite, SumOfShrinks
    <3>7. total[d] >= SumOf(items[d]) /\ total[d] \in Nat
      BY <1>0 DEF Books, TotalCoversItems, TypeOK
    <3>8. total'[d] <= total[d]
      BY <3>1, <3>5, <3>6, <3>7
    <3>9. /\ swifts[d] \in SwiftRows /\ Copies(d) \in Nat /\ Transferred(swifts[d]) \in Nat
          /\ (Copies(d) = 0 <=> DOMAIN swifts[d] = {})
      BY <1>0, CopiesType DEF TypeOK
    <3>10. Copies(d) = 0 => detailStatus'[d] = "Waiting_SWIFT"
      BY <3>1, <3>5, <3>9, SummaryEmpty
    <3>11. Contract!Withdraw(d)
      BY <1>1, <3>2, <3>4, <3>8, <3>9, <3>10 DEF Contract!Withdraw, Copies, Transferred
    <3> QED
      BY <3>11 DEF Does
  <2> QED
    BY <2>1, <2>2
<1> QED
  BY <1>2 DEF Contract!Next, Does

LEMMA ImplDetailDeletion ==
  ASSUME LedgerInv, NEW w \in Workers, NEW d \in Details, ApproveDetailDeletion(w, d)
  PROVE  Contract!Next
<1>0. TypeOK
  BY DEF LedgerInv, TypeInv
<1>1. /\ d \in LiveDetails
      /\ detailStatus'[d] = "Deleted" /\ total'[d] = 0 /\ swifts'[d] = NoRows
      /\ \A e \in Details \ {d} : /\ detailStatus'[e] = detailStatus[e]
                                  /\ total'[e] = total[e] /\ swifts'[e] = swifts[e]
  BY <1>0 DEF ApproveDetailDeletion, TypeOK
<1>2. detailStatus[d] \in Contract!Exists
  BY <1>1, PhaseOf DEF Phases
<1>3. NoRows \in SwiftRows /\ DOMAIN NoRows = {} /\ Cardinality({}) = 0
  BY NoRowsType, FS_EmptySet DEF SwiftRows
<1>4. Transferred(swifts'[d]) = 0 /\ Cardinality(DOMAIN swifts'[d]) = 0
  BY <1>1, <1>3, SummaryEmpty
<1>5. Contract!Remove(d)
  BY <1>1, <1>2, <1>4 DEF Contract!Remove, Transferred
<1> QED
  BY <1>1, <1>5, DoesOne DEF Does

LEMMA ImplRequestStep == LedgerInv /\ LedgerInv' /\ RequestStep => Contract!Next
<1> SUFFICES ASSUME LedgerInv, LedgerInv', RequestStep PROVE Contract!Next
  OBVIOUS
<1>1. ASSUME NEW w \in Workers,
             \/ \E t \in Targets, admin \in BOOLEAN : BeginRequest(w, t, admin)
             \/ \E q \in Requests : CreateRequest(w, q) \/ BeginReject(w, q) \/ BeginApprove(w, q)
             \/ Reject(w) \/ ApproveMissing(w)
      PROVE  Contract!Next
  BY <1>1, DoesNothing DEF BeginRequest, CreateRequest, BeginReject, BeginApprove, Reject,
                           ApproveMissing, Begin, ledger
<1>2. ASSUME NEW w \in Workers, NEW s \in Swifts, NEW fee \in Fees,
             ApproveSwiftDeletion(w, s, fee)
      PROVE  Contract!Next
  BY <1>2, DeletionWithdraws DEF ApproveSwiftDeletion, OwnerOf
<1> QED
  BY <1>1, <1>2, ImplReceiptDeletion, ImplDetailDeletion DEF RequestStep

LEMMA ImplInit == Init => Contract!Init
<1> SUFFICES ASSUME Init PROVE Contract!Init
  OBVIOUS
<1>1. NoRows \in SwiftRows /\ DOMAIN NoRows = {} /\ Cardinality({}) = 0
  BY NoRowsType, FS_EmptySet DEF SwiftRows
<1>2. Transferred(NoRows) = 0
  BY <1>1, SummaryEmpty
<1> QED
  BY <1>1, <1>2 DEF Init, Contract!Init

LEMMA ImplStep ==
  LedgerInv /\ LedgerInv' /\ [Next]_vars => [Contract!Next]_(Contract!vars)
<1> SUFFICES ASSUME LedgerInv, LedgerInv', [Next]_vars PROVE Contract!Next
  OBVIOUS
<1>1. ASSUME NEW w \in Workers, Abandon(w) PROVE Contract!Next
  BY <1>1, DoesNothing DEF Abandon, ledger
<1>2. UNCHANGED vars => Contract!Next
  BY DoesNothing DEF vars
<1> QED
  BY <1>1, <1>2, ImplReceiptStep, ImplDetailStep, ImplSwiftStep, ImplRequestStep DEF Next

\* Settlement implements the contract of a payment detail.
THEOREM Implements == Spec => ImplementsContract
BY LedgerInvariant, ImplInit, ImplStep, PTL DEF Spec, ImplementsContract, Contract!Spec
=============================================================================
