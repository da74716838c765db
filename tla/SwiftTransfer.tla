--------------------------- MODULE SwiftTransfer ---------------------------
(***************************************************************************)
(* The arithmetic of a payment detail: how much of its total the SWIFT     *)
(* transfers attached to it have covered, and the status that follows      *)
(* (lib/swift-transfer-summary.ts, lib/money.ts).                          *)
(*                                                                         *)
(* Money is counted in indivisible units (the database column is           *)
(* Decimal(18,2), so a unit is a cent).  A collection of amounts is a      *)
(* function from row identifiers to amounts, and its sum is the number of  *)
(* its units.                                                              *)
(***************************************************************************)
EXTENDS Integers, FiniteSets

CONSTANT MaxAmount     \* the largest amount one row can hold

ASSUME MaxAmountAssumption == MaxAmount \in Nat \ {0}

\* Item and SWIFT amounts are validated to be positive.
Amounts == 1..MaxAmount

\* The tables of V-valued rows whose identifiers come from K.
Rows(K, V) == UNION {[S -> V] : S \in SUBSET K}

\* The table that holds no row.
NoRows == [k \in {} |-> k]

Without(rows, k) == [x \in DOMAIN rows \ {k} |-> rows[x]]

\* addMoney over the amounts of a table.
Units(rows) == UNION {{k} \X (1..rows[k]) : k \in DOMAIN rows}
SumOf(rows)  == Cardinality(Units(rows))

-----------------------------------------------------------------------------
\* A SWIFT row as the summary sees it.  The code writes no other status, and
\* never sets hasError, so every row is one of the "valid" ones.
SwiftStatuses == {"Bank_Transfer", "RECEIVED"}
SwiftRow      == [amount : Amounts, status : SwiftStatuses]

AmountsOf(swifts) == [s \in DOMAIN swifts |-> swifts[s].amount]
Transferred(swifts) == SumOf(AmountsOf(swifts))

AllReceived(swifts) ==
  /\ DOMAIN swifts # {}
  /\ \A s \in DOMAIN swifts : swifts[s].status = "RECEIVED"

\* Fault: a transfer one unit above the total is let through.
IsOverpaidLeniently(total, swifts) == Transferred(swifts) > total + 1

IsOverpaid(total, swifts) == Transferred(swifts) > total

\* Each copy may have lost up to fee units on the way.
IsCovered(total, swifts, fee) ==
  /\ total > 0
  /\ DOMAIN swifts # {}
  /\ ~IsOverpaid(total, swifts)
  /\ total - Transferred(swifts) <= fee * Cardinality(DOMAIN swifts)

IsComplete(total, swifts, fee) ==
  IsCovered(total, swifts, fee) /\ AllReceived(swifts)

\* Fault: a status the schema does not have.
SummaryStatusPartial(total, swifts, fee) ==
  IF IsComplete(total, swifts, fee) THEN "RECEIVED" ELSE "Partial"

SummaryStatus(total, swifts, fee) ==
  CASE IsOverpaid(total, swifts)      -> "ERROR"
    [] IsComplete(total, swifts, fee) -> "RECEIVED"
    [] IsCovered(total, swifts, fee) /\ ~AllReceived(swifts) -> "Bank_Transfer"
    [] OTHER                          -> "Waiting_SWIFT"

\* Fault: receipts are left behind when the last SWIFT is signed.
ReceiptStatusOfUnsigned(summaryStatus) ==
  IF summaryStatus \in {"RECEIVED", "Bank_Transfer"} THEN "Bank_Transfer"
                                                     ELSE "Waiting_SWIFT"

\* The status syncSwiftTransferState gives the receipts of the detail.
ReceiptStatusOf(summaryStatus) ==
  IF summaryStatus \in {"RECEIVED", "Bank_Transfer"} THEN summaryStatus
                                                     ELSE "Waiting_SWIFT"
=============================================================================
