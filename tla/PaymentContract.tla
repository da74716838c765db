--------------------------- MODULE PaymentContract ---------------------------
(***************************************************************************)
(* What a payment detail promises, without receipts, items, SWIFT rows or  *)
(* requests: an amount due, the amount paid in so many copies, and a phase *)
(* that follows from the two.                                              *)
(***************************************************************************)
EXTENDS Integers

CONSTANTS Details, Fees

VARIABLES phase, due, paid, copies

vars == <<phase, due, paid, copies>>

Open   == {"Waiting_SWIFT", "Bank_Transfer"}
Exists == Open \cup {"RECEIVED"}

Init ==
  /\ phase = [d \in Details |-> "Unused"]
  /\ due = [d \in Details |-> 0]
  /\ paid = [d \in Details |-> 0]
  /\ copies = [d \in Details |-> 0]

\* The amount paid covers the amount due, up to the fee of each copy.
Covered(d, fee) == due[d] > 0 /\ due[d] - paid[d] <= fee * copies[d]

\* The phase of a detail that has been paid something says whether it is
\* covered under some fee in force.
PhaseJustified(d) ==
  copies[d] = 0 \/ \E fee \in Fees : (phase[d] = "Waiting_SWIFT") <=> ~Covered(d, fee)

Balanced(d) == paid[d] <= due[d] /\ PhaseJustified(d)

SameMoney(d) ==
  due'[d] = due[d] /\ paid'[d] = paid[d] /\ copies'[d] = copies[d]
-----------------------------------------------------------------------------
Stay(d) == phase'[d] = phase[d] /\ SameMoney(d)

Issue(d) ==
  /\ phase[d] = "Unused" /\ phase'[d] = "Waiting_SWIFT"
  /\ paid'[d] = 0 /\ copies'[d] = 0
  /\ Balanced(d)'

\* The amount due is edited while the detail is open.
Amend(d) ==
  /\ phase[d] \in Open /\ phase'[d] \in Exists
  /\ paid'[d] = paid[d] /\ copies'[d] = copies[d]
  /\ copies[d] = 0 => phase'[d] = phase[d]
  /\ Balanced(d)'

\* A copy is added or edited while the detail is open.
Pay(d) ==
  /\ phase[d] \in Open /\ phase'[d] \in Open
  /\ due'[d] = due[d]
  /\ copies'[d] \in {copies[d], copies[d] + 1}
  /\ Balanced(d)'

\* A copy is signed; the last one completes the detail.
Sign(d) ==
  /\ phase[d] \in Open /\ phase'[d] \in Exists
  /\ copies[d] > 0
  /\ SameMoney(d)
  /\ Balanced(d)'

\* A detail that nothing was paid for is completed by its receipts.
CompleteByReceipts(d) ==
  /\ phase[d] \in Open /\ phase'[d] = "RECEIVED"
  /\ copies[d] = 0
  /\ SameMoney(d)

\* Rows are deleted: no amount rises, and the phase is judged again.
Withdraw(d) ==
  /\ phase[d] \in Exists /\ phase'[d] \in Exists
  /\ due'[d] <= due[d] /\ paid'[d] <= paid[d] /\ copies'[d] <= copies[d]
  /\ copies'[d] = 0 => phase'[d] = "Waiting_SWIFT"
  /\ Balanced(d)'

Remove(d) ==
  /\ phase[d] \in Exists /\ phase'[d] = "Deleted"
  /\ due'[d] = 0 /\ paid'[d] = 0 /\ copies'[d] = 0

\* One transaction may touch several details.
Next ==
  \A d \in Details :
    \/ Stay(d) \/ Issue(d) \/ Amend(d) \/ Pay(d) \/ Sign(d)
    \/ CompleteByReceipts(d) \/ Withdraw(d) \/ Remove(d)

Spec == Init /\ [][Next]_vars
=============================================================================
